# TLA+ verification of crossmist

crossmist runs Rust functions in subprocesses and sends objects between
processes. This directory holds TLA+ models of it, the TLC configurations that
check them on small instances, and TLAPS proofs for all instances. Paths below
are relative to the root of the repository (`src/asynchronous.rs` and so on),
line numbers refer to the commit the models were written from.

## 1. Inventory

| component | source | state | operations | what is hard |
|---|---|---|---|---|
| Unix transport | `src/platform/unix/internals.rs` | socket queues, positions of a sender, buffers of a receiver | `socketpair`, `send_next`, `recv_next` | partial sends, `WouldBlock` and resumption, end of stream inside an object, ECONNRESET |
| Channels | `src/asynchronous.rs` 115-380 | the stream | `channel`, `duplex`, `send`, `recv`, `request`, conversions | cancellation of futures, reuse after an error, both sides sending |
| Runtime adapters | `src/blocking.rs`, `src/tokio.rs`, `src/smol.rs` | blocking or not | `blocking_write`, `blocking_read`, `write`, `read` | readiness against hang-up |
| Subprocesses (Unix) | `src/asynchronous.rs` 384-637, `src/platform/unix/{subprocess,entry}.rs` | process, two streams, the mutex `may_kill`, descriptor tables | `spawn`, `handle_entry`, `join`, `get_kill_handle`, `kill` | death at any time, reuse of process identifiers, who holds which end of the socket, forks of other threads |
| Serialization | `src/serde.rs`, `src/builtins.rs`, `src/unsized_builtins.rs` | bytes and tables of resources | `serialize`, `deserialize` | order of the walk, descriptors that do not arrive |
| Functions as values | `src/static_ref.rs`, `src/relocation.rs`, `src/fns.rs` | captured values | relocation, `bind_*`, `lambda!`, calls | wrap-around of addresses, order of the environment, dispatch through boxes |
| OwningRef | `src/owning_ref.rs` | a pointer | take, leak, iterate | drop exactly once, unwinding |
| Windows | `src/platform/windows/*`, Windows halves of `src/asynchronous.rs` | broker process, job objects, handles, a stream of bytes | `socketpair`, `serialize_with_handles`, `_spawn_child`, `send`, `recv` | handles in flight, parent dying between two steps, races for the listener, transfers in pieces |
| Start-up | `src/imp.rs`, `src/lib.rs`, `src/platform/*/entry.rs` | a flag, `INIT_DATA` | `init`, `crossmist_main` | what a child may rely on when it runs |
| Derive macros | `crossmist-derive` | none (compile time) | - | the code they generate walks fields in one order |
| Worker pool | `examples/worker_pool.rs` | queue of idle workers | `new`, `run`, `close` | a worker lost on an error, tasks that wait for it |

How they interact: `spawn` makes a socket pair, starts the process on one end,
and sends it an object, the pair of an entry point (a relocated function
pointer) and the arguments. The process receives that object with the same
`recv`, calls the function, and `send`s the value back on the same socket.
`join` receives the value and then waits for the process. Channels are objects
themselves: their descriptors travel in the control messages of the packets, on
Windows as handle values of the broker. The runtimes only supply the waiting for
readiness. The worker pool is a user of all of it.

What makes each component correct:

- transport, on both platforms: the k-th object received is the k-th sent, whole;
  the end of the stream hides nothing whose `send` returned `Ok(())`; operations
  end when they can;
- subprocesses: `join` says `Ok` exactly when the function succeeded; `kill` hits
  the child or nothing; nobody waits for a process that is dead; nobody gets a
  descriptor meant for another;
- serialization, relocation, functions: what comes out is what went in; a body
  finds its own environment;
- Windows: no handle is lost in the broker, no process lives or dies by accident;
- worker pool: a task gets its own answer; a worker is lost only to a failed run.

PROJECT.json lists the hazards these properties are for, each at its line.

## 2. Modules

| module | what it is |
|---|---|
| `ObjectChannel` | abstract: two directions, each a reliable FIFO of whole objects |
| `RemoteCall` | abstract: functions called in other processes, each at most once, whose callers learn the truth or nothing |
| `SeqPacketChannel` | the Unix transport and the channel operations, packet by packet |
| `WinChannel` | the Windows channel: length and body over a stream of bytes |
| `WinSocketPair` | `socketpair` on Windows among rivals |
| `WinTransport` | the two before together: make the pair, then talk over it |
| `WinBroker` | handles on their way through the broker |
| `WinStartup` | jobs, broker and start-up of processes on Windows |
| `Subprocess` | `spawn`, `handle_entry`, `join`, `kill` and the process table |
| `FdInheritance` | descriptor tables across fork, exec and concurrent spawns |
| `Serde` | serializer and deserializer, call by call, for types of any nesting |
| `Relocation`, `FunctionObjects` | pointers into the executable; callables, captures and calls |
| `WorkerPool` | the worker pool |
| `SeqPacketChannelInv`, `SubprocessInv` | inductive invariants that are modules of their own (those of the other parts are at the end of their modules) |
| `*Proofs` | theorems |
| `MC*` | values of constants for TLC |

How they build on each other. `ObjectChannel` is implemented by
`SeqPacketChannel` and by `WinChannel` (each has an `INSTANCE ... WITH` called
`Promise`): the same promise on both platforms. `RemoteCall` is implemented by
`Subprocess`, for a call of `spawn` and `join`, and by `WorkerPool`, for a call of `run`:
the same promise with a process of one's own and with a shared one. `Subprocess` relies on that
result and counts packets only; `WorkerPool` relies on it and on
`Subprocess` and takes a request or a reply as one step. `WinTransport` extends
`WinSocketPair` (`Spec`) and `WinChannel` (`ChannelSpec`) and composes them, each
step one of either part that leaves the other's variables alone: no byte moves before the pair is there, and
none if it is somebody else's. `Serde` and `FunctionObjects` extend
`Relocation`.

Definitions marked "Faulty variant" are not part of the models. Each is the
definition after it with a plausible mistake (an off-by-one, a dropped guard, a
swapped order); putting it in the place of the original must violate the
property it was written for, and PROJECT.json says which.

### SeqPacketChannel

| model | code |
|---|---|
| `open`, `queue`, `reset` | the socket pair; `reset` is ECONNRESET pending on a socket after the peer closed with packets unread |
| `snd` | `data_pos`, `fds_pos` of the `SingleObjectSender` |
| `rcv` | the packets that `buffer` of the `SingleObjectReceiver` is made of |
| `fds` | how many descriptors its `fds` holds, and whether any of those packets lost some; `data_pos` or `fds` is not empty when `Buffered` |
| `op`, `parked` | which call is in progress and whether it awaits readiness |
| `sent`, `done`, `got`, `sendRes`, `recvRes` | history: objects started, sends that returned `Ok(())`, objects returned by `recv`, last results |
| `StartSend`, `SendPacket`, `SendWouldBlock`, `SendToClosed` | `send` and the turns of the loop of `send_next` |
| `StartRecv`, `RecvPacket`, `RecvWouldBlock`, `RecvEof`, `RecvReset` | `recv` and the turns of the loop of `recv_next` |
| `Taken`, `Hold`, `Deserialize` | what of a packet has room in `buffer`; the packet behind those held; the object made when the marker is set |
| `Ready` | the runtime finds the stream ready and calls the closure again |
| `SyscallError`, `Cancel` | an error such as EINTR or ENOBUFS; the future is dropped where it awaits |
| `Close` | an end is dropped, or its process dies |

Contents are abstracted: a packet carries the ordinal of its object and the
interval of bytes and descriptors it holds, so duplication, loss, reordering and
mixing remain visible. Any number of the descriptors of a packet may be cut off on
receipt, as the kernel does at RLIMIT_NOFILE; `recv_next` does not look at
MSG_CTRUNC, so it notices only when deserialization finds one missing and panics
(`recvRes = "panic"`), or never: an object of descriptors alone, all of whose first
ones were cut off, looks like none. The receiver's room is the sender's limit
(`MAX_PACKET_SIZE`), and `Taken` cuts a longer packet short. `sendmsg` on a SOCK_SEQPACKET socket is all or nothing, so
`n_written - 1` of the code is the length of the interval. `Blocking` is the set
of ends whose stream has `IS_BLOCKING = true`; for them the guards of
`SendPacket` and `RecvPacket` are the waiting in the system call. Tokio waits for
readiness before the first call as well; that first wait changes nothing the
model records and is left out. `Reuse = FALSE` says that a program stops using a
direction after an error or a cancellation in it; `Reuse = TRUE` lets it go on.

### Subprocess

| model | code |
|---|---|
| `parent` | where the parent is: `sending` is `spawn` inside `local.send`, `handed` a live `Child`, `receiving` / `locking` / `waiting` the three places of `join`, `joined`, `dropped`, `failed` |
| `child` | where the process is in `handle_entry` and in the closure `entrypoint`; `zombie` and `reaped` |
| `pid`, `owner` | `proc_handle` / `proc_id`, and the process table: identifiers are taken until waited for, and reused |
| `toSend`, `inbox`, `toReturn`, `outbox` | packets of the entry and of the value, not yet sent and not yet received |
| `mayKill`, `lock`, `kill` | the boolean in `may_kill`, its mutex, and a thread in `KillHandle::kill` |
| `status`, `returned`, `result` | exit status, whether the function returned, what `join` answered: `ok`, `err`, or `eintr` for a system call interrupted by a signal handler |

Who holds the process's end of the socket pair (`ChildEnd`) matters: the variable
`child` of `spawn` keeps it in the parent until `spawn` returns. A function that
returns `()` sends nothing (`job[c].unit`). The `?` after `recv` in `join` returns
before the mutex is touched and without `waitpid` (`JoinRecvFails`); so does one
after `waitpid` with the mutex released and the boolean already false
(`JoinInterrupted`). Dropping the future of `spawn` or `join` are `SpawnAborts`
and `JoinCancelled`. Seen as a `RemoteCall` (`CallerAt`, `CalleeAt`), the caller has left when
one of these happened or when `join` was interrupted: it was told nothing, and the
function may run all the same. A function is done when its process exits with
status 0 after it returned (for `()`, also by `exit(0)`, as documented). One thread per child uses kill handles: `kill` takes the
mutex for all it does, so several threads take turns.

### FdInheritance

`table[p]` and `cloexec[p]` are the descriptor table of process p and its
FD_CLOEXEC marks; descriptors get the lowest free number, as the system does.
`at[p][t]` and `job[p][t]` are the place of a thread in `spawn` and the child it
makes; `Large` are the children whose arguments do not fit into the socket buffer,
for whom `SendEntry` waits until the child reads. `Channel` is a channel of the program one end of which becomes an
argument; `Duplex` the one of `spawn`; `Spawn` the fork in `posix_spawn`;
`FileAction` the `dup2` of a descriptor onto itself that clears the mark in the
child (`unix/subprocess.rs` 57-65); `Exec` closes what is marked; `Enter` is
`crossmist_main`, which sets the mark again; `RecvEntry` receives the argument
with MSG_CMSG_CLOEXEC. `Command` is any other code that forks and executes a
program in between. The parent's thread stays in `posix_spawn` until the child
has executed (it uses vfork), the others go on.

### Serde, Relocation, FunctionObjects

In `Serde` each kind of type is one implementation of `Object` (types with the
same code share one). `serialize_self` first writes what is its own (`Own`: bytes,
a length, a flag, a pointer, a resource) and then calls itself for the parts
(`Parts`); `deserialize_self` reads what is its own (`Width`, `OwnOf`), knows from it
which types to ask for (`Wants`), and makes a value of what it gets (`Makes`). The
calls in progress are the stacks `writing` and `reading`, so a type may contain
itself by way of boxes, whose pointers are looked up in `OnHeap` and `HeapOf`.

| model | code |
|---|---|
| `s`, `d` | the `Serializer`: bytes and tables (`fds`, or `handles` and `sockets` if `windows`), and the rest of them in the `Deserializer` |
| `writing`, `reading` | calls of `serialize_self` and `deserialize_self` in progress |
| `SerializeObject`, `SerializePart`, `SerializeReturns` | such a call begins for an object of the batch, for the next part, and returns |
| `Transmit` | the bytes and tables reach a process where the executable is mapped at another base; descriptors may be lost, as the kernel does when the receiver may not open more |
| `DeserializeObject`, `DeserializePart`, `DeserializeReturns` | the same for reading; a table or the bytes may run out (`Panics`) |
| `trace`, `pos` | history: what the serializer and its calls were before every step, and how far reading has followed it |

In `FunctionObjects`, `heads` are the captured values, one for each layer
`BoundValue`, `BoundMut` or `BoundRef`; a call passes the layers from the
outermost in (`EnterBox`, `EnterBoundValue`, `EnterBoundMut`, `EnterBoundRef`) and
each prepends its head to the arguments; `EnterStaticFn` and `EnterItem` are the two
kinds of function at the bottom. `env` is history: the environment the lambda's
author has in mind.

### Windows

`WinSocketPair`: one attempt of the loop in `socketpair` per round, an action per
call of the system, `Leave` for the drop of the sockets when an attempt ends; rivals
connect whenever the path can be seen. The file at the path is left out: its removal
may fail (`SockGuard` ignores that), and no later attempt uses the same name. `PeerPid = FALSE` is Wine.

`WinChannel`: a message is `Length(k) \o Body(k)`, bytes that remember where they
come from. No body is empty, since it begins with the lengths of two tables
(`windows/internals.rs` 201-205). `Write` and `ReadBytes` move any number of them, as the system does,
and `write_all` and `read_exact` go on. A length read from bytes that are none is
any of `Garbled`. `RecvNone` is the code's answer to the end of the stream
anywhere in a length, `RecvCut` in a body.

`WinBroker`: `table` is the handle table of the broker, whose values are reused as
soon as they are free; `values` and `received` are the message and what its
receiver has stolen. Duplication into the broker, out of it, and the failures
between two of them are steps. A steal that fails (`StealFails`) closes the broker's
handle all the same, as DUPLICATE_CLOSE_SOURCE is documented to do whatever the
status: its value is free again, and the receiver never asks for those after it.

`WinStartup`: `proc`, `within` and `limits` are processes, the jobs they belong to
and the flags of the jobs; `handles`, `init`, `signal` and `entry` are what the
parent has put into the child, in the order of `_spawn_child` and `spawn`;
`JobCloses` is the system killing a job whose last handle is closed, `BrokerEnds`
the same for the broker's.

### WorkerPool

`queue` is the mpsc channel of idle workers, `line` the tasks at the mutex around
its receiver, `holds[t]` the worker a task has taken out, `worker`, `inbox`,
`outbox`, `ours` the process and its channel. `CancelWaiting` and `CancelRequest`
drop the future of `run` at its awaits, `WorkerStops` is a worker's death,
`CloseNext` and `CloseJoined` the loop of `close`. Seen as a `RemoteCall`, a function is
done when its output is in the worker's channel, and a caller has left when its future
was dropped, with a worker or without, or when a call of the system failed while the
worker lived, which `CancelRequest` stands for as well: `run` returns an error then,
although the worker may still call the function.

## 3. Runs

| run | instance | shows |
|---|---|---|
| `duplex` | both directions, one end blocking, one not, 2 packets of room, 2 objects each of 3 packets, the second with the rest of the bytes and the third with descriptors only, any descriptors cut off, fair | `DeliveredIntact`, `NothingLostAtEof`, the refinement of `ObjectChannel`, `SendEnds`, `RecvEndsAfterClose`, `Delivery` |
| `reuse` | one direction, `Reuse = TRUE`, 2 packets of room, 3 objects of every shape (nothing at all, full packet and a rest, descriptors only), any descriptors cut off | `NoneOnlyAtBoundary`, `TornLocally` |
| `drop_reset` | both directions, blocking, 1 object each | violates `DropIsNotAnError` |
| `subprocess` | 2 children and everybody else share 1 identifier, 1 packet of room, arguments that fit or do not, a value of 2 packets or `()`, 2 kills, fair | `KillHitsChild`, `JoinOkMeansSuccess`, `JoinReturns`, `KillReturns`, `SpawnReturnsOrChildDies`, `OrphansEnd`, the refinement of `RemoteCall` |
| `subprocess_spawn` | the same with 1 child | violates `SpawnReturns` |
| `fd` | 3 processes, one with large arguments, 2 threads each, descriptors 0 to 7, fair | `NoStrayEnds`, `RightEnd`, `EndsClose` |
| `pool` | 2 workers, 3 tasks, fair | `OwnReply`, `LossesPaid`, `CloseJoinsAll`, `CloseReturns`, `RunEnds`, `LostWorkersEnd`, the refinement of `RemoteCall` |
| `serde` | every batch of up to 2 objects of a catalogue nested nine deep, with a recursive list, both platforms, addresses of 4 bits, any loss of descriptors | `RoundTrip`, `NothingLeft`, `ShortTableYieldsNothing` |
| `functions` | 4 captures of the three kinds, 2 arguments, 2 processes, 3 calls, fair | `BodySeesEnvironment`, `ReachesBody` |
| `win_startup` | root and 2 more processes that spawn each other, fair | `UserCodeSafe`, `RunsWithBroker`, `NoComa` |
| `win_broker` | 3 objects with 2, 1 and 2 handles, 3 handle values | `RightHandles`, `InFlight`, `OnlyFailuresLeak` |
| `win_transport` | 2 rivals with 3 connections each, a backlog of 2; then 3 messages with bodies of 2, 1 and 1 bytes, a length of 2 bytes, 3 bytes of room, fair | `PairIsOurs`, `PairReturns`, the refinement of `ObjectChannel`, `Delivery` |

Bounds. `MAX_PACKET_SIZE - 1` is 2 and `MAX_PACKET_FDS` is 1: the code compares
positions with sizes only, so what matters is whether a size is below, at or
above a limit, which these allow in each coordinate. A room of 2 packets makes
a queue empty, partly full and full with objects of up to 3 packets, and lets the end
of one object stand before the beginning of the next. Two objects
per direction are needed to see one object's packets next to another's, three to
see a third one recover after a torn one. Two children and one identifier make an
identifier change hands every time it is released. `MaxFd = 7` lets a process hold
the four ends of two children at once; 3 processes are a parent with two children,
or a child with a grandchild, and one of them may be another program. Two workers
and three tasks make a task wait, and leave a pool with one worker, or none. The
catalogue of `MCSerde` has each kind of type, nested ones, and neighbours whose
resources could be confused; a batch of two shows one object's rest in the other.
Bases 5 and 11 of 16 addresses with places below and above the base make
differences that wrap around. Four captures tell first from last, and two layers of
one kind apart. Three processes on Windows are a root, a child and a sibling or a
grandchild, so that a job can contain more than one. Three handle values are fewer
than the five handles, so that values are reused while messages are under way. A
room of 3 bytes is less than one message and more than one length, so that a
transfer ends inside a length, at its end and inside a body. A third connection of
a rival fills the backlog again after two attempts were lost. `MaxSends`,
`MaxKills`, `MaxCalls`, `MaxConnects`, `MaxObjects` and `MaxFd` bound otherwise
unbounded counters; each is in the guards of the action it bounds. The theorems of
section 6 do not depend on these values.

Deadlock is not checked: all these systems may come to rest, because both ends
were dropped, all calls used up or all processes ended. What must not rest is
stated by the liveness properties.

## 4. Fairness

Weak fairness of what goes on by itself and of nothing else; calls, errors,
cancellations, drops and deaths are never fair, because nobody has to make them.

- `SeqPacketChannel`: a thread in a system call returns when the call can, and the
  runtimes poll a task whose socket is ready (`Work`). Whether the peer receives is a
  premise of `SendEnds` and `Delivery`.
- `Subprocess`: the work of a call of `spawn`, `join` or `kill`, and of a process
  outside the user's function, which need not end. The mutex needs no strong
  fairness: there is one thread in `kill` and one in `join`, and `join` takes the
  mutex once.
- `FdInheritance`: a forked child goes on to exec, and a call of `spawn` to its end,
  except that large arguments wait for a child that reads: if that has died, the call
  is stuck for good with both ends in its hands (`SpawnReturns` in section 5), which
  `EndsClose` says (`Stuck`).
- `WorkerPool`: tasks that can go on are polled, the mutex is first come first
  served (tokio's is), worker processes run between functions. That functions end
  is the premise `FunctionsEnd` where it is needed, not an assumption.
- `FunctionObjects`: a call goes on to the body.
- `WinStartup`: threads in start-up run and the kernel closes what nobody holds.
  `NoComa` is about children whose parent has died or given up, so that no step of
  the parent is needed for it.
- `WinTransport`: `socketpair` goes on with its attempts (`Attempt`); that rivals
  connect only `MaxConnects` times is what makes `PairReturns` true, since the loop
  has no limit of its own. The runtimes go on with a transfer while the system can
  (`Write` and `RecvWork`), once there is a connected pair.

## 5. Where code and documents disagree

Shown by the runs that expect a violation:

- `DropIsNotAnError`: `recv` is documented to return `Ok(None)` when the other
  side has dropped the channel (`src/asynchronous.rs` 222 and 299). If that side
  drops its `Duplex` before it has received everything, Linux answers the next
  `recvmsg` with ECONNRESET, once, before it hands out what is still queued; the
  Unix branch passes it on, the Windows branch (line 311) does not.
- `SpawnReturns` of `Subprocess`: `src/lib.rs` 217-220 promises that `run` returns
  an error if the process is terminated. `spawn` keeps its copy of the process's
  end while it sends the arguments, so if they do not fit into the socket buffer
  and the process dies, no EPIPE ever comes. `SpawnReturnsOrChildDies` states what
  does hold.

More of them are stated as properties that no run checks. To see one fail, name it
in the configuration given instead of the properties there:

| property | configuration | what happens |
|---|---|---|
| `NeverGlued` (`SeqPacketChannel`) | `Reuse.cfg` | an operation that fails or is dropped between two packets leaves the direction inside an object, and the next `send` continues it; `src/lib.rs` 72-74 calls channels typed. `TornLocally` is what is left |
| `NeverShifted` (`WinTransport`) | `WinTransport.cfg` with `Reuse = TRUE` | the same on Windows, where nothing marks the beginning of a message: after a `send` that failed or was dropped in the middle of one, all later ones are read shifted. `Unshifted` proves that this needs a program that goes on after a failure |
| `LimitIsAnError` (`Serde`) | `Serde.cfg` | descriptors cut off by RLIMIT_NOFILE make deserialization panic (`src/builtins.rs` 286); `src/serde.rs` 100-102 documents an error |
| `AllDeadReported` (`WorkerPool`) | `WorkerPool.cfg` | after the last worker is lost, `run` waits for ever: the pool itself keeps a sender of the queue, so "All workers are dead" (`examples/worker_pool.rs` 66) is never reported |
| `SpawnReturns` (`WinStartup`) | `WinStartup.cfg` | a process that dies before its signal leaves `spawn` in `signal.recv()`, since `child` is still open in the parent (`src/asynchronous.rs` 593); `NoComa` is about the child only |

From reading alone: the documentation of `src/asynchronous.rs` (10-14) says that
synchronous and asynchronous channels convert to each other, while only the
conversion from synchronous ones exists; `#[derive(Object)]` of an enum generates a
`deserialize_self` that returns a `Result`, unlike the one of the trait
(`crossmist-derive` 305-391, `src/serde.rs` 268).

## 6. Proofs

Eight modules. The only assumptions are those named `...Assumption` about the
constants, which TLC evaluates in the runs: sizes are natural numbers, limits and
rooms positive, names of nobody not names of somebody, every place of the
executable mapped at an address.

| module | theorems |
|---|---|
| `SeqPacketChannelProofs` | `TypeCorrect`; `Invariance`; `Intact`, `EofSafe` (`DeliveredIntact`, `NothingLostAtEof`); `Implements` (`ImplementsObjectChannel`); for every program, `AnyUse`, `TearsAreLocal`, `EofAtBoundary` (`TornLocally`, `NoneOnlyAtBoundary`) |
| `SubprocessProofs` | `Invariance`, `TypeCorrect`; `KillSafe`, `JoinSound`, `JoinComplete` (`KillHitsChild`, `JoinOkMeansSuccess`, `JoinErrMeansFailure`); `Implements` (`ImplementsRemoteCall`) |
| `FdInheritanceProofs` | `Invariance`; `NoStrays`, `Numbers` (`NoStrayEnds`, `RightEnd`) |
| `WorkerPoolProofs` | `Invariance`; `RepliesAreOwn` (`OwnReply`); `PaidInvariance`; `LossesArePaid`, `CloseHasJoinedAll` (`LossesPaid`, `CloseJoinsAll`); `CallInvariance`; `Implements` (`ImplementsRemoteCall`) |
| `ObjectProofs` | of `Relocation`: `Relocates` (relocation is the identity on places, for every word size and all bases). Of `FunctionObjects`: `Invariance`; `SeesEnvironment` (`BodySeesEnvironment`); `Enters`, `Keeps`. Of `Serde`: `SelfUndone`; `SerdeInvariance`; `ObjectsRoundTrip`, `NothingIsLeft`, `ShortTables` (`RoundTrip`, `NothingLeft`, `ShortTableYieldsNothing`) |
| `WinStartupProofs` | `Invariance`; `UserCode`, `Broker`, `Spares` (`UserCodeSafe`, `RunsWithBroker`, `JobsSpareUserCode`) |
| `WinBrokerProofs` | `Invariance`; `Right`, `StaysInFlight`, `Leaks` (`RightHandles`, `InFlight`, `OnlyFailuresLeak`) |
| `WinTransportProofs` | of `WinSocketPair`: `Invariance`; `Ours` (`PairIsOurs`), on Windows and on Wine. Of `WinChannel`: `ChannelTypes`; `ChannelInvariance`; `Unshifted` (`NeverShifted`); `StreamImplements` (`ImplementsObjectChannel`). Of both together: `TransportOurs`, `TransportImplements` |

`IInv` always contains the type invariant `TypeOK`; neither is checked by a run of
its own, being proved for every instance. Nor are `JoinErrMeansFailure`, which follows
from `ImplementsRemoteCall`, and `JobsSpareUserCode`, which is what `UserCodeSafe` means
for a step of the system.

Channel. A place in the stream of an end is an object's ordinal and a position in
it. The sender is at one place, the receiver (what it has returned, and the
packets it holds) at another. `DeliveredIntact` alone is not inductive: it says
nothing of packets under way. `IInv` says that each packet in the queue begins at
the place its predecessor leads to, the first one at the receiver's place, the
last one leading to the sender's place (`QueueInv`), that the packets held by the
receiver are the beginning of its next object (`PartialInv`), and that a direction
that has failed is not used again (`OpInv`, `SenderInv`). Only the last needs
`Reuse = FALSE`, which `Invariance`, `Intact`, `EofSafe` and `Implements` assume. At
the end of the stream the queue is empty, so the two places coincide: from that
follows `EofSafe`.
`ChunkProgress` is where positive limits are needed: a packet that is not the last
one is never empty. The refinement maps `delivered` to ordinals of intact objects
and every step to a step or a stutter.

Without `Reuse = FALSE` packets no longer fit together, and what is left is an
order. `AnyUseInv`: ordinals only grow along the packets that were returned, those
held, those in the queue and the object being sent (`LaterInv`), strictly after a
last packet, and an object that is being sent has had no last packet yet
(`UnfinishedInv`). `Torn` restates `TornLocally` for one object returned.
`TearsAreLocal` follows, and `EofAtBoundary` too: a packet that is held is never
empty (`Inner`), so a receiver that holds one whose descriptors have all come
(`HeldInv`) reports an error at the end of the stream; if some were cut off, it may
take the end for a boundary, which is all that is left.

Subprocess. `HandleInv`: who holds the mutex, that the boolean is false from the
moment `join` waits, and that an identifier names its child until then; a kill
that has read `true` still holds the mutex. `EntryInv` and `ValueInv`: the
function runs only after the whole entry was read, and a process that returned
and exits with 0 has sent its whole value. `JoinInv`: what `join` has seen when it
reaches the mutex and what it answers. ECONNRESET at the parent means that the
entry was not read, so the function did not return: `JoinRecvFails` cannot
turn success into an error. `Implements` needs more than the answers of `join`, which
come when the process is gone: after an error that is reported earlier the function
must not be called. There is one such, ECONNRESET, and by `EntryInv` it means that the
process ended before it had read its entry (a status of 0 needs the whole of it).
`ParentMoves` and `ChildMoves` say which step of `RemoteCall`, if any, the steps of the two
sides are, `UnseenKept` that what a child's call looks like does not change by others'.

FdInheritance. `NoStrayEnds` speaks of programs that run; between fork and exec a
process does hold what is not its own. `Rightly` says that it is then marked,
`Marked` that all but the number on a command line is marked in every process at all
times, `Numbered` and `Jobs` that this number is the child's own end when it forks
and stays so, for any number of threads that work on other children meanwhile.

WorkerPool. `OnePlace`: a worker is in the queue once, or with one task, never
both. Then the channel of a worker in the queue is empty (`Quiet`), and that of a
worker with a task holds nothing, the task's function or its output (`OneRequest`).
A cancelled or failed task drops the worker and with it all that is under way,
hence `OwnReply`. To count, `PaidInv` compares `Lost`, the workers that are
neither in the pool nor being joined or joined, with the runs that failed or were
cancelled (`Failed`): a step that adds a worker to the one adds a task to the other,
since a task holds one worker, and both are finite at all times although `Workers`
and `Tasks` need not be. When the pool is open nobody has been joined, and when
`close` returns nobody is queued or held, which turns the same count into
`LossesPaid` and `CloseJoinsAll`. For `Implements`, `IInv` says too little of workers that
no task holds any more and that go on for a while. `CallInv` follows every function
rather than every worker: it was sent to one worker at most, which has it in its inbox,
calls it, or called it last (`SentTo`); an output is that of the function its worker called
last and has not been followed by another request (`ShapeInv`); a run that returned `Ok`
has its function called, and the worker of one that failed is not running and has left
no output (`RequestInv`). `CallStep` proves it inductive together with `IInv`, and `Views`
reads `CalleeAt` off it.

FunctionObjects. In a call the arguments so far are the heads of the layers
passed, from the next one inwards, followed by what the caller gave (`ArgsSoFar`),
and heads are the environment. `Relocates` is arithmetic modulo the word size.

Serde. For every type, however nested, and every batch. An induction over values
would show that reading undoes writing; here the two are processes that go in
step, and the induction is over steps. `trace` keeps every state of the serializer
and its calls (`TraceInv`), and `pos` says which of them reading has reached. There,
by `ReadInv`, each call of `deserialize_self` answers the call of `serialize_self` in
its place: it has the same type, asks for the types of that one's parts, and has
got the values of those that were done (`Answers`), callers one less, since they wait
for it; and what is still to be read is what was written from there on (`Rest`).
`SelfUndone` is the step: from the bytes that `Own` wrote, `OwnOf`, `Wants` and `Makes`
get back the types of the parts and, from their values, the value, in whatever
process the executable is mapped elsewhere (`Relocates`). `CallsInv` says that calls
are those of objects and of their parts, which `SerdeAssumption`, the only
assumption, makes fit their types. When descriptors were lost, values are not known
to be right, but places still are, and fewer descriptors are left than the
serializer wrote from there on: so reading cannot come to the end of the object
(`ShortTables`), and it panics at a descriptor that is not there.

WinStartup. A process in user code has its entry; the entry is sent after the
signal was received, which is after the job was changed; so jobs of processes in
user code let children break away and every process belongs to its own job only.
The broker is alive while anybody who runs or spawns holds its job.

WinBroker. The pending part of each message (`Pending`: without what was stolen and
without the handle whose steal failed) names values that hold its resources and
belong to no other message; all other used values belong to failed objects; received
handles are a prefix of those sent.

WinTransport. `socketpair`: where the peer cannot be asked for, the backlog has
room for one connection, and if ours is in it nobody else's is.

The stream: a place is the byte that must come there, the i-th of the k-th message
or else the first of the next one (`Place`, `After`). `StreamInv` says that each byte under way has the place its predecessor
leads to, the first one the reader's, the last one leading to what `send` has not
yet written; `SenderInv` that this is the end of one message; `ReaderInv` that `recv`
holds the first bytes of the length or the body of the next one, so what it takes
for a length is one (`Unshifted`); `NoneInv` that after the end of the stream nothing
is left. `Reuse = FALSE` is needed as on Unix, and for the same reason. The pieces a
write or a read moves are arbitrary, so the proofs need that a sequence of places
can be cut and joined anywhere (`Split`, `Join`), and that bytes each at the place
its predecessor leads to are consecutive bytes of the message as long as it has
bytes left. The latter goes by induction over the set of numbers it holds for
(`Induction`), which the provers can instantiate where the library's theorem with an
operator parameter cannot be. `StreamImplements` is step by step as on Unix. For the whole,
`Parts` shows that a step of `WinTransport` is a step of each part or leaves it alone,
and the theorems of the parts carry over.

Only model-checked: liveness everywhere (the provers handle neither fairness nor
ENABLED here).

## 7. Not modelled

- `OwningRef`: sequential code about the ownership of memory when a panic unwinds;
  what could go wrong is below the values these models speak of.
- `Duplex::request` on a channel that goes on being used after a failed request: the
  reply stays and the next request returns it. Only the pool's use, which drops the
  channel, is modelled.
- Conversions between channel types, and to and from raw descriptors.
- Both ends of a `Duplex` sending more than the socket holds while neither receives:
  the code blocks for good, and the liveness properties of a send have the receiving
  of the peer as their premise.
- The workers that `close` of the worker pool drops without joining when the join of an
  earlier one fails.
- The temporary file of `socketpair` on Windows.
- `Child::join` and `KillHandle` on Windows, where a kill handle keeps the raw value
  of a handle that the `Child` owns (`src/asynchronous.rs` 518); `get_own_name`
  (`windows/subprocess.rs` 38-54), a pure function of the system.
- Start-up: the dispatch on the command line and the flag of
  `perform_sanity_checks`, written once before anything else runs.
- The derive macros as programs (compile time); what they generate is in `Serde` and
  `FunctionObjects`.
- The reactors of tokio and smol and the kernels: external, modelled by what the
  code relies on (`HasRoom`, `Writable`, `Readable`, `reset`, `owner`, the lowest free
  descriptor, jobs). A panic in the parent, allocation failures, formatting.
- A failing `posix_spawn` leaves nothing behind in `Subprocess` and has no step
  there; `FdInheritance` has it (`SpawnFails`).
