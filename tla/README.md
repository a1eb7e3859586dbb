# A TLA+ model of bitbang-cli

bitbang-cli lets one machine offer files, a shell, TCP ports and web pages to
another over a WebRTC data channel, with no account and no open port. This
directory holds a TLA+ model of the parts of it where several goroutines, two
ends of a channel, timers and teardown meet. TLC checks the model on small
instances; TLAPS proves the most important invariants for every value of the
constants. Paths below are relative to `src/`.

Running it, from this directory:

    tlc -config MCFrameQueue.cfg MCFrameQueue     # one run
    tlapm FrameQueueProofs.tla                    # one module's proofs

## 1. The system

```
 signaling server (external)
      |  websocket: register, request, answer, candidate, pair_request
 internal/signaling ----> cmd/bitbang/serve_listen.go  <---- console, link file
                               |  one servePeer per connector
                               |  (internal/peerset registry, deadline)
                          internal/peer.Connection      (pion: ICE, DTLS, DC)
                               |  frames of one data channel
                          internal/framequeue.Queue
                               |
                          internal/session.Session      (stream 0: handshake)
                               |  one worker goroutine per stream
                          internal/streamtype handlers  (shell, tcp, http, file)

 the other end: internal/client (Dial, handshake, streams), or a browser
```

| Component | State it keeps | Operations | What is hard | What makes it correct |
|---|---|---|---|---|
| frame queue (`internal/framequeue`) | closed, published, dispatching, pending frames and bytes | Enqueue, Publish, drain, Close | reader, drain goroutine and closers interleave; calls are made outside the lock | frames one at a time, in order, bounded, handed over, at most one after Close |
| stream flow control (`session/flow.go`, `client/session.go`) | per stream: sent, sendMax, received, consumed, advertised, queued frames and bytes | write, grant, enqueue, consume, reset | grants and frames cross; dispatcher and worker share counters; writers block | no credit deadlock, no false accusation, exact counters, streams complete |
| session handshake (`session/control.go`) | negotiated version, ready, failed PINs, streams, closed | connect, auth, SYN, Goodbye, Close | messages in any order, a revocation at any moment | PIN before anything, no stream after Close, both ends on one version |
| serve listener (`serve_listen.go`, `serve_peer.go`, `peerset`) | peers, registry, unauthenticated slots, deadlines, the link table | request, answer, pair request, ready, poll, revoke, teardown | eight goroutines may end the same peer | slots exact and returned, one teardown, revocation effective, ids reusable |
| peer connection (`internal/peer`) | closed flag, close callback, nonce, authorization | setup, answer, pairing, close | callbacks from pion at any time, also before setup is complete | close callback runs exactly once |
| link table and file (`internal/links`, `serve_links.go`, `link.go`) | rows with terms and access codes; the file and its modification time | load, save, dedupe, retire, mint, reload, add, remove, replace | two goroutines of the listener, another process and an editor rewrite one file without a lock | no two links share a code, the table in force is the file written, a lapsed code stays dead |
| console (`console.go`, `hold.go`) | open, closed, pending, waiter, yield; the question lock; the held output | commands, ask, hold, step aside | a pairing's question and the operator's loop share one terminal, and nobody has to type | a pairing gets its turn, the loop comes back |
| share worker (`internal/share`) | control slot, viewer slots, peers with their sessions and terminals, timers | admit, preempt, refuse, teardown, stop | a new controller while the old one is torn down; a terminal starting while its peer ends | slots exact, one holder of the keyboard, nothing left after teardown or stop |
| share command (`share.go`, `internal/share/state.go`, `lock_unix.go`) | state directory, state file with a nonce, lock file, the tmux session of the worker | share, status, stop, rotate, sweep | commands run at once and may be killed anywhere; a flock belongs to an inode, not to a name | a live share keeps its record, what a command reports is so |
| signaling client (`internal/signaling`) | the socket, the pairing code under renewal, preempted | connect, reconnect, register, renew, stop | no read has a deadline; answers come late, or from before a reconnect | stop ends Connect wherever it is, a renewal is answered by its own socket |
| pairing (`internal/pairing`) | commitment, nonce, SAS | commit, reveal, compare, grant | both ends confirm independently | no grant without two confirmations of the same SAS |
| stream handlers (`internal/streamtype`) and client operations (`internal/client`) | processes, sockets, files, requests per stream | OnSYN, OnDAT, OnFIN, OnReset, CloseAll; Get, Put, Shell, forward | a process, a dial or a file ends while frames, resets and the loss of the session arrive | an end of data is faithful, a reported upload is whole, an abort leaves nothing behind |
| grants (`internal/grant`, `serve_scope.go`) | none | parse, intersect, effective | precedence of several sources | a link never grants more than the listener offers |

`PROJECT.json` lists every component with its status, and under "hazards" the
places in the code that are hard to test, each with the properties aimed at it.

## 2. Modules

### FrameQueue

State: the five fields of `Queue`, a program counter for each goroutine
(reader, drain, the transport's close callback, the owner's `Close`), and what
each holds. Every critical section of the mutex is one action, and every call
made outside it another, because the questions are about what happens between
two sections.

| Actions | Code |
|---|---|
| `EnqueueClosed`, `EnqueuePending`, `EnqueueOverflow`, `EnqueueDirect`, `DeliverDirect` | the branches of `Enqueue` |
| `Publish`, `TakePending` | `Publish`, `takePendingLocked` |
| `DrainCheck`, `DrainDeliver`, `DrainTake`, `DrainExit` | the four parts of `drain`, the deferred one included |
| `OverflowFire`, `OverflowClose`, `TransportFire`, `TransportClose`, `OwnerClose`, `OwnerFire` | the three ways into `Queue.Close` through `Connection.fireClose` |

Frames are an arrival number and a length. `delivered`, `late` and `early` are
history variables; no guard reads them.

### StreamFlow

One direction of one v4 stream. The writer, the receiver's dispatcher, its
stream worker and the sender's dispatcher are the actors; `wire` and `grants`
are the ordered data channel. `receiver`, chosen in `Init` from `Receivers`, is
the end of the repository that receives: the listener releases a frame's queue space only after the handler
returned and the grant was sent, the client in the critical section that counts
it. A payload is its length. `end` in a frame is a history field: the number of
charged bytes up to the frame's end. It lets the proof speak of the charged
bytes on the channel and in the queue without summing.

### SessionHandshake

Both ends of stream 0 over two ordered channels. The listener's dispatcher
handles one frame at a time but in several steps (`notify`, `mark`, `result`,
`ready`, `admit`), because `Goodbye` and `Close` run on another goroutine
between them. `Init` chooses whether the listener has a PIN, which version the
other end speaks and what it is: `internal/client`, or (`client = "any"`) a peer
that sends control and SYN frames in any order, which stands for browsers, other builds and other implementations.

### ServeListener

The life of peers on a `serve` listener. Each peer is a record: its servePeer,
Connection, Queue and Session fields and the program counters of the two
goroutines that may be inside its teardown (`closer`: who won `Queue.Close`)
and its callback (`firer`: who won `fireClose`). `loop` is the signaling read
loop, which handles a request or an answer in several steps. The console and
the expiry ticker are two pollers, each with its own snapshot of the peers and
of the table. The link table is the set of codes it admits. A teardown or
callback begun by the signaling loop runs as an actor of its own here; the loop
does not wait for it, which adds interleavings and removes none.

### ShareWorker

The worker behind `bitbang share`, which publishes one tmux session to one
controller and some viewers. A peer is again a record: its sharePeer,
Connection, Queue, Session and shell handler, and a program counter for the
goroutine that won its teardown (`closer`), the one that runs its close
callback (`firer`) and the one that preempts it (`preempt`). The two kinds of
slot are what the code keeps: a holder and a counter. Between `TakeView` or
`TakeControl` and `Hold` the slot belongs to the signaling loop, afterwards to
the peer's teardown. `term` is the peer's terminal: admitted by `AcquireSlot`,
started under the handler's lock, ended by its process or by
`ShellHandler.Close`. `stop` is `Worker.shutdown`.

| Actions | Code |
|---|---|
| `Request`, `Register`, `SetOnClose`, `ArmEstablishment` | `handleRequest`, with the registry's `AddLimited` |
| `AnswerFails`, `Answer`, `TakeControl`, `TakeView`, `Hold`, `Publish`, `ArmRefusal` | `handleAnswer`, `authorize`, `buildSession` |
| `PreemptGoodbye`, `PreemptDrops`, `TimerDrops`, `CallbackDrops` | `preempt`, the two timers, the close callback: the ways into `dropPeer` |
| `CloserShell`, `CloserRelease`, `CloserConn` | `teardown` after `Queue.Close` has marked the peer closed |
| `TermAcquire`, `TermSpawn`, `TermExits` | the shell handler's admission, start and `waitAndFinish` |
| `RunEnds`, `StopDrains`, `StopTeardown`, `StopDone` | `Run` returning and `shutdown` |

### ShareCommand

What two `bitbang share` processes, the worker they start and tmux do to one
state directory. A command is a program counter that walks through
`enterTarget`, `loadLiveShare` and its own branch; it may be killed at any step
(`Exit`). The lock file is an inode number: `Enter` opens it, `Flock` locks
what was opened, `Unlink` frees the name, so two commands can hold "the" lock
at once. tmux answers a probe truthfully or not at all. A worker is `starting`,
`ready` (its record is written) or `exited`. `gaps` records which of the two
holes in the exclusion (section 3) a behaviour has met.

### The stream handlers

Each module is one stream with both ends: a program counter for every goroutine
(the session's stream worker, the handler's goroutine, the client operation),
the two queues of frames between them, and the resource behind it. Frames are a
kind and a piece number (`StreamFrames`). Credit is left to StreamFlow: here a
write either goes out or fails because the stream or the session is gone. Every
module has resets from either end and the loss of the session at any step.

| Module | Ends | Code |
|---|---|---|
| `TcpForward` | `LocalForwarder.forward`, `bytestream.Pump`, `receiveTCP` / `TCPHandler` | `client/tcp.go`, `streamtype/tcp.go`, `bytestream` |
| `FileTransfer` | `Session.Get`, `Put`, `List` / `FileHandler` | `client/fileops.go`, `streamtype/file.go` |
| `ShellStream` | `Session.Shell` / `ShellHandler`, `shellAdmissions` | `client/shellops.go`, `streamtype/shell.go`; two shells compete for the limit |
| `HttpStream` | a page / `HTTPHandler`, `HTTPLocalHandler`, `WSHandler`, with or without `httpDispatcher` in front | `http.go`, `http_local.go`, `websocket.go`, `http_dispatcher.go` |

`BytePipe` is the abstract specification of what carries bytes: the reader gets
what was written piece by piece, none left out and none twice, and is shown an
end only where the writer put one.
`TcpForward` instantiates it for each direction (`Upward`, `Downward`) and
`HttpStream` for the request body (`Body`); the mappings send the two programs
at the ends to writer and reader, so everything in between has to be a stutter
or a read. `MCStreamHandlers` lets the first SYN choose the type.

### LinkStore

The file as rows, how it reads and who wrote it; the table in force; and for
every writer where it is between loading and swapping the table. `LoadStat`,
`Stat`, `SaveFails`, `Rename` and `Swap` are the steps of `mutate` with
`links.Save`; `DedupeCodes`, `RetireExpired` and `Mint` are operators on rows. `bitbang link rm` runs the same
steps in another process, an editor changes the file at any time: a new row, a
copied row with its code, a file that does not parse, a label used twice, no
file at all.

### Console

The reader of the terminal, the command loop and the goroutines of pairings,
with the fields of `console`, the owner of `askMu` and the prompt channel of
each goroutine. Sections of `c.mu` are single steps; `askMu` is held across
steps. `Hold`, `AskNow`, `StepAside`, `waitIdle` and the deferred calls of a
prompt are separate actions because the races are between them.

### SignalingClient

`Connect` as a program counter (dial, store, register, await, serve, lost,
retry), the open socket with its messages, `Stop` in its two steps (cancel,
close what is stored), and `RenewPairingCode` against the one-place channel
`codeIssued`. The server answers in order, late or never. `call` in a message
and `answered` are history: which renewal a code was issued for and which one
returned it.

Modules whose names start with `MC` instantiate a specification for TLC and
add what only TLC needs, a symmetry or a constraint; `MCStreamHandlers` also
composes the stream handlers. Modules whose names end in `Proofs` hold the
theorems about a component.
Definitions whose names start with `Mutant` are deliberately wrong variants of
the definition after them: each property has one that it notices.

## 3. Runs

| Run | Checks | Result |
|---|---|---|
| `frame_queue` | delivery one at a time, in order, at most one late, the backlog bounded and handed over | holds, 40 k states |
| `frame_queue_overtaking` | the comment that no frame overtakes another | **violated** |
| `stream_flow` | credit, accounting, progress, with either end receiving | holds, 25 k states |
| `handshake` | PIN gate, admission, version agreement against this client and any peer; the exchange ends | holds, 924 k states |
| `serve_listener` | slots, teardown, registry | holds, 1.8 M states |
| `serve_listener_live` | slots return, ids are freed, revocation takes effect | holds, 33 k states |
| `share_worker` | viewer slots, the keyboard, teardown, shutdown | holds, 1.4 M states |
| `share_command` | a live share keeps its record, reports are true | holds, 1.3 M states |
| `stream_handlers` | forwards and request bodies implement `BytePipe`; uploads whole; exit after output; nothing left after an abort | holds, 259 k states |
| `link_store` | codes distinct, the table follows the file | holds, 807 k states |
| `console` | a pairing interrupts the loop, the loop comes back | holds, 464 k states |
| `signaling` | a renewal is answered by its own socket, Stop ends Connect | holds, 30 k states |

The type invariants of SessionHandshake, ServeListener and ShareWorker and
`FlowMatchesVersion` are proved (section 4); no run lists them.

### Where code and comments disagree

The first has a run of its own. The others are stated as properties in the
modules named, next to the weaker property that holds and is checked; adding
one of them to the module's configuration shows the behaviour.

1. **Overtaking** (`NoOvertaking`, FrameQueue). `drain` finds nothing pending,
   unlocks, and clears `dispatching` in its deferred function. A frame that
   arrives in between is queued where nobody looks; later frames go directly.
   It is lost, not reordered: `InOrder` holds and is proved.
2. **SYN payloads** (`WindowIsHonoured`, StreamFlow). A SYN's payload is free of
   window charge but takes room in the receive queue, which is exactly one
   window large.
3. **auth before connect** (`VersionFixed`, SessionHandshake). With a PIN, `auth`
   alone makes a session ready, so streams may exist before the first connect
   fixes the version. Only a peer other than this client does that.
4. **Hold** (`HoldReleased`, ServeListener). `OnPairDone` runs only if the
   pairing's data channel opened; `LoopComesBack` excepts that pairing.
5. **Session of a share peer** (`SessionReleased`, ShareWorker). The share
   worker's teardown closes the shell handler and the connection, not the
   session, although the comment on `sharePeer` lists it.
6. **Sweeps** (`RecordKept`, ShareCommand). A sweep removes a directory without
   a state file without asking tmux, also while its worker is about to publish
   into it; and a lock taken on a file that a sweep has unlinked excludes
   nobody. `LiveShareKeepsRecord` and `ReportsAreTrue` hold wherever neither
   happened.
7. **Replacing a lapsed link** (`LapsedStaysDead`, LinkStore). `replace` says
   that a lapsed entry gets a fresh code, but the expiry it looks at is the
   edited one: the old code is live again.
8. **Output during a prompt** (`PromptIsHeld`, `HeldOnlyInUse`, Console). `leave`
   releases the output after it unlocked, over a prompt that has entered
   meanwhile; and after the last wrong SAS nobody leaves, so the output stays
   held.
9. **Deadlines of questions** (`PairQuestionBounded`, Console). The deadline of
   a pairing's question starts when it has `askMu`; the wait for it has none.
10. **Aborted streams** (`TransferReleased`, FileTransfer; `ResetReleases`,
    HttpStream). A put that is reset while `OnSYN` opens its file is registered
    afterwards and waits for data that cannot come; and `httpDispatcher` does
    not pass `OnReset` on, so a page's abort does not end its request.
    A request or WebSocket is likewise registered after a reset that came while
    its SYN was handled (`late`), and then lasts until its upstream or a write
    to the page that fails ends it. `TransferEnds` and `AbortedIsReleased` hold
    without these cases.
11. **The shell limit** (`ShellLimitHolds`, ShellStream). A shell displaced before
    it has started is not told to go.
12. **A renewal's answer** (`RenewalIsItsOwn`, SignalingClient). "Drain a stale
    answer so a slow earlier reply cannot be mistaken for this one"
    (`client.go:336`), but the drain comes before the request is written. The
    answer to a renewal that timed out, arriving on the same socket after the
    next renewal has drained the channel, is returned as that one's. Only the
    reconnect part holds: `RenewalFromItsSocket`.

One omission contradicts no comment but limits a property. `mutate` reads the
file, works on the rows, writes and swaps without a lock over the whole: when
the console and a pairing's grant change the table at once, one update is lost,
and the table may differ from the file until the next reload. `TableFollowsFile`
therefore excepts behaviours in which two goroutines of the listener met there
(`raced`), and files that somebody else has written since.

### Bounds

The constants marked "bound" in the modules limit how much happens; no other
counter is cut off.

* FrameQueue: a cap of 3 bytes with frames of 1 and 2 makes a backlog fit
  exactly, overflow by one and overflow by a single large frame; 5 frames allow
  a backlog, frames during the drain and direct ones after it in one behaviour.
* StreamFlow: a window of 4, a threshold of 2, chunks of at most 2 keep the
  condition the code's values meet (1 MiB, half of it, 32 KiB: `Chunk +
  Threshold <= Window + 1`) at the smallest size where a partial window is left over; 7
  bytes are almost two windows, so grants arrive, cross and are crossed. The
  listener run's frame limit of 3 is reachable, so overflow resets happen too.
* SessionHandshake: the versions are a missing one (0), one without flow
  control (3), this build's (4) and one newer than the listener (5); three
  wrong PINs are reachable; 4 frames are enough for connect, auth, SYN and one
  more in any order.
* ServeListener: one client id and two peers make the id be reused while the
  first peer is torn down; one slot makes the cap bind. The liveness run has
  one peer: its properties are about a single peer's actors.
* ShareWorker: two peers suffice for a preemption, for one viewer to be refused
  while the other holds the only slot, and for an id to be reused while its
  first peer is torn down. `SparePeers` is 5 in the code and 1 here, so that
  the registry's limit can be met.
* ShareCommand: two processes, each running one command after another, and two
  starts, so that a rotation replaces a worker whose end is still under way.
  The processes are interchangeable.
* Stream handlers: one piece each way through a forward makes data, end, reset
  and loss meet in every order; three pieces of a body with a peek of two leave
  one behind the peek; a file of three pieces can fail at its start, inside and
  at its end. Two shells, one of them the owner's, and a limit of one make
  displacement and refusal happen.
* LinkStore: two labels, so a row can be copied and renamed onto another; one
  step of the clock, so links lapse; three codes, of which one is the owner's.
  The constraint in `MCLinkStore` keeps one writer busy beside the console, and
  after an edit only the console: every pair of writers meets, no triple does.
* Console: two pairings, so that one waits behind the other; one attempt and
  one question each, because a further question repeats the same steps.
* SignalingClient: three sockets and three renewals let a late answer meet the
  next renewal on the same socket and after a reconnect.

### Fairness

Weak fairness is assumed of goroutines that are inside a function of the code
and need nothing but the scheduler: the reader, drain and close steps; the
dispatchers and stream workers; a writer that has credit; the signaling loop; a
timer that is armed; the ticker. A handler and a caller are assumed to take the
frame they are given, and the PIN prompt to return: the code gives them no
timeout. Nothing is assumed of the peer (it may never answer, never
authenticate, never close), of the operator, of link expiry, or of failures.
`HandshakeEnds` is checked with every fault allowed but no fairness on the
client's timeouts, so that the exchange itself, or the loss of the transport,
has to end the wait. In the stream handlers a dial and a file operation end,
a killed process dies, and the application, the target, the page, the upstream
and the command owe nothing. On the console nobody has to type. The one strong
fairness is a pairing's wait for `askMu`: other goroutines take and release
that Go mutex again and again, and a waiting goroutine gets it in the end. The
signaling server owes no answer. ShareWorker, ShareCommand and LinkStore have
safety properties only.

Deadlock checking is off except in `share_command`, where a process can always
begin another command: the other systems may come to rest (the peer sends
nothing more, the stream is finished, the bound is reached).

## 4. Proofs

Every invariant that a run checks is also proved, and so is the refinement of
`BytePipe`. The theorems hold for every value of the constants that satisfies
the named assumption of the module: any number of peers, frames, bytes,
messages, processes and reconnects.

| Theorem | Module | Statement |
|---|---|---|
| `TypeCorrect` | FrameQueueProofs | `Spec => []TypeOK`, with `pendingBytes <= MaxBytes` |
| `DeliveryExclusive` | | `Spec => []OneAtATime` |
| `DeliveryInOrder` | | `Spec => []InOrder` |
| `LateDeliveryBounded` | | `Spec => []AtMostOneLate` |
| `TypeCorrect` | StreamFlowProofs | `Spec => []TypeOK`, with both queue bounds |
| `SenderNotAccused` | | `Spec => []CompliantSenderNotAccused` |
| `CreditNeverDeadlocks` | | `Spec => []NoCreditDeadlock` |
| `QueueIsAccounted` | | `Spec => []QueueAccounted` |
| `PinGateHolds` | SessionHandshakeProofs | `Spec => []PinGate` |
| `ClosedHasNoStreams` | | `Spec => []NoStreamAfterClose` |
| `TypeCorrect` | | `Spec => []TypeOK` |
| `EndsAgree` | | `Spec => []EstablishedTogether` |
| `FlowIsNeverSwitched` | | `Spec => []FlowMatchesVersion` |
| `TypeCorrect` | ServeListenerProofs | `Spec => []TypeOK`, with `unauth <= MaxUnauthSessions` |
| `SlotCounterExact` | | `Spec => []SlotsCounted` |
| `TornDownStaysDown` | | `Spec => []ClosedKeepsNothing` |
| `OpenPeersAreFound` | | `Spec => []OpenPeerIsRegistered` |
| `TypeCorrect` | ShareWorkerProofs | `Spec => []TypeOK`, with `viewers <= MaxViewers` |
| `ViewersAreCounted` | | `Spec => []ViewerSlotsExact` |
| `OneKeyboard` | | `Spec => []KeyboardHandedOver` |
| `TeardownIsFinal` | | `Spec => []TornDownKeepsNothing` |
| `StopIsComplete` | | `Spec => []StopLeavesNobody` |
| `RenewalIsFresh` | SignalingLinkProofs | `SigSpec => []RenewalFromItsSocket` |
| `OneLinkPerCode` | | `LinkSpec => []CodesDistinct` |
| `EnforcesItsFile` | | `LinkSpec => []TableFollowsFile` |
| `LiveRecordIsKept` | ShareCommandProofs | `Spec => []LiveShareKeepsRecord` |
| `TrueReports` | | `Spec => []ReportsAreTrue` |
| `ExitStatusIsLast` | StreamHandlersProofs | `ShellSpec => []ExitAfterOutput` |
| `UploadIsWhole` | | `FileSpec => []PutIsWhole` |
| `BodyArrivesWhole` | | `HttpSpec => BodyIsPipe` |
| `ForwardArrivesWhole` | | `FwdSpec => ForwardIsPipe` |
| `HandlersKeepTheirWord` | | `Spec => [](ExitAfterOutput /\ PutIsWhole)` |
| `PipesHold` | | `Spec => PipesImplemented` |

The assumptions say that bounds are natural numbers (`FileAssumption`,
`ShareAssumption`, which also makes the set of processes finite), that a
process name is not also a goroutine of the listener (`LinkAssumption`), and,
in StreamFlow, the relation between window, threshold and chunk that the code's
values meet.

**FrameQueue.** None of the delivery properties is inductive. `IndInv` adds
`Routing` (who may be delivering: while the drain goroutine is alive,
`dispatching` is set, so the reader cannot start a direct delivery, and a
direct delivery can only start after the drain goroutine is done), `Lateness`
(a late frame was in flight when `closed` was set; nothing in flight and closed
means nothing more is delivered) and `Ordering` (delivered, then the batch or
the reader's frame, then pending, then arrived, are in increasing order).

**StreamFlow.** The accusation compares the receiver's counters with a frame
the sender charged long before. `IndInv` ties them together: `Counters`
(consumed <= received <= sent), `Limits` (every grant under way, and the
sender's limit, is at most what the receiver advertised, which is consumed at
the last update plus a window), `WireChain` and `QueueChain` (the `end` fields
on the channel continue from `received` to `sent`, those in the queue from
`consumed` to `received`). `CreditNeverDeadlocks` then follows by arithmetic:
with everything handled, consumed = sent, less than a threshold has gone by
since the last update, and `Chunk + Threshold <= Window + 1` leaves room.
`QueueAccounted` is inductive over the type invariant, but its sum (`Bytes`) is
a recursive function. The lemmas `SumsExist`, `SumsNat` and `SumsShift` are
inductions over the length of a sequence, carried out on sets of natural
numbers (`SetInduction`, from the well-foundedness of `<`); from them follow
what `Bytes` is for an appended frame and for a tail.

**SessionHandshake.** `PinGate` needs `Gate`: the dispatcher is past the PIN
check only if the PIN was verified. `NoStreamAfterClose` is inductive by
itself, because `AdmitStream` looks at `closed` under the lock that `Close`
takes. `EstablishedTogether` is about a message the client reads long after it
was sent, so `Agreement` says what may be under way: `Told` (a `ready` on the
channel names the version in force and the session is ready; an `auth`, a
request for it or its result is only there once a connect has fixed the version)
and `VersionFirst` (past the gate the version is fixed, for every peer that
connects first).

**ServeListener.** A slot may be released by `OnReady`, the deadline, the
teardown or a poller. `Consistent` says of one peer's record that the winner of
`Queue.Close` is unique and what it has released stays released; `Setup` that
until `handleRequest` has registered a peer nobody else knows of it, so taking
the slot cannot race; `Known` that registry and pollers hold built peers under
their own ids. The counter is then the cardinality of the peers with a slot,
which a change of one record changes by that peer (`SlotsChange`).

**ShareWorker.** The same shape, with `Admission` (between taking a slot and
`hold` it belongs to the signaling loop, and the peer has nothing yet),
`HolderHolds` (who has the keyboard has it in hand, or the loop is about to
give it) and `Tracked` (a peer that has been set up is closed, or in the
registry, or with shutdown), from which `StopLeavesNobody` follows.

**SignalingClient and LinkStore.** `OwnCode`: on a socket other than the one a
renewal went out on nobody has asked for a code, and what is in the channel
after the drain came on the renewal's own. For the links, `Passed` (what the
listener enforces, is about to write or has written went through `DedupeCodes`
and `Mint`, whose results are distinct) and `Following` (the file the listener
wrote is the table, or what its call is about to swap in).

**ShareCommand.** What a command knows of tmux is stale as soon as it has asked.
`Excluded` says that as long as no gap was met a command past the flock is alone
with the lock file that has the name; `Staged` says what it then knows of pane
and record at each step, limited to what a worker on its own cannot undo. The
lock files are finitely many inodes, and one is always free (`InodeToSpare`, a
pigeonhole argument).

**Stream handlers.** The invariants number the frames of a stream (SYN 0, the
pieces from 1, the FIN after the last) and state where the chain of numbers
stands: `PutChain` from the listener's file through `io.Copy`'s buffer, the
worker's frame and the queue to the connector; `HttpChain`, `UpChain` and
`DownChain` in the same way, and `ShellDrained` for a shell's output. Each
chain is conditional on the end that reads it still reading, and each is tied
to the sender only while that end still sends: a reset or a lost session cuts
it, and the parts `HttpEnded`, `UpEnded` and `PutWhole` say that a cut chain
never leads to an end of data or to a success. A request body reaches the upstream in two parts,
the peeked head and the pipe behind it, so `HttpChain` places what the upstream
has by whether it is still reading the head. In the refinements every step of
the implementation is a stutter of `BytePipe` except those of the two programs
at the ends, which write, finish and read. Attempting `UploadIsWhole` showed an error in an earlier
version of the model: `io.Copy`'s write took the piece from the worker's frame,
which the next frame may have replaced, instead of from its own buffer
(`fh.buf`).

Only model-checked:

* The liveness properties: temporal reasoning under fairness and `ENABLED` are
  outside the prover's reach. This is all that is left of `frame_queue`,
  `stream_flow`, `handshake`, `stream_handlers` and `signaling`, and it is all
  of `serve_listener_live` and `console`.
* The disagreements of section 3, which are false and have counterexamples.

## 5. Not modelled

ICE, DTLS, SDP and SCTP (pion): the data channel is an ordered queue that may
close at any moment. The signaling server, tmux, the programs a shell runs and
the services behind a forward or a proxy: actors without obligations.
Cryptographic checks: a PIN, a nonce or a fingerprint is right or wrong.
Wording, logging and JSON. The legacy v2/v3 stream path without flow control.
Refusals of single SYN frames, which go out on goroutines of their own and
touch no handshake state.

Simplifications inside the modelled parts:

* StreamFlow: the client's dispatcher counts a frame and then puts it into the
  stream's channel, which has room for what was counted; this is one step, so
  the release of a frame whose stream ends in between is not told apart from
  its removal with the stream.
* ShareCommand: a `state.json` that cannot be read is classified like one that
  can, by tmux's answer; a process number that has been reused by an
  unrelated process is left out, so a recorded process is alive only as itself.
* TcpForward: that a target has gone may or may not be noticed by a
  `CloseWrite`; either outcome is allowed. A frame whose entry went while the
  worker had it is ignored or fails with the reason of the dial, by how far
  `lookup` had come.

* The client's dial (`client.go`, `peer.go`) and the connector's side of a
  pairing: one goroutine each, in which every wait has a deadline of its own.
* Which handlers a session is given, grants and narrowing, fragments of URLs,
  path resolution, header rewriting and redirects: pure functions of strings,
  covered by the tables of their unit tests.
* The file share's pages, video, ICE configuration, local names, identity and
  allow-list files, self-update, flags: no protocol state.

## 6. Plan

Every safety property of the runs is proved. What would add most next:

1. Console: that at most one goroutine is inside a question and that a `waiter`
   is always one the holder of `askMu` can see, the safety half of
   `PairingInterruptsLoop`.
2. ShellStream: the displacement counter, as far as it holds (the limit itself
   does not, section 3).
3. What the liveness properties rest on: that a peer with a slot always has an
   armed deadline or a goroutine that will release it (ServeListener), and that
   a closed web stream has somebody left to release its request (HttpStream).
