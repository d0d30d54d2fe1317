# MPRUD in TLA+

MPRUD (Multi-Path RDMA using Unreliable Datagram) is a layer inside libibverbs
that lets an application use one queue pair while its messages travel over
several paths, one inner UD queue pair per path. This directory models its data
path, checks it with TLC on small instances, and proves the central invariants
with TLAPS for every value of the constants.

File names without a directory are in `src/libibverbs-41mlnx1/src`; `mprud.c` is
where nearly all of MPRUD is.

## The system

| part | state | operations | interacts with |
|---|---|---|---|
| message splitting (`mprud_post_send`, `mprud_post_recv`) | none | a message is cut into one chunk per active path and each chunk into MTU-sized pieces, numbered from the chunk's end | both endpoints compute it on their own |
| work request table, posting, polling | `wqe_table` (ring of 1000), `qp_stat` per path, `tot_*posted`, `tot_*polled`, `post_turn`, `poll_turn` | `mprud_store_wr`, `mprud_post_send`/`_recv`, `mprud_poll_cq` with `mprud_inner_poll` and `mprud_outer_poll` | called by the application through `mlx5_post_send`, `mlx5_post_recv`, `mlx5_poll_cq`; calls the driver's post and poll for the inner QPs; the posting loop calls the poll function while its queue is full |
| receive buffers | the registered region: application buffer, `buf.sub`, `buf.last`, `buf.send`, `buf.recv` | `mprud_set_outer_buffer`, the addresses in `mprud_post_recv`, the copy in `mprud_inner_poll` | the card writes into it at any time |
| path monitor | `mp_manager.qps`, `qp_wait`, `prev_qp_cnt`, timers | `mprud_monitor_path` on the server, `mprud_wait_report_msg` on the client, both from inside every poll | triggers recovery |
| path recovery | `recovery_flag`, `got_report_flag`, `recovery_max_wqe`, `recovery_cur_post_wqe`, `recovery_cur_poll_wqe`, `msg`, `comp_need`, `tot_recovery_*` | report to the client, acknowledgement, resending of the failed path's chunks over the report QP, `active_num - 1` at the end | changes `active_num` under a posting loop |
| control path | inner QPs, CQs, address handles, `mprud_init_ctx` | hooks in `verbs.c` for `alloc_pd`, `reg_mr`, `create_qp`, `modify_qp`, `create_ah`, `dealloc_pd` | creates what the data path uses |
| libmlx5 | work queues and completion queues of a QP | `mlx5_post_send`, `mlx5_post_recv`, `mlx5_poll_cq`, with a `skip_mprud` argument | enters MPRUD or goes to the card |
| perftest | `scnt`, `ccnt`, `rcnt` | `run_iter_bw`, `run_iter_bw_server` | the application |

Each process has one thread; what runs concurrently is the two processes, the
cards and the network. A UD send completes when the packet has left, a UD
receive when a packet has filled it; a packet that finds no receive is dropped.

What is hard here:

* A packet says nothing about which message, path or piece it is. The server
  knows only from the order of its own receives on each path. Both sides must
  compute the same path for the same packet, whatever their loops wait for in
  between.
* A message completes on several counters that carry over from one message to
  the next, while two different functions move two different cursors through a
  ring that a third function fills without looking at either.
* Headers (GRH, 40 bytes) arrive in front of every payload and are written over
  the message; only the reverse order of the pieces keeps them off the payload.
* A posting call waits in a loop that only polls, one path at a time.
* Recovery changes the number of paths in the middle of all this.

`PROJECT.json` lists these and the other hazards at their lines, with the
properties that cover them.

## Modules

| module | what it is |
|---|---|
| `MprudSplit` | the arithmetic of chunks and pieces, as operators of a size, a number of paths and a packet number |
| `MprudEndpoint` | one endpoint without path failure: table, posting loops, inner and outer poll, and the card that completes packets |
| `MessageStream` | the abstract specification: messages are sent, buffers are made available, message m is delivered into buffer m once both exist, the sender's memory is released in order |
| `MprudTransfer` | two instances of `MprudEndpoint`, client and server, over one FIFO per path; implements `MessageStream` |
| `MprudPlacement` | the server's memory, byte by byte |
| `MprudRecovery` | an endpoint (extends `MprudEndpoint`) with the path monitor and the recovery from the failure of its last path |
| `MprudFailover` | a transfer (extends `MprudTransfer`) whose last path fails: two instances of `MprudRecovery`, the network, the report QP |
| `CqEntries` | what is left of a sequence of CQEs when a QP's are taken out; used by `CqFifo` and `Mlx5Cq` |
| `CqFifo` | the abstract specification of a completion queue of libmlx5 |
| `Mlx5Cq` | the ring of a completion queue: owner bits, polling, sweep for a QP that is reset, resize; implements `CqFifo` |
| `Mlx5Queue` | send and receive queue of the QPs of a CQ, built on `CqFifo` |
| `MCEndpoint`, `MCTransfer`, `MCPlacement`, `MCFailover` | instances for TLC (`Mlx5Cq` and `Mlx5Queue` need no definitions and are run as they are) |
| `Lemmas` | what several proofs need: division with remainder, induction, sums over finite sets, what a sweep leaves of a queue |
| `MprudSplitProofs` | theorem about the split |
| `MprudEndpointProofs` | theorems about one endpoint |
| `MprudTransferProofs` | theorems about a transfer: which packet fills which receive, its counters, and that it implements `MessageStream` |
| `MprudFailoverProofs` | theorems about a recovery: its control messages, its range and counters, what the client resends from, the failed path |
| `MprudPlacementProofs` | theorems about the server's memory |
| `Mlx5CqProofs` | theorems about the completion queue, and that it implements `CqFifo` |
| `Mlx5QueueProofs` | theorems about the work queues and their completions |

### MprudEndpoint and the code

Send and receive functions are the same control flow on counters of their own
side, so one module stands for both; `MaxOutstd` is 256 for sends and 512 for
receives. `qp_stat[p]` keeps the fields of `struct qp_status` that control
depends on: `posted` is `posted_?cnt.pkt`, `polled` is `polled_?cnt.pkt`,
`tot_pkt` is `polled_?cnt.tot_pkt`; `comp_temp`, `wqe_idx` and `qlen` keep their
names. `call` holds the locals of a running post function. `cq[p]` is the number
of completions the card has put into the CQ of path p. `done` counts what the
application was told, and `cum` is a history variable: the packets per path of
all messages up to each one.

| action | code |
|---|---|
| `Post(size)` | the application posts; `mprud_post_send` / `mprud_post_recv` up to the loop, `mprud_store_wr` included |
| `PostPacket` | one iteration of the loop, up to the test of `max_outstd` |
| `DrainPoll` | one `mprud_poll_cq(..., 1)` in the `while` of the loop, and the end of the iteration when it gave room |
| `PollComplete` | `mprud_poll_cq` from the application, the outer poll reports |
| `PollProgress` | the same, nothing to report: the inner poll |
| `NicComplete(p)` | the card (external) |

Counters are unbounded naturals in the model. In the code they are 64-bit and
only ever grow by one per packet; the table index is an `int` below 1000.

Left out of the module: the abort of the loop when `active_num` has changed
(`mprud.c:1478`, in `MprudRecovery`; here the guard `active_num = call.active`
stands in its place), an error returned by the driver's post (`QueueBounded` is why a
full queue cannot cause one), and sizes with less than a byte per path
(`SizesAssumption`: such a message divides by zero on the receiver,
`mprud.c:1363`). The build without recovery (`NO_SPLIT_SMALL_MSG`) is another
program and is not modelled.

### MprudTransfer and the code

`sq`, `wire` and `rq` carry packets as pairs of a message and a packet number.
The code has no such thing: the numbers are there so that the properties can say
which packet met which receive. `landed` remembers that. Within a path packets
keep their order, between paths they do not. `Overrun` drops a packet that finds
no receive; `MayOverrun` switches it. perftest's handshake, which would make the
client wait for the server's receives, is compiled out when MPRUD is used
(`send_bw.c:482-492`), so overrun is what the program really allows.

### MprudPlacement and the code

A cell is a byte. `Received` writes the header and the bytes of `PieceOf` where
`mprud_post_recv` put the receive; `Copied` is the `memcpy` of `mprud_inner_poll`
with the addresses it uses. Reading past the end of the region, which that
`memcpy` does, is undefined in C; the model lets it return `Junk`, a value equal
to no byte of a message, which is the outcome of the runs in which the process
survives. Every message has a buffer of its own, as in perftest while
the messages fit `cycle_buffer`. Posting and reporting are abstracted: receives
of `Depth` messages are posted, and a message is reported when all paths are past
it, which `ReportsExactly` establishes for the detailed model.

`PlacementAssumption` restricts the sizes: the last piece of a chunk is no
shorter than a header unless it is the only one. The README of MPRUD asks for
multiples of 4096, for which this holds with 3 and 4 paths. Without it a header
reaches into the chunk of the path below. Its other part, that there is a largest
size, is what makes the buffers of `BufSize` bytes large enough.

### MprudRecovery, MprudFailover and the code

A poll that finds a recovery going on is a loop (`mprud.c:1917`, `1991`) that
runs recovery and polling by turns and returns only to report a message or when
the recovery is over. `rec.at` is the place in it:

| `rec.at` | code | steps |
|---|---|---|
| `out` | outside a recovery, or returned from its loop with a message | `PlainPoll`, `Detect`, `TakeReport`, the posting actions |
| `clear` | polling the inner queues until the survivors' are empty (`mprud.c:1250`, `608`) | `Clear`, which ends with the report or the acknowledgement posted |
| `told` | blocking poll for its send completion (`mprud.c:1320`, `1222`) | `Told` |
| `polls` | the loop, before the outer poll | `PassReports`, `PassPolls` |
| `pass` | the loop, before `mprud_recovery_server` / `_client` | `Finish`, `AllResent`, `StartResend` |
| `resend`, `rdrain` | the loop of `mprud_post_recv_recovery` / `mprud_post_send_recovery`, and its wait for room | `ResendPacket`, `ResendDrain` |
| `sync` | the message at the end (`mprud.c:754`, `877`) | `Sync` |
| `crash`, `nokey`, `spin` | a null scatter list is read; the key of the report is taken from `wqe[-1]` (`mprud.c:1141`); the loop over `comp_need` at `mprud.c:1885` never ends | none |

`rec.flag`, `got`, `max`, `post`, `poll` are `recovery_flag`, `got_report_flag`,
`recovery_max_wqe`, `recovery_cur_post_wqe`, `recovery_cur_poll_wqe`;
`listening` is `start_time_flag`, `over` is `monitor_flag` (and on the client
that its one recovery is done); `out` is `tot_recovery_posted -
tot_recovery_polled` and `pkt` is `recovery_polled_pkt`. `slot` has the fields of
a table entry that only recovery reads. `rep` is the report QP with its CQs and
the control receive buffer. A pass in which the 30 us cycle has not elapsed does
nothing that is modelled, so the timers are gone: `Timeout` in `MprudFailover` may
happen when the path has failed and its CQ is empty, since 1000 us is far longer
than a packet is under way. Control messages and packets share the receive queue
and its CQ, and each of the two functions that poll it takes whatever is there.

The failed path is the last one, the only one whose removal `active_num - 1`
describes (README.md of libibverbs, "last path"). A failed path still completes
sends. `strayed` remembers whether a resent packet has filled a receive posted for
another. `uneven` remembers two things that take the sides apart: a message was
posted during a recovery ("posted": it is cut over the old number of paths, and
may be in no range), and a posting call gave up the rest of its message because
`active_num` had changed ("cut": `mprud.c:1478`, `1620`). What such a message does
is in the run `recovery_split`; the properties that need that it did not happen
name it (`PostedMeanwhile`, `CallCut`).

`FailoverSpec` assumes of the report QP what the lossless transfer assumes of the
inner QPs: a packet is not there before its receive. `ReportDropped` is what the
card does otherwise, and `LossyFailoverSpec` the same system with it; the run
`recovery_unheard` is of that one.

What is known of the code here and beyond the bounds of the runs: after the table
has wrapped inside the range, indices are still compared as numbers, and the
range is empty (`mprud.c:738`, `854`); nothing is resent. When the server's table has
wrapped exactly when it reports, `max_posted` is -1, and `mprud.c:1141`, which takes the
memory key of the report from that slot, reads with an unsigned index far outside the table:
the process ends there (`nokey`). With more than one
survivor resent packets overtake each other and are received in each other's
place (`recovery_overtaken`), and one that overtakes the acknowledgement is read as
the range: with three paths, two messages and two packets outstanding TLC finds `RangesAgree`
false, and `RecoveredInFull` without its condition. The last piece of a resent chunk is received into `buf.sub`
(`mprud.c:693`) and never copied. When the table has wrapped and the messages are
not all cut into equally many pieces, what the server says to be complete of the
WQE it is at may be all that the client now has in that slot: the client then resends an empty
message, whose `comp_need` is 0, and the loop at `mprud.c:1885` never ends (TLC
finds this with four messages of one and two pieces over a table of three; see
`RecoveryNeverSpins`). If the client ends its program during a
recovery the server polls for ever, and so does either side if a control
message comes before its receive is posted (`recovery_unheard`). The bytes left over
when a message is divided by `active_num` are in no packet, although the comment at
`mprud.c:1424` gives them to the last QP; multiples of 4096, as the README asks for, leave none with four
paths, but do with the three that remain after a recovery.

### CqFifo, Mlx5Cq and the code

The abstract queue appends, takes the oldest and removes a resource's entries at
once. `Mlx5Cq` does that in a ring with the consumer index in `cq.cons_index` and
in the doorbell record, with the loops under `cq->lock` one step per entry and
the card's writes between any two of them. The refinement maps the queue to the
slice of the ring between the two indices; during a sweep to what is left to
look at, filtered, and what is already in place, so that the sweep takes effect
when the end of the queue has been found; during a resize to the old ring up to
the entry that says so and the new ring after it.

`Room` is the application's part: no more completions outstanding than `cqe`,
which is one less than the ring. With a completely full ring the scan of
`__mlx5_cq_clean` would leave out the last entry (`cq.c:1613`): the additional
entry that `create_cq` takes "for resize CQ" is what makes the sweep right as
well.

### Mlx5Queue and the code

`sq.ring` holds, per block, which part of which request is in it. `wqe_head`,
`wrid`, `head`, `tail` and `scur_post` have the code's names. The poster is at
most in one call per QP, `nreq` requests into it; a list ends anywhere, also because
the next request is refused (`goto out`), which is the same to the state. The
card reads the WQE at its own counter; it reports a request that is signalled or
fails, and after a failure everything is flushed. `Reset*`, `Clean*` and
`InitIndices` are the three parts of `mlx5_modify_qp`: another thread may poll
between them. `RoomReturns` supposes that the last request in the queue asks for
a CQE: a send queue full of requests that do not never drains, which the
interface leaves to the application (MPRUD signals every packet).

## Runs

| run | expects | shows |
|---|---|---|
| `endpoint` | pass | safety and liveness of one endpoint, 56 thousand states |
| `endpoint_idle` | violation | polling with nothing outstanding returns messages |
| `transfer` | pass | lossless transfer: every packet in its receive, reported messages complete, and it implements `MessageStream` with its fairness; 579 thousand states |
| `transfer_lossy` | pass | with overrun: returned memory is quiet, packets only move forward, still a `MessageStream` for safety; 1.1 million states |
| `placement` | pass | direct pieces survive all headers in all interleavings, nothing strays |
| `placement_intact` | violation | the last piece of a chunk does not reach the message |
| `recovery` | pass | a path fails at any moment: both sides recover the same messages, resent packets meet their receives, the failed path is left alone, the server gets everything; 607 thousand states |
| `recovery_split` | violation | client and server cut a message over different numbers of paths |
| `recovery_overtaken` | violation | with two paths left packets that are resent fill each other's receives |
| `recovery_unheard` | violation | the server's last message is lost when it comes too early, and the client waits for ever |
| `mlx5_cq` | pass | a ring of 2 and 4 entries is a queue under polls, sweeps and resizes; 1.9 million states |
| `mlx5_queue` | pass | work queues and completions match, slots come back; 1.2 million states |

Bounds. `endpoint` has three paths, so that a turn is neither first nor last,
messages of one and two pieces per path, a table of two slots used by four
messages, so the indices wrap and slots are reused, and `MaxOutstd = 4`, which no
multiple of three reaches, so the loop stops to poll in the middle of a round.
The transfers have two paths, three messages (two with loss) over two slots, and
different queue limits on the two sides, so the two loops wait at different
packets. Limits of 256 and 512 and a table of 1000 differ from these in size
only: no guard of the code compares any two of them. `placement` has MTU 3 and
a header of 2 bytes, so that a header is shorter than a piece and longer than a
byte; sizes give one piece, a short last piece, and a full last piece after two
direct ones; two messages share the sub slots.

`recovery` has two paths, so one survivor, two messages of one or two pieces per
path over a table of four, a client whose sends fill its queue at every packet
(`SendMax = 1`) and a server whose queue fills in the second message, so that
both sides are found inside and outside of a posting call when the path fails,
also between two messages; `SendRecMax` and `RecvRecMax` are below the four
packets resent at most. `recovery_overtaken` has three paths, the fewest that leave
two, and a message of which the failed path owes one piece to each of them;
`recovery_unheard` has two paths and one message. `mlx5_cq` has indices modulo 8, so
that the parity of both ring sizes turns, and two polls per call. `mlx5_queue` has a ring of 4
blocks, requests of one and two blocks, room for one request less than 2, and
counters modulo 8 and 3, so that all of them wrap at different moments.

The runs of MPRUD stop when all messages are through, so deadlock is not checked
there; in `mlx5_cq` and `mlx5_queue` it is.

Fairness. `WF` of each step of the posting loop and of the poll: the application
is a loop that does nothing else (`run_iter_bw`, `run_iter_bw_server`), and
weak fairness on an action of a single thread says only that the thread goes on.
`WF` of `NicComplete` (in the transfer of `Leave` and `Arrive` for each path):
the card completes what it was given, the network delivers. It is assumed only
where no packet is lost; the lossy run states no fairness and no liveness, since
a dropped packet leaves the last message of its path incomplete for ever.
`recovery` assumes in addition that the report QP delivers and that a timeout
that is due is noticed (`Timeout`): the server does nothing but poll. The client's
steps and the server's are one weakly fair action each, the single thread.
`mlx5_queue` assumes that the card goes on, that a posting call ends and that the
application polls.

## What the violation runs found

* `NoSpuriousCompletion`: the test `wqe[head].valid == 0` at `mprud.c:2086` is
  after the last `return`. perftest's server polls until a poll returns 0, so it
  polls once more after its last message; a slot that was never used needs zero
  packets and is reported. The other runs keep the application from polling with
  nothing outstanding (`PollIdle = FALSE`).
* `MessageIntact`: the last piece of each chunk is received into `buf.sub`, and
  copied from `buf.recv`, to `addr + length / active_num * turn` instead of
  behind the header room. The copy also overwrites the end of the chunk below;
  `DirectBytesStay` says exactly which bytes it does not reach.
* `SameSplit`: `active_num` changes on each side when its own recovery ends. A
  message that one side posts before that and the other after it is cut
  differently by the two, and its packets meet the wrong receives.
* `ResentInOrder`: the README of libibverbs (line 16) says that the packet sequence of
  each portion at least can be in order. Packets are resent on the surviving paths in turn
  (`mprud.c:1095`), each part of the failed portion on a path of its own, but the
  receives are all posted to the report QP (`mprud.c:709`). A packet carries no
  number, so with two paths left the one that arrives first fills the receive of the
  other. MPRUD ships with four paths, which leaves three.
* `ClientGoesOn`: the client ends its recovery by posting a receive and waiting ("Wait for
  Server", `mprud.c:754`), the server by sending a message once ("Notice client that
  server is done", `mprud.c:876`). Nothing makes the client post first: its last sends
  complete when they leave, the server has them a moment later. When the message
  is there before the receive the card drops it, and the client's poll never returns.

`ServerGetsAll` names five ways in which the server may not get every message, and they are
as much a result as the violations:
  - `ClientGone`: the client's sends complete when they leave, so its program may
    end while the server is recovering.
  - `Stranded`: the client's posting loop waits for sends it gave to the failed path, since
    it corrects the receive counters instead of the send counters (`mprud.c:747`).
  - `ServerDied`: the client had posted more in the first round of the table, and the server
    resends from a slot that has no scatter list (`mprud.c:907` says that this "has been
    working because wqe_table is already filled"); or the key of the report is that of
    `wqe[-1]`, which needs a table that wraps.
  - `PostedMeanwhile` and `CallCut`, above.

Each of these but the key is needed: TLC finds a behaviour when it is left out. `InPlace` needs
the last two only (`CallCut` with three messages), and `EarlyIsBounded` and
`RecoveredInFull` hold even then; we checked these three with three messages as well. They
are stated, and checked, for one path left.

`EarlyIsBounded` is the weaker form of "no message is reported before it is there" that holds during a
recovery. The completion of the acknowledgement may be taken for that of a packet; and a
WQE that is recovered needs no packets of the failed path any more (`mprud.c:1890` sets its
`iter_each` there to 0), while those of it that had completed before stay counted in
`polled_rcnt`, so that a later WQE that is still to be resent may be reported with them
(`Borrowed`). It takes two messages of different sizes to see this. `RecoveredInFull`
says that the end of the recovery puts both right.

## Proofs

`MprudSplitProofs`: `PiecesTileChunk`, that for every MTU, size and number of
paths the pieces of a chunk lie end to end, from its end to its start, full
except for the last. It rests on a few facts about division, proved there.

`MprudEndpointProofs`: `Invariance` is `Spec => []IndInv`, from which
`TypeCorrect` (`TypeOK`), `CompletionIsExact` (`NoEarlyCompletion`,
`ReportsExactly`), `TableIsConsistent` (`LiveWqes`, `CursorsAgree`),
`TurnsStayInSync` (`TurnInSync`) and `QueuesHaveRoom` (`QueueBounded`) follow. None
of these is inductive alone. The argument: `cum` turns all counters of a path into
views of two numbers, the packets given to it and the packets completed on it
(`CountInv`); a path is at one message of the live window (`CursorsAgree`) and the
window has at most `Depth <= TableLen` messages (`WindowInv`), so slots modulo
`TableLen` do not collide and the slot a path reads holds the counts of the message
it is at (`LiveWqes`); and the loop gives packet i to path `i % active_num` and ends
on path 0, because the number of packets is a multiple of the number of paths
(`CallInv`, `TurnInSync`), whether or not it stopped to poll. `QueueBounded` is a sum
over the paths: what the queues hold together grows by one with a packet and only
when the loop has found room; the lemmas about `SumFunctionOnSet` in `Lemmas` say
what happens to the sum when one of its terms changes.

Assumptions: those of the constants, `DepthFits` (`Depth <= TableLen`, which
nothing in the code enforces: perftest's `-r` may exceed `MPRUD_TABLE_LEN`) and
`NoIdlePoll` (`PollIdle = FALSE`; the violation run shows it is needed).

`MprudTransferProofs`: the packets of a transfer and the receives they fill.
`LossOnlyMovesUp` is `NeverStale` for every transfer, `PacketsMeetTheirReceives`
is `SamePacket` for those without loss; both follow from `PacketsKeepTheirPlace`.
What makes neither inductive is that nothing in a packet tells the sides that
they agree. The argument is on positions. The k-th packet a side gives to a path
is determined by the sizes of the messages alone (`Index`): packet i of a message
is packet `i \div NumPath` of its path in it, after `cum` packets of the messages
before, and the history `cum` of a side depends on the sizes only (`SameCount`). A
side's posting loop is always at the next position of the path of its turn
(`Posting`, `Given`), whether it stopped to poll or not, so the send queue and the
receive queue of a path hold consecutive positions (`InOrder`); a path keeps
order, so the packets in flight hold consecutive positions too, or later ones
after losses (`Arriving`, `Due`). The k-th receive therefore is filled by the packet
of position k, or by a later one, and positions of one path order packets as
messages and packet numbers do (`PositionOrder`).

The polls play no part in it beyond what they do to the loop, so this part says
nothing about counters and needs neither `DepthFits` nor `NoIdlePoll`: packets
meet their receives whatever the application does about completions. It assumes
`TransferAssumption`: at least one path, and at least a byte per path in every
message.

Its second part adds the books (`BooksInv`): for each side what `IndInv` of
`MprudEndpointProofs` says of an endpoint, stated again of the variables of the
transfer, since tlapm cannot use a theorem of a module through `INSTANCE`, and with
the completions of a path tied to the network: those of a send are what has left the
send queue, those of a receive what has landed. `BooksAreRight` is their invariance,
under `DepthsFit` (`TxDepth` and `RxDepth` are at most `TableLen`). With the positions of the first
part it gives `ReturnedMemoryStaysQuiet` (`ReturnedMemoryIsQuiet`: a message whose
packets are all completed has positions below everything still queued),
`ReportedMessagesAreWhole` (`DeliveredWhole`, without loss), `TransferTypes`
(`TypeOK`) and the refinement `TransferIsStream` (`IsStreamWhileItLasts`): a post of the client
is `Send`, a post of the server `MakeRoom`, the poll that reports a message
`Deliver` or `Release`, and every other step stutters.

`MprudFailoverProofs`: `DeadPathIsLeftAlone` (`DeadPathLeftAlone`) for all constants
that the assumptions admit, and the range of a recovery (`RangesAgree`). Both follow
from `ControlIsInvariant`. A side's recovery has five phases (`Phase`): none, its
queues being cleared, its control message posted, going on, over. All the other steps
of a side do little to what the invariant is about, so there is first a lemma for each
side (`ServerSteps`, `ClientSteps`) that sorts every step of `MprudRecovery` into a handful
of moves; the rest of the argument is about these. `ToClient` then says where the report and the server's
last message are, given both phases: not posted, in the send queue, in flight, in the receive
queue, or read into `msg`. `ToServer` says the same of the acknowledgement, which has packets
resent behind it, and that what the server reads in its buffer is what the client
wrote: from then on both maxima are the larger of the same two indices (`LastOfBoth`).
The failed path is left alone because `active_num` and the call that is running agree
on it or the call posts nothing (`OnPaths`).

`RangesAgreeUnlessAstray` is for any number of paths: the ranges agree as long as no packet
resent has filled a receive meant for something else (`strayed`), and always when one path is
left. The condition is needed. With two survivors the report QP
sends on two paths; with three paths TLC soon finds a packet resent on one that overtakes the
acknowledgement on the other and fills its receive, and the server takes a range out of a buffer
that nobody wrote. mprud.c does not number the packets of the report QP, so it relies on
one path being left.

The theorems of this module are about `FailoverSpec`; nothing is proved of
`LossyFailoverSpec`.

`ClientResendsWhatItHas` (`NeverBlind`) holds for all constants. A receive slot is filled when
the server posts, which it does ahead of the client, and the range of a recovery goes up to the later
of the two sides' last WQEs: so the client could meet a slot in which it has no scatter list yet.
That it does not is due to the order in the server's code, which clears the queues of the
surviving paths before it reports. Until the report the transfer is one over all paths
(`BeforeReport`: the posting loops of `MprudTransferProofs` and, on every path, no more landed than
the client has given it). When the server reports, path 0 has completed all that was posted
on it, and a packet of the server's last message was posted there; so that message is one the
client has posted too (`ServerBehind`, by the equal packet counts of both sides).
`BlindInv` carries this on: the maximum the server reports is below the
client's `sqn` (`Known`), so is the client's own (`InRange`), and every slot of the range that is not
yet resent has a length (`SlotsUsed`). Table wrap-around is included: once all slots
have been used there is nothing left to be blind to.

`RecoveryNeverSpins` (`NeverSpins`) and `RecoveryTypes` (`FailoverTypeOK`) are about the
numbers of a recovery. `mprud_recovery_poll` takes `comp_need` packets off the count of those
completed as long as there are that many, which never ends when `comp_need` is 0. That it is not
takes three facts, and `NumbersInv` is their conjunction with the types:
  - A packet is only counted for a WQE that is resent. What is given to the report QP and
    what is completed there are packets of the same WQEs in the same order, so the WQE that the polls are at
    (`recovery_cur_poll_wqe`) is not past the one the posts are at, and what is outstanding is
    the difference of two sums of `comp_need` (`Books`). This holds although the two loops
    stop and poll at any packet (`Side`, and a lemma for each kind of step, `SideRests` to
    `SideCounts1`).
  - What is resent is not empty. The first WQE owes what the server does not
    say to be complete, and that is less than the packets the failed path has of it: the
    server reads the number off the status of that path, whose cursor is at a WQE of
    the table that it has not completed (`LastCursor`, kept by every step until the report), and the
    number in the report is that of the slot it names (`Owed`).
  - What is owed can be cut over the paths that are left (`OwesEnough`).

They have two hypotheses. `LongPieces`: the pieces of a chunk are
at least as many bytes as there are paths left; a piece is about `MTU` bytes, and with two
paths it always holds (`TwoPathsLongPieces`). `SameCuts`: the table does
not wrap, or all messages are cut into equally many packets. perftest sends
messages of one size, for which the second holds. The server reports
a number of packets of its message in a slot, and the client subtracts them from its own message
in that slot; it may be a table's length ahead of the server. If that message has fewer packets, nothing is left of
it, and the loop above does not end. TLC finds this as soon as a run has
both, a table that wraps and two sizes; so the hypothesis is what the code relies on, and not one
of the proof. The run `recovery` satisfies both (two paths; two messages, four slots).

`MprudPlacementProofs`: `DirectPiecesStay` (`DirectBytesStay`), `PacketsStayInPlace`
(`NothingStrays`), `PlacementTypes` (`TypeOK`), for every MTU, header, number of
paths, depth and choice of sizes that `PlacementAssumption` admits. The argument is
about distances. A piece that is received straight into the message lies between
the end of its chunk's last piece and the end of the chunk, its header just below
it. A header therefore reaches into the next piece of its own chunk, which arrives
later, or into the last piece's place, which is not shorter than a header and is
not received there; never into the chunk below. The buffers of two messages are
`BufSize` apart, and the slots for last pieces are above all buffers. So whatever
arrives or is copied, and in whatever order, a cell's content says where it may be (`Fits`), and
a byte that has arrived is only ever written again by a copy in `CopyRange`.

`Mlx5CqProofs`: `CqIsFifo` (`IsFifo`), `ResizeNeverGivesUp` (`ResizeCompletes`),
`CqTypes` (`TypeOK`), for all QPs, ring sizes and index widths. What is in the ring
is counted from the consumer index, and the owner bit of an entry is the parity of
its round: the entries up to the card's index are owned by software and those
after it by the card (`Ring`, `Owned`). This is not inductive without the states in
which a loop is under way: how far the scan, the sweep or the copy has come and how much the
sweep has freed (`LoopInv`), that the old ring ends with the RESIZE_CQ entry while a
resize goes on (`BufInv`), what is in the new one (`Copying`, `CopyInv`), and that the
card sees no more room than there is (`RoomInv`). For the refinement the queue is written as stretches of the ring
(`QueueIs`, `Items`), and there is one lemma per action (`PutQueue` to
`ResizeEndQueue`): the card's write appends, a poll takes the first, a sweep takes effect as a whole
at the last `Scan`, when its upper end is fixed, and its moves change nothing any
more; a resize changes nothing. That the operator `Without`, which is recursive, leaves the others in
order is used through two facts only, for the empty sequence and for one more entry
(`WithoutLast`).

`Mlx5QueueProofs`: `CompletionsAreRight` (`RightCompletion`), `NothingOverwritten`
(`NoOverwrite`), `RoomIsRight` (`SlotsExact`) and `QueueTypeCorrect` (`TypeOK`), for all
QPs, ring sizes, WQE sizes and counter widths that `QueueAssumption` admits; all
four from the inductive `QueueInv` (`Spec => []QueueInv`). It is a conjunction over the QPs,
and says that there is a book-keeping in numbers that do not wrap, of which the code's counters
are the remainders:
  - Every open request of a send queue has a place, its first block counted
    since the last reset (`Places`). w open requests take at most
    w·SqBlocks/SqMaxPost blocks (`Share`), so they lie within one round of the
    ring, no two of their blocks coincide, and posting overwrites none of them (`RingHas`).
    This is what `max_post = wq_size / wqe_size` is for: the library counts
    requests, the card blocks.
  - The CQEs of sends in the queue are about increasing requests before the one
    the card is at (`Reported`), each with the `wqe_counter` of its place. So a
    poll finds the request by `wrid[idx]` and releases the ones up to it, the
    unsignalled ones included, and no other.
  - CQEs of receives name no slot; the k-th one in the queue is about the k-th
    open receive (`Resps`, `Filled`).
  - A sweep (`Without`) leaves an order-preserving embedding into the old queue that
    keeps the CQEs of all other QPs and their counts (`Left`, `SweptIs`). Between
    the sweep and the initialisation of the indices the books of the QP are void
    (`Halted`): the queue has no CQE of it, and nothing else may depend on its counters.

As without the sweep an old CQE would be polled with the books of the new life of the QP,
the invariant is not inductive without `Halted`.

Induction over numbers is done by the least counterexample (`AllNumbers` in
`Lemmas`), since the induction theorems of the library have an operator as a
parameter, which no prover at hand can instantiate.

Only model-checked: liveness (`AllReported`, `PostReturns`, `RoomReturns`,
`ServerGetsAll`), and with it the part of `IsStream` that is about fairness; and the
`EarlyIsBounded`, `RecoveredInFull` and `InPlace` of `MprudFailover`. These three need to know which
packets the queues of the transfer and of the report QP hold while a path
is being recovered, which the invariants above only count. No module that has a theorem reaches a
`RECURSIVE` operator, as tlapm requires; recursion is in recursive functions.

## Plan

1. (done) `MprudSplit`, `MprudEndpoint` and their proofs; `MessageStream`,
   `MprudTransfer`; `MprudPlacement`.
2. (done) `MprudRecovery`, `MprudFailover`; `CqFifo`, `Mlx5Cq`, `Mlx5Queue`.
3. (done) Proofs about `MprudTransfer`, `MprudPlacement`, `Mlx5Cq` and
   `Mlx5Queue`, the two refinements included; about the control messages, the
   range and the counters of a recovery (`MprudFailover`).
4. `PerftestBw`: `run_iter_bw` and `run_iter_bw_server` with completion
   moderation, composed with the endpoint in place of the bare `Depth` guard.
5. `MprudControl`: the order of protection domain, memory, QPs and address
   handles, and what `mprud_init_ctx` clears when.

## Not modelled

A path that is taken for failed and is not (`mprud.c:996`); the failure of any
other path than the last. The control path and perftest's
counters, until the steps above. Of libmlx5: the contents of WQEs and
how the doorbell reaches the card, compressed CQEs, completion events, shared
receive queues, peer-direct, memory windows, DC and raw queues. MPRUD's one change
of `poll_cq`, that a completion with an error does not end the loop
(`cq.c:1440`), makes no difference to the ring. `buf.last` is laid out but never
used by the code. `mprud_save.c` is an old copy that is not compiled. libmlx4, the
command layer of libibverbs and the rest of perftest are upstream code without
MPRUD's logic. Timing and throughput counters (`mprud_perf_per_qp`,
`recv_msg_size`) and the debug build are left out.
