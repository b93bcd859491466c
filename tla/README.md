# TLA+ models of libosmocore

libosmocore is the C library under the Osmocom cellular network programs. Its
programs run one event loop (`osmo_select_main()`); the library adds protocol
layers, finite state machines, timers and queues whose handlers are called from
that loop and call back into the program. This directory holds TLA+ models of
the parts whose correctness depends on the *order* of such calls, the TLC runs
that check them and TLAPS proofs about them. `PROJECT.json` maps every
definition to the lines it models. Paths below are relative to the repository.

## 1. Inventory

| component | state | operations | interaction | what makes it correct |
|---|---|---|---|---|
| **LAPD** (`src/isdn/lapd_core.c`) | per datalink: state, V(S)/V(A)/V(R), retransmission counter, T200, T203, history, send queue and buffer, receive buffer, contention resolution data | seven L3 primitives, U/S/I frames, two timeouts, poll by L1, reset, exit | L1 below (`send_ph_data_req`), L3 above (`send_dlsap`), which may call in again in-line | delivery in order, at most once, whole; loss only with an indication; something always makes a waiting sender act |
| **LAPDm** (`src/gsm/lapdm.c`) | two datalinks, one-frame queues in polling mode, frame-number T200 | RSL/L1 primitives, dequeue on poll | wraps LAPD; writes into its V(S) | a frame overwritten in the queue is sent again |
| **FSM instances** (`src/core/fsm.c`) | tree of instances, `terminating` flags, timers, depth of a termination cascade, deferred memory | alloc, dispatch, state change, terminate, change/unlink parent, broadcast | callbacks at many points re-enter the same functions | no use after free, every instance is finished before it is freed, cascades end |
| **inter-thread queue** (`src/core/it_q.c`) | list, length, eventfd counter | enqueue, dequeue, flush, callback | several threads, one mutex, an eventfd outside of it | no lost wake-up, length within the limit |
| **write queue** (`src/core/write_queue.c`) | message list, write flag of the fd | enqueue, fd callback, clear, set length | callbacks may clear or free the queue | queued implies the flag is set |
| **select loop, timers** (`select.c`, `timer.c`) | fds, ordered timers | register, unregister, schedule, delete | calls everything else | a pending timer fires once, no callback for what was unregistered |
| **osmo_io** (`osmo_io*.c`) | iofd, transmit queue, pending operations | read/write completion, close, free | callbacks may free the iofd | freed only when the callback has returned |
| **SMS CP/RP** (`gsm0411_smc.c`, `gsm0411_smr.c`) | CP and RP state, stored message, TC1* and RP timers | primitives of MN/MM/SM, timeouts | RP above CP above MM | one outcome for each message, a timer only in its state |
| **NS2** (`src/gb/gprs_ns2*.c`) | NS-VC FSM, alive timer, blocked flags, SNS | reset, block, unblock, alive, SNS size/config | peer NS-VC over UDP/FR, BSSGP above | both ends agree in the end on blocked/unblocked |
| **BSSGP** (`bssgp_bvc_fsm.c`, `gprs_bssgp*.c`) | BVC FSM, flow control queue | reset, block, unblock, flow control | NS below | as NS2; bucket within its limit |
| **IuUP, OAP, V.110 TA, Frame Relay LMI, control interface** | small automata | | | candidates only |
| codecs, coding, ciphers, VTY, logging, SIM, USB, sockets | none that orders matter for | | | not modelled, see section 8 |

The hard behaviours are: frames lost or delayed against retransmission timers;
timeouts that race a late answer; procedures of two sides that cross; handlers
whose upcall changes or destroys the object they work on; termination cascades
through trees of instances; threads around one queue; a peer that restarts and
has forgotten what the other side remembers. `PROJECT.json` lists them
as hazards (the forty that weigh most), each at its line, with the properties that would show it going
wrong.

## 2. Modules

| module | models | checked by | proved in |
|---|---|---|---|
| `ItQueue` | `it_q.c` | `ItQueue.cfg` (`MCItQueue`) | `ItQueueProofs` |
| `Lapd` | all handlers of `lapd_core.c`, as operators from a datalink to a datalink; the transmit queue of `lapdm.c` in polling mode | through the two below | |
| `LapdDl` | one datalink against any primitive and any frame | `LapdDl.cfg` (`MCLapdDl`) | `LapdDlProofs` |
| `LapdLink` | two datalinks, two channels that lose frames, L3 on both sides | `LapdTransfer.cfg`, `LapdCrossings.cfg`, `LapdRts.cfg`, `LapdPartial.cfg` (`MCLapd`) | `LapdLinkProofs` |
| `Fsm` | `fsm.c` with its call stack and the memory of the instances | `FsmSound.cfg`, `FsmStuck.cfg` (`MCFsm`) | `FsmProofs` |
| `Gsm0411` | all handlers of `gsm0411_smc.c` and `gsm0411_smr.c`, as operators on a transaction | through `SmsLink` | |
| `SmsLink` | two such transactions, the MM connection between them | `Sms.cfg` (`MCSms`) | `SmsProofs` |
| `Ns2Vc` | all events of the NS-VC state machine and the NSE above it, as operators on an NS entity | through `Ns2Link` | |
| `NseService` | what an NSE promises to BSSGP: abstract specification | as the property `NseImplemented` | `Ns2Proofs` |
| `Ns2Link` | a BSS and an SGSN with one or two NS-VCs between them | `Ns2.cfg`, `Ns2Stall.cfg` (`MCNs2`) | `Ns2Proofs` |
| `EventLoop` | `select.c`, `timer.c`, `write_queue.c` and user code called by them | `EventLoop.cfg` (`MCEventLoop`) | `EventLoopProofs` |

### ItQueue

`list`, `current_length` and `efd` are the fields of `struct osmo_it_q` and the
counter of its eventfd. One critical section is one action. `Enqueue` is the
part of `_osmo_it_q_enqueue()` under the mutex, `Increment` the `write()` after
it (which blocks while the counter is at its maximum), `FdCb` the `read()` of
`osmo_it_q_fd_cb()`, which clears the counter, and `FdCbLoop` one iteration of
its loop; `left` is what the loop still owes. `Destroy` is enabled only when no
thread is inside, which the caller has to see to.

### Lapd, LapdDl, LapdLink

`Lapd` has no variables: a datalink is a record with the fields of `struct
lapd_datalink` and two fields that collect the outputs of a handler, `ph` (frames
to L1) and `up` (primitives to L3). Each handler of the C code is an operator of
the same name (`RxSABM` is `lapd_rx_u_sabm()`, `SendI` `lapd_send_i()`,
`T200Cb` `lapd_t200_cb()`, ...) and includes every call it makes, so that one
event of the event loop is one step. `RecvDlsap` and `PhDataInd` dispatch like
`lapd_recv_dlsap()` and `lapd_ph_data_ind()`. Data is abstracted: a message is a
number with a count of N201-sized segments, the information field of a U frame a
number with 0 for none and `Oversized` for one longer than N201 or with the M bit.
C/R is kept as its meaning, command or response.
Upcalls in the middle of a handler matter in one place, the delivery of a
message in `lapd_rx_i()`; there the argument `react` says what L3 does in-line, and
the receive buffer that L3 is given is forgotten (`ForgetBuffer`) only when it is back.
With `Rts` (LAPD_F_RTS) frames go through LAPDm's queue of one frame, which is
overwritten by a newer one, and T200 is `pending` until L1 polls.

`LapdDl` puts one datalink in the most general environment: any primitive, any
frame at all, of either C/R and with arbitrary P/F, N(S) and N(R), with an information
field where there must be none or too long (`ReceiveMalformed` are those that are refused
unseen), timers at any moment, reset and exit. Where the code reads an empty slot of the
history (`ResendReadsEmptySlot`, `UAReadsEmptySlot`) the program ends, in both modules. `LapdLink` joins a user and a network side. Its channels
keep the order of frames and lose any of them. History variables: `sub` (messages
submitted), `got` (messages delivered), `told` (messages submitted before the
last establishment or release that the sender's L3 was told of). The variable
`env`, chosen once from `Environments`, says what L3 and L1 do in a behaviour
and carries the bounds.

### Fsm

`fsm.c` is sequential, but its functions call user code which calls them again.
The variable `stack` therefore has one frame for each function that still has
something to do, and a step runs the innermost function up to its next callback.
`inst` has the fields of `struct osmo_fsm_inst` that matter, and `mem`/`ctx` for
the talloc hierarchy: freeing a context frees everything below it. `depth` and
`collect` are those of `fsm_term_safely`. User code makes any call that its
program (`prog`) allows in that callback, on any instance that `cleanup()` did
not yet report gone. What a freed context takes with it (`Beneath`) is the least set
that is closed under the talloc hierarchy. Functions that the compiler would resume with nothing left
to do have no frame.

### Gsm0411, SmsLink

The control layer (CP) and the relay layer (RP) of one side call each other
in-line, several levels deep, and the MM layer below destroys both when it is sent
MMSMS-REL-REQ: "sending this MUST be the last thing that is done"
(`gsm0411_smr.c:47`). A transaction is one record with the state of both layers;
`life` is `live`, `gone` after that request, and `used` if a handler then still
reads or writes it. Its outputs are collected: `mm` (CP messages) and `prims` (other
primitives) to the MM layer, `inds` (messages) and `reps` (reports) to the upper layer. `SmcSend`, `SmcRecv`, `SmrSend` and `SmrRecv` are the four entry points with
their tables of states; a message that no table entry takes goes the way of the code
behind the loop. `fatal` records the branches that log "This should never happen,
please fix!". `SmsLink` joins an originator and a terminator. The MM layer is
external: it confirms or fails connections, loses CP messages, and makes a new
transaction for CP-DATA that belongs to none. `env` carries the kinds of RP
messages, the bounds on losses and failures, and whether TC1* is longer than the
round trip.

### Ns2Vc, NseService, Ns2Link

An NS entity `s` is an NSE with its NS-VCs: `s.vc[v]` has the state of the FSM
instance, its timer, and the fields of `struct gprs_ns2_vc_priv`; `s.nse` the cached
weights, the number of unblocked NS-VCs and `alive`; `s.tx`, `s.ind` and `s.news`
collect the PDUs, the data and the status indications of a handler. `StateChg` is `osmo_fsm_inst_state_chg()` with the
`onenter()` of the new state, so that a chain of changes is one step. Each
case of `ns2_vc_fsm_allstate_action()` and each state function is an operator of its
name; `VcRx` is `ns2_vc_rx()`. `overdue` stands for the one timer that is started
with `osmo_timer_add()` and so keeps an old deadline. `LoadSharing` selects the
NS-VC of a request, by number on Frame Relay and by weight on UDP: it goes along the
list (`VcList`) until the running sum is above the remainder.

`NseService` is the service BSSGP relies on: available exactly while data and
signalling can be carried, each change indicated once, the first recovery marked
as such. `Ns2Link` implements it on both sides: the refinement maps `usable` to the
set of unblocked NS-VCs that have a weight and `alive`, `first` to the cached fields. That the cache is
right after every event, with several state changes in one, is what the
refinement checks. `Ns2Link` adds channels that keep order and lose PDUs, restarts
of either process, VTY commands (`Operate`), PDUs of an earlier conversation
(`Stray`) and timers that expire while their own request or its answer is under way
(budget `early`).

### EventLoop

One iteration of `_osmo_select_main()` is `Prepare`, `Poll`, one `FireTimer` for each
expired timer and one `DispatchFd` for each entry of the poll result; `loop` has the
locals of these functions and, in `cb`, the callback that is running. While one runs,
and between iterations, user code (`Call`) opens, frees, enqueues, clears, schedules,
deletes on any object. Numbers of closed descriptors are given out again, the least
first, as the system does. Deadlines count down in ticks. Timers that expire in the
same iteration are fired in any order (the code: the latest first). A callback keeps
the contract of `write_queue.h`, to return -EBADF when it freed the queue.
`osmo_select_main(1)` (polling) and except callbacks are left out.

## 3. Runs

| run | instance | question and result |
|---|---|---|
| `it_q` | 3 producers, 3 items, limit 2, eventfd limit 3 | `NoLostWakeup`, `LengthAgrees`, and `EveryItemLeaves` under fairness. Hold. |
| `lapd_dl` | k 1, modulus 2, N200 1, T203 on | The handlers rely on each other's traces (timers, counters, contention data) whatever arrives, and nothing but a refused DISC takes away the stored command: hold. |
| `lapd_transfer` | k 3, modulus 4 (the largest window), four messages, the first in two segments; or two messages and two losses each way; or four, one loss each way and a prompt T200 | The history is exactly the outstanding frames; one loss, as far as `RepairedByRetransmission` says, is repaired without a new link; every message is delivered or its sender told. Hold. |
| `lapd_crossings` | k 2, modulus 4; three environments: both sides establish and send, T200 shorter than the round trip, link management with in-line release and destruction | In order and once in all three; no silent loss and the window where they are claimed; a sender is never stranded. Hold. |
| `lapd_rts` | k 1, modulus 8, as LAPDm; L1 polls | With a queue whose frame is overwritten and T200 pending until L1 polls a sender is never stranded. Holds. |
| `lapd_partial` | k 2, modulus 4, first message in two segments, two losses each way | `WholeMessages` is violated, see section 6. |
| `fsm` | five programs with up to four instances | No use after free, no instance freed unfinished, tree consistent, cascade complete, terminations end. Hold. |
| `sms` | one message; three environments: up to three losses and one failing connection, RP messages of unknown types, TC1* shorter than the round trip | Nothing is used after its destruction, no branch that "should never happen" is taken, reports are honest, a message is given to the upper layer twice only if it was told of a failure; every submission is reported on and every transaction ends. Hold. |
| `ns2_vc` | eight environments: losses and early timers, with and without the RESET procedure, one or two VTY commands, a restart, stray PDUs, two NS-VCs of which one is for data only | Operator's blocks hold, every request finds its NS-VC, the NSE implements `NseService`, a dead peer is noticed, NS-VCs come up. Hold. |
| `ns2_stall` | one block, one restart | `BlockedIsUnblocked` is violated, see section 6. |
| `event_loop` | two queues of length 2 on two descriptor numbers, two timers; four environments: timers only, queues opened and freed, queues at their limit, shutdown | No deleted timer is fired, no freed descriptor is dispatched, queues are written in order and drain, timers fire. Hold. |
| `fsm_stuck` | two children, callbacks including `pre_term()` terminate anything | `FreedAreFinished` is violated, see section 6. |

Properties that are deliberately weaker than they might be, because the code
does not provide more:

* `WindowKept` and `NoSilentLoss` assume a T200 longer than the round trip
  (`env.timely`): a late answer to an earlier poll is taken for the answer to
  the present one, as the standard presupposes. `InOrderOnce` and
  `SenderNeverStranded` are claimed without it.
* `WindowKept` is not claimed where L3 suspends the link: `lapd_susp_req()`
  clears the history and leaves V(S).
* `L3KnowsTheState` excepts DISC_SENT: an SABM received there is refused with DM
  and still indicated to L3 (`lapd_core.c:963-969`).
* `ResendIndex` is about steps, and excepts one: a DISC that is refused, as a response or
  for its information field. `lapd_rx_u_disc()` has then flushed the history
  (`lapd_core.c:1151-1173`) and leaves SABM_SENT or DISC_SENT with an empty slot.
* `RepairedByRetransmission` is about one lost frame. If it is lost towards the receiver, a
  T200 beyond the round trip of a poll is enough. If it may be an answer, T200 must be
  prompt (`env.prompt`): it expires only when nothing is under way. Else a T200 that
  expires while the I frame is still on its way repeats a frame that the receiver
  has by then; it answers REJ and, in sequence error condition, answers no poll
  (`lapd_core.c:1396-1413`), so that when this REJ is lost only
  re-establishment helps. With two losses that happens to a prompt T200 too.
* `DeliveredOnce` is about one submission and assumes a TC1* longer than the round
  trip, fewer than three losses on the way back and no failing connection: otherwise a
  repeated CP-DATA finds no transaction and makes a second one, as the protocol has no
  identity across transactions. Three losses are what it takes, whatever the number of
  retransmissions: the CP-ACK, the report, and the CP-ERROR that ends the transaction.
* `EverySubmissionReported` and `TransactionsEnd` exclude RP messages of unknown
  type, which the relay layer answers or drops without ending the transaction.
* `OmBlockHolds` is claimed with the RESET/BLOCK procedures: without them an
  operator's block of a recovering NS-VC is refused though `om_blocked` is set.
* `ComesUp` is about two sides that nobody restarts, operates or disturbs; with
  those `ns2_stall` shows that it is false.
* `QueuesDrain` and `TimersFire` end with a shutdown: timers are not fired once it is
  requested, and section 6 says what may happen to queues.
* `SenderNeverStranded` excepts N200 exhausted with `reestablish` off, where the
  code reports an MDL error and keeps TIMER_RECOV without a timer.

## 4. Bounds

* Sequence numbers: modulus 4 with k 2 and 3 makes them wrap within four
  messages, and k = modulus - 1 is the tightest window; LAPDm's k 1 with modulus
  8 has its history of two slots wrap four times within the modulus.
  `lapd_dl` has the smallest modulus, as it already lets every N(S) and N(R)
  arrive.
* `MaxF` is one segment in `lapd_dl`, so that a second one overflows the receive buffer.
* N200: 1 or 2, so that exhausting it takes few steps. With one or two losses
  each way both outcomes occur, recovery and giving up.
* `inflight` bounds the channels: a side takes no step that might send while the
  channel to its peer is full. In `lapd_transfer` it is 8, more than the steps
  can fill; with a bound that both channels reach the sides would wait for each
  other, which the real link cannot do. In the invariant runs it is 2 or 3, a
  pure restriction of the interleavings.
* `msgs`, `reqs`, `losses` bound requests and losses for each side.
* `QueueBound` limits the send queue in `lapd_dl`.
* `Fsm`: three calls of user code between two visits of the main loop. A cascade
  with one instance terminated from each of the callbacks of another needs two;
  the violation of `fsm_stuck` needs two.
* `ItQueue`: three producers with a queue of two, so that one meets a full queue
  while another is before its eventfd write; an eventfd limit of three stands for
  the 64-bit counter and makes writers block.
* `SmsLink`: TC1* may repeat twice (the standard's one to three), three losses one
  way exhaust it. One submission: nothing but the MM layer connects transactions.
* `Ns2Link`: the retry counters are 0 or 1, so that exhausting them takes one or two
  timeouts; what matters is the change of state afterwards. At most one
  operation, restart and stray PDU in a behaviour, except for block and unblock,
  which come in pairs.
* `EventLoop`: four or five calls of user code. Using a number again takes three
  (open, free, open), deleting a timer on the eviction list three; with two queues
  and two timers each can be done from a callback of the other.

`CHECK_DEADLOCK FALSE` is set in the runs of `SmsLink`, `Ns2Link` and `EventLoop` because
transactions end, freed NS-VCs do nothing and a program without timers or traffic
sleeps in `poll()`, and in the LAPD runs: a link on which all bounded
requests were made and all frames acknowledged has nothing left to do.
Symmetry is not used: the sides differ in mode, and the runs with liveness
exclude it.

## 5. Fairness

* `ItQueue`: the receiving thread runs its select loop (`FdCb`, `FdCbLoop`) and a
  producer inside `_osmo_it_q_enqueue()` returns from it (`Increment`).
* `LapdLink`: each side's event loop goes on, and T200, when it runs, expires
  unless it is stopped, both of which `osmo_select_main()` provides. Losses are
  finitely many by their bound. No fairness of L3 is assumed. The formula writes
  ENABLED out, because TLC evaluates these large actions slowly.
* `SmsLink`: messages are delivered or lost (finitely many), and TC1*, TR1N and TR2N
  expire unless stopped. The upper layer of the terminator need not report.
* `Ns2Link`: NS-VCs that were created are started, PDUs are delivered or lost
  (finitely many), both timers expire unless stopped. Weak fairness for each side
  and NS-VC: each is a timer or a socket of `osmo_select_main()`.
* `EventLoop`: the program calls `osmo_select_main()` again and callbacks return (one
  weak fairness, as they are one thread), time passes, and a full socket becomes
  writable again. Nothing is assumed of user code. That this loop serves timers and
  sockets fairly (`TimersFire`, `QueuesDrain`) is what the other modules assume.
* `Fsm`: `WF_vars(Step)`: callbacks return and functions go on. As user calls are
  bounded between visits of the main loop, termination is a question about the
  loop over the children only.

## 6. Findings

* **`lapd_partial`** (`src/isdn/lapd_core.c:984`). An SABM on an established link
  "start[s] over", but `lapd_rx_u_sabm()` does not discard `rcv_buffer`, unlike
  `lapd_est_req()`, `lapd_res_req()` and `lapd_dl_reset()`. When the peer gives
  up in the middle of a segmented message and re-establishes, the first segment
  of the old message is delivered glued to the first message of the new link.
  `WholeOnOneLink`, which holds, is the property until the link is established anew.
* **`fsm_stuck`** (`src/core/fsm.c:1003`). If a terminating child makes its parent
  terminate before it was taken off the parent's list, the loop over the children
  sees the same first child twice and leaves. The siblings are freed with the
  parent, without `cleanup()`, on `fsm->instances`, and with a timer if they have one.
  `FreedAreFinished` holds in the `fsm` run, where siblings do not do so from
  `pre_term()`.
* **`ns2_stall`** (`src/gb/gprs_ns2_vc_fsm.c:457`). A BLOCK from the peer clears
  `initiate_block`, which only the start of the NS-VC and a local block set again.
  The SGSN's operator blocks an NS-VC and the SGSN restarts, so that the block is
  forgotten. The BSS notices by its tests and resets the NS-VC; being reset, the SGSN
  waits for the initiator's UNBLOCK ("The initiator who sent RESET is responsible to
  UNBLOCK!"), but the BSS, without `initiate_block`, enters BLOCKED and sends nothing.
  Both stay blocked, although nobody blocks them.

Observations that no run states, met while translating:

* `peer_busy`, set by RNR, is cleared by REJ, establishment and release, not by
  RR. No peer built from this code sends RNR.
* An SABM in DISC_SENT stops T200 without leaving the state. If the DISC, or its
  UA, is then lost nothing repeats it.
* A DISC that is refused empties the history all the same, see `ResendIndex` above: a T200
  (`lapd_core.c:603`) or, in SABM_SENT, a UA (`:1282`) then reads a slot without message.
  In MF_EST and TIMER_RECOV the unacknowledged frames are gone and the link goes on.
* In `lapd_rx_i()` L3 may release or resume the link from inside the indication. The
  datalink is then in DISC_SENT or SABM_SENT and the handler goes on to `lapd_send_i()`, which
  finds the stored command in the slot of V(S), sends it as an empty I frame, and moves
  V(S) on, where T200 then looks for the command. The management environment of
  `lapd_crossings` has the release; an empty I frame is refused by the peer.
* In the same place L3 is given `rcv_buffer` itself and the pointer is cleared only
  afterwards (`lapd_core.c:1711-1714`): an L3 that resets, destroys, re-establishes or
  resumes the datalink in-line has the buffer freed under it. Which of the two owns it is memory
  management that the model, in which a delivered message is a value, does not see.
* In polling mode an overwritten frame sets V(S) to V(A), also when the new frame
  is the DISC that is later looked up at V(S). `ResendIndex` is proved for the
  mode without polling.
* The event for the parent is read when the termination begins, before `pre_term()`, and the
  parent after `cleanup()` (`fsm.c:901` and `:949`). An instance that `pre_term()`, where the
  docs want it done, registers with another parent or event by
  `osmo_fsm_inst_change_parent()` sends the event of before, not the `new_parent_term_event`
  ("Event to be sent to parent when terminating.", `fsm.c:513`). The model does the same;
  no property is stated, since without such a call the two events are the same.
* `state_chg()` goes on after an `onleave()` that terminated the instance, and
  arms its timer; `_osmo_fsm_inst_broadcast_children()` keeps a pointer to the
  next child over the dispatch to the present one, and if that child is terminated in
  it, goes on with the pointers that `llist_del()` has poisoned (`FsmAssumption` leaves
  such programs out); `osmo_fsm_inst_term_children()`
  called by the program outside of a cascade uses the parent after a child's
  event may have freed it. The `fsm` programs do none of these; `FsmProofs` shows that
  with a dealloc_ctx the first and the last touch no freed memory while they run.
* `osmo_fsm_inst_change_parent()` of an instance that has no parent leaves its memory
  where it was, as `osmo_fsm_inst_unlink_parent()` returns early. If its new parent is
  then freed by a cascade that got stuck (`fsm_stuck`), the child lives on, and its
  termination touches the freed parent, with a dealloc_ctx too.

* `poll_disp_fds()` counts pending writes only for descriptors with events. One whose
  socket is full has none, so after `osmo_select_shutdown_request()` the shutdown is
  done with its messages unwritten, while `osmo_select_shutdown_done()` is documented
  to wait for "no more pending OSMO_FD_WRITE on any registered socket".
* A descriptor number closed and opened again by a callback is dispatched with
  the events of the old socket: a callback too many, whose `write()` meets -EAGAIN.
  After -EAGAIN a queue may exceed its limit by one.
* A `write_cb()` that returns -EBADF without having freed the queue leaves the
  remaining messages without the write flag until the next enqueue.
* If the MM layer does not destroy the SMS transaction on MMSMS-REL-REQ
  (`Destroys` = FALSE), TC1* survives CP-ERROR, release and abort, sends the old
  CP-DATA from IDLE, gives a second report or ends in "should never happen".
* RP layer: an EST-IND with an unknown RP type is answered with RP-ERROR and no
  release; without a timer the transaction stays. An unknown or reversed type
  in answer to RP-DATA gives no report. `rp_timer_expired()` leaves `rp_state`.
* NS2: an ALIVE-ACK that comes after `stop_test_procedure()` starts the test timer
  again, in RESET and UNCONFIGURED too; an NS-VC forced UNCONFIGURED may then start
  itself. UNBLOCKs to an operator-blocked NS-VC count up `N` without bound. A STATUS
  that is invalid for an NS-VC without RESET procedure is processed nevertheless and
  moves it to RESET, where it stays. A test that fails in BLOCKED without the RESET
  procedure asks for a transition the FSM does not have, and the test is over. The
  side that is reset enters BLOCKED with no timer: an UNBLOCK of its own that is lost
  is not repeated.

## 7. Proofs

TLAPS checks the following for all values of the constants that satisfy the named
assumptions; TLC evaluates these assumptions in the runs. Every proof has the same
form: an inductive invariant `Inv` made of named parts, a lemma that each action keeps
it, and a theorem for each property that follows from it. The invariants were
model-checked before they were proved.

* **`ItQueueProofs`** (finitely many producers; limits are naturals).
  `NoLostWakeupHolds` and `LengthAgreesHolds`. The invariant is
  the type invariant with both properties and the facts that without a callback
  nobody is bumping the eventfd and no iteration is owed, and that a callback
  implies a registered queue. `Increment` moves one
  from the producers to the counter, `FdCb` the whole counter to the loop, and
  `FdCbLoop` gives one up with one item; if the list is empty the loop gives up
  all it owes, and no items need cover.
* **`LapdDlProofs`** (`ParamAssumption`, `HistAssumption`, `DlAssumption`: what
  `lapd_dl_init2()` makes of its parameters, and that frames go to L1 at once).
  `DatalinkInvariant` proves the inductive invariant `DlInv`, from which
  `TimersMatchStateHolds`, `ResendIndexHolds`, `SabmGuardedHolds`,
  `ContentionEndsHolds` and `RetransmissionsBoundedHolds` follow. The
  conjuncts support each other: what a handler does depends on the state it finds,
  the state decides which timers may run, and that V(S) and slot 0 still hold the
  command follows only because every handler that sends I frames or takes an
  acknowledgement is reached in no state that waits for a UA. `DlInv` has a parameter:
  with 1 it says that the command is stored, and every step but a refused DISC keeps that
  (`StepInvariant`); with 0 it leaves that out and every step at all keeps it. The bound on the
  retransmissions needs that T200 is off once the counter is beyond N200 (`Polling`).
  All of it needs the datalink to be a record of exactly its fields, which every
  handler keeps. There is a lemma for each handler. Four predicates keep them
  short: `OnLink` (between the steps of a handler while the link is up), `Idle`,
  `Same` (nothing changed that the invariant speaks of) and `Quiet` (frames were
  sent). `lapd_send_i()` loops; its model is a recursive function on the number of
  rounds, and `RoundsExist` and `RoundsEquation` (module `LapdProofs`, shared with
  `LapdLinkProofs`) prove, from the least element of a set of naturals, that the function
  is defined.
  A second part of the module is about the outputs of a step: `NoStrayIFramesHolds` and
  `L3KnowsTheStateHolds`. `DlInv` gives the state in which a handler starts; `Silent`
  (no I frame, nothing told) and `Sending` (I frames, but only of `lapd_send_i()`) hold
  between its parts; `Honest` holds at its end. What makes it more than bookkeeping is
  that frames and indications are output in the middle of a handler, and the state that
  they must agree with is the one the handler ends in.
* **`LapdLinkProofs`** (the same assumptions, `SidesAssumption`; premise `~Rts`: frames go to L1
  at once). `WindowKeptHolds` and `SenderNeverStrandedHolds`, for any environment, any losses
  and any number of retransmissions and re-establishments. Each has a hypothesis about the frames
  that arrive. `AcksValid`: the N(R) of an I frame or RR is one the sender may get;
  `lapd_acknowledge()` frees slots before it looks at the validity, so that an invalid one
  takes frames out of the history and leaves V(A) (`lapd_core.c:817`). `AsksForHeld`: a REJ, or the answer to a
  poll, asks for a frame that is still there, or acknowledges all; else V(S) points into a
  gap, `lapd_send_i()` finds nothing to send and T200, stopped before, is not started
  again. So these are what a side relies on in its peer, and all that it relies on. TLC
  finds both true in every state of `lapd_transfer`, `lapd_crossings` (with a T200 that is
  too short, and with suspension, for `AsksForHeld`) and `lapd_partial`; both are defined in
  `LapdLink`, to be added to the INVARIANTS of a cfg.
  The invariant, `Windowed`, sees the history as frames in a row, V(A) + lo up to
  V(A) + hi - 1, with V(S) = V(A) + hi in MF_EST and T200 running if there are any; lo is 0
  where `WindowKept` is claimed. That no side sends a DISC that would be refused needs that no
  entry of the history has an information field in DISC_SENT. Inside a handler V(S) may have been set back (`Sending`), and
  `SendIEst` shows that `lapd_send_i()` brings it to the end again. Slots are sequence numbers
  modulo `range_hist`, sequence numbers are modulo `v_range`: `SlotsDistinct` shows that k + 1
  frames in a row never share a slot, because `range_hist` exceeds k and divides `v_range`.
* **`EventLoopProofs`** (`LoopAssumption`: finitely many timers, `None` is no osmo_fd,
  numbers are positive). `EvictedAreDueHolds`, `NoUseAfterFreeHolds` and
  `WrittenInOrderHolds`. The invariant: the table is the inverse of the numbers of the
  listed osmo_fds and a freed one has no fields left (`Registered`); every timer on the
  eviction list is active, due and there once (`Evictions`); the last message written,
  the one that is with `write_cb()` and the queue are in the order of acceptance
  (`InOrder`). The last is what a queue that is cleared, freed or filled by its own
  `write_cb()`, before -EAGAIN puts the message back, might break.
* **`FsmProofs`** (`FsmAssumption`; premise `Protected`). `NoUseAfterFreeHolds`,
  `TreeConsistentHolds` and `CascadeCompletesHolds`, for any
  finite set of instances, any tree and any number and nesting of calls. `Protected`
  says of each program that it has a dealloc_ctx or is `Careful`, and re-parents no
  instance. `Careful` is what a program with `osmo_fsm_term_safely()` alone must keep
  to: it makes no calls from `onleave()`, and calls `osmo_fsm_inst_term_children()` in a
  cascade only. Four of the five programs of the `fsm` run are `Protected`, and so is that
  of `fsm_stuck`: what is violated there is `FreedAreFinished`.
  `NoUseAfterFree` is about the functions that are being executed; a timer that outlives
  its instance would be a violation of `FreedAreFinished`. The observations of section 6
  are why the premise is needed. The
  invariant: the lists of children are the inverse of the parent pointers
  and follow the memory (`Down`, `Up`); every function on the stack has its instance,
  its parent and its child (`Good`); the depth is the number of terminations on the stack
  (`Depth`); what has begun to terminate is on the stack or deferred (`Deferred`); and,
  without a dealloc_ctx, under a loop over children is a termination, and above a state
  change or a broadcast nothing that calls (`Nested`). With it, what the outermost
  termination frees is used by nothing left on the stack: only callbacks are left there.
  `FreedAreFinishedHolds` is about the executions of such programs that satisfy two
  hypotheses. `NoChildForgotten`: the loop over the children does not give up on a stuck
  child while there are others that nobody terminated, which is what `fsm_stuck` does.
  `NoTimerAfterEnd`: no `onleave()` terminates its own instance, whose timer
  `state_chg()` would then arm (`fsm.c:648`). So these two are all that can go wrong: a child that is
  stuck because it is already terminating further down the stack does no harm by
  itself. Two facts carry it: an instance that is about to be cleaned up is the next to go on
  and has no children but such as terminate themselves, or the loop over them is running on
  it (`Swept`; `pre_term()` and the children's callbacks may have added some before), and
  what is deferred is off its list, without timer, and stays so (`Finished`). TLC found both
  hypotheses true in every state of the `fsm` run.
* **`SmsProofs`** (premise `Destroys`: the MM layer destroys the transaction on
  MMSMS-REL-REQ, as `gsm0411_smr.c:47` expects). `NoUseAfterDestroyHolds`,
  `NeverHappensHolds` and `HonestReportHolds`. The invariant says that a side without
  connection has no transaction and one with a connection has a control layer that is not
  idle, with a message exactly while one is to be sent or acknowledged (`Cp`); that no
  RP-ACK is in any channel, stored message or report before the terminator's upper layer
  was given the message and reported success; and that the reports made and the one that
  is due are no more than the submissions. `Result` says that each handler, with all the
  calls up and down it makes, keeps a transaction going or has ended it as its last act.
  The second part of the module proves `DeliveredOnceHolds` (premises `Destroys` and at least one
  retransmission; the code allows two). A second transaction of the terminator is made by a
  CP-DATA that TC1* repeats, so the invariant is about the message as long as the
  originator sends it. It is at most once on its way, ahead of everything, and alone while
  the originator is sending it (`Alone`). The terminator then has no transaction, has told
  its upper layer, or has answered, and the upper layer was given the message once more than it
  was told of a failure, or not yet (`Known`). What the terminator has sent is lost or on
  its way: one message once it has acknowledged, two and its own retransmissions once it has
  answered, three if its transaction has ended (`Owed`); that is why fewer than three losses
  leave something under way that stops the originator. And no answer is on its way while
  the message is, or the originator would go on and leave a copy behind (`Silent`). The lemmas come in three
  layers: what each handler outputs, with all the calls it makes (`...Sends`); what that does
  to the invariant, as a fact about two sequences and four numbers; and one lemma for each
  action. TLC checked the invariant first, with one and three retransmissions and more losses
  and kinds of messages than the `sms` run has (558,807 states).
* **`Ns2Proofs`** (`Ns2Assumption`, `Ns2EnvAssumption`: retry limits are naturals, the NS-VCs
  are a list, weights are naturals). `OmBlockHoldsAlways` (in RESET/BLOCK mode, as the
  property says), `EveryRequestRoutedAlways` and `NseIsImplemented`, the refinement of
  `NseService` on both sides. The invariant `All`: operators are obeyed, and the cached
  count and sums are those of the unblocked NS-VCs, so that `alive` is true exactly if
  data and signalling can be carried. One event may lead to several changes of state, each
  with its notification; `Moves` is a relation between entities (what was told fits what
  changed, at most one NS-VC came or went) that composes with the steps around it, and it
  is what makes the whole event one step of `NseService`. `EveryRequestRoutedAlways` says
  more than the property it names: that has the link selector parameter range over enough
  values for every remainder, the theorem over all naturals. Sums go along the list by a
  recursive function; that it is defined, is monotonic and changes by one weight with one
  NS-VC is proved from least elements, as no induction theorem can be used.

Only model-checked, and why:

* `WholeOnOneLink`, `RepairedByRetransmission`, `InOrderOnce` and `NoSilentLoss` of `LapdLink`, and
  the hypotheses `AcksValid` and `AsksForHeld` of its theorems. They are about both datalinks and every frame in
  both channels at once: the receiver's V(R) is between V(A) and V(S) of the sender, and
  every frame under way was sent on this link, after any number of retransmissions, polls and
  re-establishments. That needs sequence numbers that do not wrap, which the model, like the code,
  does not have, and an account of which SABM and UA separate one link from the next.
* `WindowKept` and `SenderNeverStranded` with RTS, where L1 polls for each frame (`lapd_rts`).
* All liveness: fairness and ENABLED are out of the prover's reach.

## 8. Not modelled

Stateless codecs (`gsm/`), channel coding, ciphers and numeric kernels have no
control for a model to keep; test vectors are the right check. Logging,
statistics, VTY, sockets, SIM and USB access are I/O. The old NS implementation
is superseded by NS2. In the modelled parts the following is left out: octets,
addresses, header layout and over-long messages of L3 (LAPD); causes and contents (SMS);
the SNS procedure, binds, dynamic NS-VCs, the choice of the signalling NS-VC on UDP
(NS2); the `select()` build, timerfd, signalfd, fake time (event loop); random access, two
datalinks on one channel, frame-number arithmetic (LAPDm); event and state
masks, names, identifiers and registration (FSM).

## 9. Plan

1. *Done:* `ItQueue`, `Lapd` with `LapdDl` and `LapdLink`, `Fsm`, `Gsm0411` with `SmsLink`,
   `Ns2Vc` with `NseService` and `Ns2Link`, `EventLoop`; the proofs above, of every invariant but
   four of `LapdLink`.
2. Proofs next: `AcksValid` and `AsksForHeld`, that every N(R) under way is valid, while no side
   is established anew (V(R) of the receiver is between V(A) and V(S) of the sender, and every
   I frame under way is in the history or acknowledged); `InOrderOnce` from it.
3. Further modules: the BVC FSM pair of BSSGP (the shape of `Ns2Link`), the deferred free
   of `osmo_io` (the shape of `EventLoop`), the SNS procedure, LAPDm's two datalinks.
