# Verification of the RDA8810PL kernel drivers

The repository is the kernel support for RDA's 8810PL (the i96 board): a
single-core Cortex-A5 application processor (AP) and a baseband processor (BP)
on one chip, and the drivers between them and the board's peripherals. There are
no tests, and little documentation: the code is the reference. This directory
holds TLA+ models of its core logic, their model-checking runs and the proofs
about them. `PROJECT.json` maps every definition to the lines it models.

## 1. Inventory

| component | state | operations | what is hard | what makes it correct |
|---|---|---|---|---|
| **Modem rings** (`md.c`) | head, tail and bytes of six rings in memory shared with the BP | stream/packet write, two-step packet read | the other end is a second processor; wrap-around; framing; bare headers; frames visible in part | each direction is a FIFO; what is reported as written was written; frames are taken in order, whole unless they became visible in part |
| **Modem interrupt** (`md.c`) | the interrupt bits, port callbacks | `rda_md_interrupt`, tasklets, open/close | clear-after-notify, a frame published meanwhile | no frame without somebody to fetch it |
| **SYS channel** (`md_sys.c`) | pending list, frame slots, held events, work item, `msys_async_done` | `rda_msys_send_cmd`, rx worker, `rda_msys_late_init`, client registration | replies against timeouts and retries; events before the receivers exist; messages on callers' stacks | own reply, every call ends, every event handled once, no slot leaks |
| **Regulators** (`rda_regulator.c`) | `cur_val` per regulator | enable, disable, set voltage: one RPC each, skipped if the cache says so | the cache after a timed-out command the BP did execute | cache and BP agree after every successful command |
| **AP clocks** (`ap_clk.c`, `clk_rda.c`, `clk_ops_rda.c`) | registers, use counts, PLL state | enable/disable, set rate | shared parents, ignored RPC errors | a parent runs while a child does |
| **IFC DMA** (`ifc.c`), **DDR votes** (`pm_ddr.c`) | channel owners; votes | transfer start/stop/flush; get/put | ownership read before the lock; unbalanced votes | one owner per channel; vote held while a transfer runs |
| **SD/MMC host** (`rda_mmc.c`) | current request, channel, completion | request, interrupt, tasklet, timeout | a timeout against a late interrupt | a request ends once; no stale completion |
| **I2C** (`i2c-rda.c`) | none between transfers | polled transfer with retries | partial transfers | a message counted as sent was acknowledged |
| **cpufreq / cpuidle** | target index, frequency table | governor, temperature event | two tables, an index never assigned | the limit of the last event holds |
| **Camera** (`rda_camera_8810.c`) | queue of buffers, active buffer, state | queue, start/stop streaming, frame interrupt | interrupt against V4L2 calls | each buffer returned to V4L2 exactly once |
| **GPIO** (`rda-gpio_old.c`) | shadow of mask and type registers | irq mask/type, chained handler | read-modify-write from both contexts | a masked line is silent |
| **WLAN bus** (`wland_sdio.c`, `wland_sdmmc.c`, `wland_bus.c`) | queues, task counters, clock and sleep state | tx/rx workers, watchdog, control frames | counters against queues, one slot for control frames | what is queued has a worker before it; the chip is awake when it is used |
| **WLAN firmware protocol** (`wland_cmds.c`, `wland_fweh.c`, `wland_fwsmgr.c`) | request id, event queue, hanger | command and answer, event worker | one message and one answer buffer for all callers without a lock, numbers of a u8, answers out of step | success means carried out |
| **WLAN cfg80211 glue** (`wland_cfg80211.c` and others) | scan, connection and key state | scan, connect, keys, firmware events | timers, works and calls that end the same scan or connection | each scan request reported once; each call returns; cfg80211 knows of every link |
| **Combo power** (`rdacombodev/`) | masks of who wants the 26 MHz and 32 kHz clocks and the regulator | on/off per function | no lock around the masks; one radio waits for the other | who waits, waits for somebody |
| register tables, headers, vendored `reg.c` | - | - | - | not modelled |

How they meet: every regulator, clock-output, WLAN-nvram and cpufreq request
that the BP serves is an `rda_msys_send_cmd`; it becomes one packet in the SYS
transmit ring, and the BP's answer comes back through the SYS receive ring, the
interrupt, `queue_work`, and the worker, which completes the caller. Events of
the BP (chip temperature) go from the worker to the notifier chain, where
cpufreq listens. The MMC host and WLAN's SDIO use the IFC channels, and those
vote for DDR bandwidth, as the camera does. In the WLAN driver cfg80211 calls
the glue, the glue sends commands over the bus and waits for answers, and what
the firmware finds comes back through the bus's receive worker as events, which
a second worker hands to the glue.

## 2. Modules

| module | models | abstraction |
|---|---|---|
| `MdRing` | the index arithmetic of `struct md_ch` | `& fifo_mask` is `% Size` |
| `MdFifo` | what a ring promises: a bounded FIFO | abstract specification |
| `MdTx` | `__ch_stream_write`, `__ch_packet_write` against a reading BP | a unit's payload is its number |
| `MdRx` | `__ch_packet_read`, `__ch_read`, `__ch_read_hdr` against a publishing BP | a unit is `<<frame, index>>` |
| `MsysRpc` | what the SYS channel promises its clients | abstract specification |
| `MdSys` | `md_sys.c` and the SYS part of `rda_md_interrupt` | rings of whole frames |
| `MCMdSys` | the settings TLC checks `MdSys` in | |
| `Ifc` | the channel table of `ifc.c` and the votes of `pm_ddr.c` | a critical section is one operator |
| `IfcClients` | threads that use the channels by the plain and by the scatter/gather calls | addresses and sizes left out |
| `RdaMmc` | one MMC host of `rda_mmc.c`, over `Ifc` | data is the number of parts still owed |
| `RdaCamera` | the capture buffers of `rda_camera_8810.c` | a frame is whole or not; registers that matter are variables |
| `WlandBus` | `wland_sdio.c` with the commands of `wland_cmds.c` | packets are counted; a message is its number and the command it was built for |
| `WlandSme` | scan and connection state of `wland_cfg80211.c`, the event queue of `wland_fweh.c` | an event is its type; a network is a name |
| `MCWlandBus`, `MCWlandSme` | symmetry, and the budgets TLC checks | |
| `ComboPower` | power on and off of WLAN and Bluetooth | a supply is the set of its users |
| `MdTxProofs`, `MdRxProofs`, `MdSysProofs`, `IfcProofs`, `RdaMmcProofs`, `RdaCameraProofs`, `WlandBusProofs`, `WlandSmeProofs` | lemmas and theorems about the module they are named after (`IfcProofs`: `IfcClients`) | |

**`MdTx`.** A write is three steps, cut where the shared memory is touched:
`GetBuffer` reads the pointers, `Copy` is the memcpy, `WriteDone` advances
`head`. `BpRead` moves `tail` between any two. Writers of one port are
serialized by their caller (`tx_mutex`), so there is one. `framed` chooses in
`Init` between the SYS port (check first, return the length asked for) and the stream
ports (write what fits). The lengths include the bare header (`md_sys.c:1029`,
`wland_nvram.c:144`). Ghosts: `published`, `consumed` count units, `base` and `room`
remember where a write began and what room there was. `CutOff` names the one case
in which `__ch_packet_write` calls written what it cut off.

**`MdRx`.** `Peek` is `rda_md_read(port, NULL, 0)`; `StartRead`,
`ReadBufferCopy` and `ReadDone` are the second call, one run at a time, for the
header and then for the extension. Every error return of `__ch_packet_read` after
the peek is the state `bad`. The BP lays a frame out behind `head` when all of it
fits (`BpWrite`) and then makes it visible in as many advances of `head` as it
likes (`BpPublish`), so the reader may meet any part of one; `exposed` is the ghost
of the frames whose header was visible before the rest. Such a frame may be read
torn: `__ch_packet_read` returns what there was, and the reader then looks for a
header in the rest. The rest of a torn frame is taken never to look like a header:
with a payload that begins with the magic number the reader would take it for a
frame.

**`MdSys`.** Per thread, `pc` follows `rda_msys_sync_write_timeout`: `Call`
(check the BP, put the message on `pending_list`), `Pump` or `PumpBusy` (one
attempt under `tx_mutex`), `Completed` or `TimedOut`, `GiveUp` (`list_del`).
`pending_list` is a set, because the order on the list is the order of the
calls, which are numbered. `IrqNotify` and `IrqClear` are the two halves of the
handler around `queue_work` and `MD_CLR_IT`; the AP has one core, so between
them only the BP moves (`ApRuns`). `queued` is the pending bit of the work item,
cleared when the work starts. The worker's steps are `WorkStart`, `Flush`,
`FlushEnd`, `LoopRead`, `LoopEnd`, `HandleReply`, `HandleAsync`. `LateInitSet`
and `LateInitQueue` are `rda_msys_late_init`. After a BUG_ON nothing of the AP
runs any more; a caller that finds the BP off is `hung`. The BP takes commands,
answers them in any order, publishes events, and raises the interrupt a step
after it published. Because the frames are whole here, the error path at
md_sys.c:710 is absent: `FramesInOrder` of `MdRx` says, among the rest, that the
state `bad` is not reached before a frame was torn. Commands are whole here too:
the cut-off header of `MdTx` is not followed into the BP. A behaviour is in one of the `Settings`, chosen in
`Init` and kept in `env`: which keys each thread sends, how large the rings are,
whether the system is still booting, whether the BP may be slow or shut down.
`skipped` is a ghost: the frames in the ring when a run of the worker began that
only hands held events over.

**`Ifc`, `IfcClients`.** `Take`, `Free`, `Get` and `Put` are the critical
sections; the clients' steps are cut where a lock is dropped. A plain start
reads `get_ch` before it takes `ifc_lock` (`ReadGetCh`, `Start`); a stop drops
the vote and then the channel (`Stop`, `Release`). `GetCh` says that reading the
register allocates: the engine's documentation is not here, and the code only
says "alloc channel by hardware" (ifc.c:79, :220). This is an assumption about
the hardware, and `OneUser` rests on it: if a read did not allocate, two threads
that both read before either started would meet on one channel. A BUG_ON sets
`failed`, after which nothing runs.

**`RdaMmc`.** `pc` follows the thread through `rda_mmc_request`,
`__do_data_transfer` and `hal_data_transfer_stop`, cut where an interrupt
matters: between `init_completion`, the command and the wait, between the expiry
of the wait and what follows, between the vote and the release. `Irq`, `Tasklet`,
`Remove` and `Insert` are whole handlers, because the AP has one core; the
tasklet runs before the thread goes on. The controller ends a transfer well,
short, with a bad CRC or with an error, or goes silent; another user takes and
returns channels meanwhile. One assumption about the outside is a constant:
`Punctual` (no interrupt for a transfer whose wait has expired or that was
stopped), which run `mmc_late` drops. A removed card may be back at any time,
also before the thread has seen it go; the ghost `bounced` remembers that.

**`RdaCamera`.** The V4L2 calls are `Qbuf` (before and while streaming:
`BufferQueue`), `StartStreaming` with its steps until the first vertical sync
(`StartSensor`, `StartDone`, `StartAborted`), and the two halves of
`stop_streaming`, `Cancel` (the work) and `StopStreaming` (the interrupt, the
camera and the buffers). The handler is one step, `Isr`, over whatever causes
have added up; the delayed work is three, because the handler may come between
its reading of `p->next` and its writing of the address. The camera is
`FrameStart`, `DataStart` (it takes over the address), `FrameEnd` and
`Overflow`, and writes into `cur` meanwhile. Assumed: the interrupt may be late,
and a cause raised twice counts once, but not for ever; no call preempts the
work between its reading and its writing, and the work is not held up there for
more than a frame. `filled` is a ghost: the buffers with a frame in them.
Buffers the camera itself tore (lost bytes, or a start in the middle of a frame)
are counted as filled, because the driver neither prevents nor reports it:
`DoneIsFilled` is about which buffer is reported, not about the picture in it.

**`WlandBus`.** `SendPacket` is `wland_sdio_bus_txdata` whole. A command is what
`wland_fil_set_cmd_data` does, cut wherever it touches what all callers share, for
it holds no lock: `Draw` (clear `prot->buf`, read `prot->reqid`), `Build` (count
`reqid` and write the number into `prot->msg`), `Fill` (the rest of the message),
`ReadBack` (take for one's number what is in `prot->msg` now), `HandOver` (under
`sdsem`: set the control frame), `CommandWake` (count and queue the worker),
`CommandSent` (the transfer, or five seconds, or a signal), `Answer` (copy the
answer over `prot->msg`) or `AnswerTimeout`, and `Compare`. The number is a u8: the
model counts modulo `IdCount`. A message is its number and, for its contents, the
command it was built for; between two callers these can come from different
commands, as in the code. `Init` lets a command that was given up before, with the
number the next one will have, still be with the firmware. The transmit worker is
cut before each transfer and in its copy of the message (`TxStart`,
`TxData`/`TxDataSent`, `TxCtl`/`TxCopy`/`TxCtlSent`), the receive worker is
`RxFrame`, the watchdog `WdTimer`, `WdTick`, `WdSleep`. The firmware carries out a
message and interrupts in one step (`Irq`). On a bus that is down the clock stays
as it is and the watchdog has ended. Assumed: power management is on; transfers
fail on the bus, not for want of memory; the stack sends with bottom halves off, so
a packet is queued in one step. Left out: `wland_proto_cdc_data`, which draws its
number from the same counter but keeps it in a local variable. Ghosts: `alone` are
the callers nobody disturbs, `told` the commands that were alone to their end and
were told success, `carried` those the firmware carried out.

**`WlandSme`.** The calls of cfg80211 are `Scan...`, `Connect...`,
`Disconnect...`, `Stop...`, `Suspend...`, `Open` and `RemoveInterface`, each cut
where the code sleeps (the polls of `SCAN_STATUS_BUSY`, commands,
`cancel_work_sync`, the wait for a disconnect). `ScanTimeout`, `ConnectTimer`
and `Restore` are the timers, `ReportTake`/`ReportDone`, `JoinBegin`/`JoinEnds`
the works, and the event worker takes one event at a time (`HandleScan`,
`TakeLink`, `CancelJoin`, `LinkUp`, `LinkUpReported`, `LinkDown`). The firmware
finds networks, joins, refuses, leaves and drops on its own. Assumed: cfg80211
makes one call at a time, since it holds the wiphy mutex; the interface is a
station; an event is never dropped for want of memory, as `firmweh_push_event` does
(wland_fweh.c:481-485): a full queue makes its sender wait instead; and no event
reports that there is no network (the branch at wland_cfg80211.c:5831, which clears
`VIF_STATUS_CONNECTING` and nothing else, is left out). Whether cfg80211 may be asked
to delete the interface during a scan is the constant `Careless`; where it is FALSE,
as in run `wlan`, `RemoveInterface` changes nothing, because without a scan the code
only refuses; only run `wlan_busy` has a removal meet a scan.

**`ComboPower`.** The completion that serializes the two power-ons is a counter;
a power on takes it, writes registers, which may fail, settles, and gives it back.

Definitions marked *Faulty variant* are plausible errors that the properties are
tested against; no specification uses them.

## 3. Runs

| run | bounds | question |
|---|---|---|
| `tx` | ring of 8, header 2, packets of 2 (a bare header), 3, 4, 7 or stream writes of 1, 3, 9; 20 units in all | are the transmit rings FIFOs, is what a write reports what it wrote, and is a bare header on a full ring the only exception? |
| `rx` | ring of 8, header 2, extensions 0, 1, 3, 5, four frames ; visible in any pieces | does the reader get every frame, in order and whole, unless it met one before all of it was visible, and what then? |
| `sys` | three settings. *Steady*: 2 threads with their own commands, 3 calls, 2 events, a BP that answers in time. *Boot*: 2 slots, 4 events, 1 call, late init to come. *Hostile*: 2 threads sharing a command, 2 calls, 2 attempts, rings of 1, a BP that is slow and may shut down | no message outlives its caller, no slot leaks, no event is lost or repeated, no frame is stranded but in the two named cases of boot; does every call end, every held event get handled, and do the calls implement `MsysRpc`? |
| `ifc` | 3 channels, 2 plain and 2 scatter/gather users, lists of 1 and 2 | one user per channel, votes that match, no channel lost but by a refused list |
| `mmc` | 2 channels, 2 requests of 1 and 2 parts, 3 changes of the slot | does each request end, with an error only for a reason; and, until a card bounces, tell the truth and leave nothing behind? |
| `mmc_late` | as `mmc`, not `Punctual` | **violation**, finding 1 |
| `wlan` | one network, event queue of 2, four budgets: scans with a failure, a removal and a stop; a scan and a connection with a stop and a failure; a connection to a network a scan found; two connections of which one may drop | is each scan request with one owner and reported, does every call return, does cfg80211 know of every link? |
| `wlan_ssid` | two connections, one drop | **violation**, finding 2 |
| `wlan_busy` | two scans, with `Careless` | **violation**, finding 3 |
| `bus` | 2 callers (symmetric), 2 commands and one left over, 2 numbers, queue of 1, idle time 2 | does everything queued have a worker before it, is the chip awake when used, does success mean carried out for a command that is alone? |
| `camera` | 3 buffers, one overflow | does the camera write only into buffers the driver holds, is a done buffer filled, does every buffer come back? |
| `combo` | 2 radios | **violation**, finding 4 |

The bounds are enough for the cases that matter. 20 units go round a ring of 8
more than twice, so every pair of head and tail occurs, and 7 is a packet that
fills the ring. Two threads are the smallest instance where one gets the
other's reply; four events against two slots run out of slots. Three buffers are
the camera's active one, its next, and one more to move up or to be with the
user, and the camera goes round them without a bound. In `bus` two callers are
enough to overwrite each other's message, share a number and take each other's
answer; with two numbers the second command has the number of the one left over;
and one packet fills the queue and stops the stack. Its graph, the largest, has
5.2 million distinct states; a third command or a second packet does not fit into a
few minutes, and the theorems are for any number of either. In `wlan` a call meets every
timer, work and event of the call before. The counters only grow, so most runs
may end: deadlock is not checked, and liveness properties say what must happen
instead.

**Fairness.** `MdRx` is weakly fair to its reader: the worker loops while data
is available. `MdSys` is weakly fair to each caller, to the worker, to the two
halves of the interrupt and to the BP's taking, answering and interrupting (a BP
that is on serves its queue); `LateInitQueue` is strongly fair, because the
busy loop tries again and again and the scheduler runs the worker between two
tries - which needs a preemptible kernel. Nothing obliges a thread to call, the
BP to send events or to shut down. `RdaMmc` is weakly fair to the thread (each
of its waits has a timeout, five seconds for data), to the tasklet, and to the
controller's choice between reporting and falling silent. `RdaCamera` is weakly
fair to the camera (the sensor sends frames), the handler, the work and the
calls that have begun, and strongly to the handler with a single cause: an
interrupt is not so late that it swallows another every time. `WlandSme` is
weakly fair to the continuation of a call, the two timers, the works and the
event worker; nothing obliges the firmware to answer. `WlandBus` and
`ComboPower` state no liveness.

## 4. Findings

1. `mmc_late`: when the wait for data expires, the thread names
   `transfer->channel` to `ifc_transfer_get_tc` for a message. A transfer that
   completes in between has already set it to `HAL_UNKNOWN_CHANNEL`, and the
   BUG_ON of ifc.c:193 stops the kernel.
2. `wlan_ssid`: `cfg80211_connect` fills the profile before it waits for a
   disconnect under way, and the disconnect event that ends the wait clears the
   profile; the join then asks for an empty ssid.
3. `wlan_busy`: `cfg80211_del_virtual_iface` on a station is refused, but first
   ends a scan and deletes its timer without clearing `SCAN_STATUS_BUSY`. The
   next scan, connect or disconnect polls the bit for ever.
4. `combo`: a power on that fails returns without `complete(&rda_wifi_bt_comp)`;
   the next power on of either radio waits for a call that is over. The files
   for the 5991e, f and g do the same.

Met while modelling, and in the models, so that the properties say what holds
beside them. The first four contradict a comment of the code:

- "It doesn't lost messages send by BP, because work_queue always is triggered by
  queue_work" (md_sys.c:688-691): the run of the worker that hands over held events
  returns without a look at the ring, and the frames it was also queued for stay
  there until the BP sends again. `NoStrandedFrame` names this case (`skipped`), and
  the other one at boot: when all slots hold events the worker stops with frames in
  the ring (md_sys.c:703), until late init. Without either clause TLC finds it
  violated. An event that arrives while `rda_msys_late_init` runs may also be handled
  before the older ones still held (md_sys.c:791);
- "use a short delay to debounce" (rda_mmc.c:1120-1123): the delay is 0, and
  `host->present` follows the pin. A card that is back before the thread looks at it
  makes the request it interrupted a success with all its bytes, which ends with the
  channel still taken; the next request takes another, and an interrupt of the first
  transfer then meets the second. `ChannelIsOurs`, `IdleHoldsNothing` and
  `SuccessMeansMoved` name this case (`bounced`), `ErrorsExplained` and `RequestsEnd`
  hold with it. Without the clause TLC finds each of the three violated;
- "For control messages to common driver will assure there is only one active
  transaction" (wland_bus.h:60-63): nothing assures it. Two callers build their
  messages in one buffer, one may read back the other's number (wland_cmds.c:70, 303,
  371), and one may be told success for a command that was overwritten and never
  sent. A single caller is not safe from the past either: after 256 commands the
  number of one that was given up comes again, and its late answer with it.
  `OkMeansCarriedOut` is about commands that are alone; each of the four parts of
  that is needed, as TLC shows when it is left out;
- "It might that we would read later data, but BP didn't trigger interrupt. Wait for a
  while." (md.c:404): the check waits for the header only. If a header is visible
  before its extension, `__ch_packet_read` returns the part that is there, and the
  reader is left in the middle of a frame. The AP's own writer makes a packet visible
  in two pieces where the memory ends (md.c:520-534); how the BP does it is not in the
  repository. `FramesInOrder` and `AllFramesRead` name the case (`Torn`);
- a packet without extension passes the room check of `__ch_packet_write` even
  if the header does not fit, is cut off, and is reported as written (md.c:546-552):
  the BP gets a frame that is not whole. `md_sys.c:1029` and `wland_nvram.c:144` send
  such packets; it takes a ring with less room than a header. `AcceptedMeansWritten`
  names the case (`CutOff`);
- replies are matched by device and message id: the late reply to a command that
  timed out completes its retry, and two threads that send the same command
  through one device may get each other's reply. `MsysRpc` states what does hold:
  an answer goes to one waiting caller with the same key.

Outside the models:

- without memory for its copy of a command the transmit worker of the WLAN bus
  counts the command out and leaves it set (wland_sdio.c:861), and
  `wland_sdio_bus_stop` marks the bus down before it asks for the clock to be
  turned off, so that the clock stays on (wland_sdio.c:488);
- the camera's probe tests `ret` where nothing has assigned it
  (rda_camera_8810.c:1449).

## 5. Proofs

Every invariant the passing runs check and both refinements are theorems, for every
value of the constants that the modules' assumptions allow, some under a hypothesis
that is named below. In each proof module an inductive invariant comes first, then
a lemma `Init...`, a lemma `Step...` with one step per action, and the theorems.

**`MdTxProofs`.** `TypeCorrect`, `NeverOverrun` (`UnreadIntact`), `WritesAreWhole`
(`AcceptedMeansWritten`) and `RingIsFifo` (`ImplementsFifo`), for every ring size,
header size, set of lengths, bare headers among them, and number of units. The section on index arithmetic has wrapping by cases, the
value and range of `ReadAvail`, that `WriteBuffer` offers no more than is free and
does not cross the end, and what advancing `head` or `tail` does. `UnreadIntact`
is not inductive: the writer's plan must be part of the invariant. `RunIsFree`
says that the run chosen by `GetBuffer` stays free, contiguous and inside the
request while the BP reads; `RunIsCopied` that after `Copy` it holds the next
units. For `WritesAreWhole`, `Books` adds what a write in progress has published,
and that on a packet port the rest fits, or the packet is a bare header that found
less room than itself and has published less than its length; the first follows from
the check of `__ch_packet_write`, which for a bare header says nothing.
For the refinement the queue of `MdFifo` is the units between `tail` and
`head`, which `UnreadIsRun` shows to be consecutive numbers; `WriteDone` maps to
a `Put`, `BpRead` to a `Take`, everything else to a stutter.

**`MdRxProofs`.** `FramesArriveWhole` (`FramesInOrder`), for every ring size,
header size, set of extension lengths, number of frames, and whatever pieces the BP
makes its frames visible in. That the reader does not become `bad` before a frame
was torn depends on what lies in the ring beyond the frame in hand: `Laid` says
that there are offsets behind `tail` - negative for the frame in hand, part of
which was given back - at which the unread frames begin, one after the other up to
the end of what is laid out, visible or not (`Filled`). A release of m units
lowers every offset by m (`LaidShifts`), the BP adds one (`LaidGrows`), showing
more changes none (`LaidShows`), and whatever does not touch the ring leaves them
(`LaidStays`). `HeldBack` says that what is not visible yet is the end of the last
frame, which is `exposed` if its header is. `Reading` says that the header of the
frame in hand was visible from the peek on, that the slot holds a prefix of the
frame and that `need` is the rest of the part. So a copy comes up short only at
something held back (`ShorterIsHeld`), and the frame torn there is an exposed one
(`StepTear`). The longest lemma is `LaidGrows`: what the BP writes lies outside all
that is unread, wherever either wraps.

**`MdSysProofs`.** For every number of threads, keys, slots, attempts, calls and
events and in every setting.

- `TypesHold`, `ListIsLive` (`PendingIsLive`), `FramesAreFetched`
  (`NoStrandedFrame`) and `SlotsNeverLeak` (`SlotsAccounted`) come from `SysInv`,
  which adds three parts to the properties: `Trying` (a caller about to try has a
  command and an attempt left); `Holding` (the slots on `rx_pending_list` are
  different, hold events, and together with the slot in hand are all that is in
  use); and `Running` (once late init is over events are held back only while the
  work that hands them over is queued or running; while it runs, the frames it does
  not look at are those it found, or have an interrupt of their own; the handler
  clears the interrupt only with the work queued). A worker in its loop that holds
  nothing always finds a free slot, so it leaves the loop only with the ring empty.
  A frame is left with nobody to fetch it only in the two cases that
  `NoStrandedFrame` names: the worker had no slot, or it handed over held events
  and returned.
- `EventsAreKept` (`EventsKept`): `EventInv` says that each of ring, slots and
  handled list has every number once, that the three sets of numbers are
  disjoint, and that together they are 1 to the number of events sent. A step
  moves a number from one set to the next.
- `RequestsAreSingle`: the same for the numbers of calls on their way through the
  caller's message, the transmit ring, the BP, the receive ring and the slot in
  hand. It is checked by no run, but the refinement needs it.
- `ChannelIsRpc` (`ImplementsRpc`): a step of `MsysRpc` is `Begin` (a caller has a
  command), `Ask` (the request goes out), `Reply` (the BP's answer), `Deliver` (to
  one waiting caller or to nobody) or `Return`; each step of `MdSys` is one of
  these or a stutter. A caller that gave up is still a client until `list_del`, which the
  mapping (`Client`) says by its place.

**`IfcProofs`.** For every number of channels and of users of either kind: whoever
stops or releases a channel owns it (`OwnersStop`: the assertions of the stopping
calls; those of `get_tc` and flush are in `RdaMmc`, where `get_tc` fails in run
`mmc_late`, and those on sizes are not modelled), no two users share a channel
(`OneUserEach`), the votes are those of the channels in use (`VotesAreUse`),
types, and `OnlyRefusalLoses` (`NoChannelLost`). A user stops what it owns because
nobody else could have been handed the channel meanwhile, so the invariant says
that the channel of a user is allocated and recorded as its own; `Accounted` is
its converse, that a channel that is taken is some caller's or was refused.

**`RdaMmcProofs`.** For every number of channels, requests and card changes, and
with one hypothesis on the controller or none.

- Without hypotheses: `TypeCorrect`; `ErrorsHaveCauses` (`ErrorsExplained`), from
  `Causes`, which follows every error back to what set it; `NeverUnreported`, from
  `Results`: whatever way a request takes to its end leaves a result.
- And `NothingIsKept` (`IdleHoldsNothing`), also when interrupts are late, from
  `KeptInv`: until a card has `bounced`, `Ownership` says what the tables of `ifc.c`
  and `pm_ddr.c` are, given the place of the thread and its channel. A late tasklet
  can break it only where the host is `Doomed`: the thread is between the two halves
  of a release of a channel the tasklet released as well, and the next thing it does
  is a BUG_ON. `OnlyTheRace` says that this, the `get_tc` of finding 1, and a card
  that bounced are the only ways to a BUG_ON.
- With `Punctual`: `ChannelsAreOurs` (`ChannelIsOurs`) and `SuccessIsReal`
  (`SuccessMeansMoved`), from `Control` (where thread, controller and tasklet can
  be relative to each other) and `Books` (what is owed there).

`ChannelsAreOurs` needs `Punctual`, as run `mmc_late` shows; what is left without it
is `OnlyTheRace`. `SuccessIsReal` would have little meaning without it, since
`owed` does not tell a late interrupt from the one awaited. No theorem excludes a
card that bounces: the properties themselves say what that does (section 4).

**`RdaCameraProofs`.** For every number of buffers and of lost frames:
`TypeCorrect`, `CameraWritesHeld` (`WritesHeld`), `DoneMeansFilled`
(`DoneIsFilled`: a buffer reported done is one the camera wrote a frame into, torn
frames included, by a work not held up for more than a frame) and `BuffersApart` (no buffer is in two places, and `active` and
`next` are the first two of the list). The invariant needs `Frames`, that the
driver knows, when it moves on at the end of a frame, that there is a next buffer;
`Address`, that the camera was told one of the first two buffers, and that what
the work has read from `p->next` is still one of them; and `Filling`, when the
active buffer is being or has been written. `Grown` and `Shifted` say what
`buffer_queue` and `handle_streaming` do to a list without repetition.

**`WlandBusProofs`.** For every number of callers and packets, every length of the
queue and every range of command numbers.

- `ChipIsAwake` (`ClockKept`), which is inductive, and `TypeCorrect`.
- `SuccessIsTrue` (`OkMeansCarriedOut`): `AnswersAreTrue` says that the answers in the
  receive queue and in the answer buffer are to commands that were carried out;
  `AloneInv` what a caller that is `alone` may rely on: nobody else is inside, and all
  messages under way with its number are its own (`WayIsClear`), and the shared
  message, the control frame and the worker's copy are what it put there
  (`MessageIsOwn`). So the answer it accepts is to its own command.
- `WorkerComes` (`NothingStalls`): `Counted` says that `tx_dpc_tskcnt` and the callers
  that have set `ctrl_frame_stat` but not yet counted it (`Waking`) together are at
  least what is queued, and `WorkerCalled` that a worker at rest with something
  pending is queued, or one of those callers is about to queue it. The argument
  counts a set of callers, hence the assumption that there are finitely many. Two
  callers that find the frame set by each other may count more than there is, so
  nothing is said from above.

**`WlandSmeProofs`.** `LinksAreKnown` (`LinkIsKnown`), which is inductive;
`TypeCorrect`, with the bounds on retries (`Tries`) and on completions left behind
(`Patience`); and, assuming `~ Careless`, `RequestsHaveOneOwner` (`OneOwner`) and
`BusyEnds` (`BusyMeansScanning`). For `OneOwner`, `Hands` says that timer and
report work exist for the request in `cfg->scan_request`, one after the other,
that a report under way has taken it, and that a call which brings a request
finds neither. For `BusyEnds` one must know that an interface that is down has
neither the bit nor a call (`Downs`), and that the timer's event stays in the
queue until it is handled (`Pushing`, `Taking`). The hypothesis is exactly what
finding 3 violates.

The assumptions are those the modules name (`...Assumption`: constants are
positive numbers, disjoint or finite sets, settings and budgets of the right
shape) and the hypotheses named above.

Only model-checked: liveness (`AllFramesRead`, `CallsReturn`, `CallsEnd`,
`HeldEventsHandled`, `RequestsEnd`, `ScansEnd`, `BuffersReturned`), which is out of
the prover's reach, and with it the fairness part of the refinements: `MdFifo` and
`MsysRpc` state none. The four violations are TLC's.

## 6. Plan

1. Done: `MdRing`, `MdFifo`, `MdTx`, `MdRx`; `MsysRpc`, `MdSys`; `Ifc`,
   `IfcClients`, `RdaMmc`; `RdaCamera`; `WlandBus`, `WlandSme`; `ComboPower`;
   proofs of every safety property the passing runs check.
2. Next: the non-temporal halves of the liveness arguments (what each wait can
   rely on, as invariants); `SuccessMeansMoved` with a ghost that tells late
   interrupts apart; what does hold of `WlandSme` with `Careless`; that a power-on
   of `ComboPower` which does not fail gives the completion back.
3. Worth modelling after that: access-point mode and keys of `wland_cfg80211.c`,
   and the hanger of `wland_fwsmgr.c`.

## 7. Not modelled

Of the modem driver: the AT and TRACE ports' interrupt parts and tasklets (no
code in the repository opens the ports), opening and closing ports, probing,
sysfs and debugfs, the client list of the SYS channel (nothing on the channel's
paths reads it). Of `pm_ddr.c`: the VPU frequency adjustment (compiled out). Of
the MMC host: requests without data, `set_ios`, the SDIO interrupt, suspend, and
the error return for a buffer that is not aligned, which reports no error and no
bytes (the block layer aligns its buffers). Of the camera: formats, geometry and
controls, open and close, clocks, the error returns of vb2 before a buffer is
queued. Of the WLAN driver: `wland_p2p.c` (compiled out, wland_defs.h:205),
`wland_usb.c` (not built for this chip), keys, access-point mode, roaming,
scheduled scans, wireless extensions and private ioctls, probe and firmware
download, poll mode, frames of a bad length, aggregation of received frames. Of
the combo chip: the register sequences, and FM, whose vote for the clock
(rda_combo_power_main.c:90) is read, tested and written without a lock.

Whole components: regulators (one cached value in front of one synchronous SYS
call, under the regulator core's mutex), clocks, I2C and GPIO (register sequences
under one lock each), cpufreq (its index is never assigned, so there is nothing
definite to model), sensor tables, the vendored regulatory database, headers and
device trees. `PROJECT.json` gives the reason for each. These, with the vendored
and compiled-out files, are the greater part of the lines.

The memory ordering of the two processors is not modelled either: a step's
writes are visible at once, as with the uncached mapping the driver uses.
