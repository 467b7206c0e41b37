# TLA+ models of usbmuxd's USB layer (src/src/usb.c)

## The system

`usb.c` is usbmuxd's USB device manager. It finds Apple devices through
libusb, negotiates their USB mode and configuration, reads their serial
number, and then passes them to the collaborator (`device.c`,
`device_add`/`device_remove`/`device_data_input`). It also runs the bulk
read/write transfers that carry the multiplexed traffic.

All of it runs on **one thread**. The host loop calls `usb_init`,
`usb_process`, `usb_process_timeout`, `usb_send`, `usb_autodiscover` and
`usb_shutdown`. libusb delivers every callback (transfer completions and
hotplug events) only from inside `libusb_handle_events_timeout`. There are
two such event pumps:

1. `usb_process` / `usb_process_timeout`;
2. the drain loop of `usb_disconnect` (at most 100 × 1 ms). It runs while
   `reap_dead_devices` is iterating `device_list`.

Pump 2 is where the hard cases come from. Callbacks of *other* devices run
in the middle of the reaper's iteration, and so does a read of the device
being disconnected.

### Parts (inventory)

| Part | State in usb.c | Operations |
|---|---|---|
| Device table | `device_list`, `alive` per record | `usb_device_add`, `reap_dead_devices`, `usb_disconnect` |
| Transfer registry | `rx_xfers`, `tx_xfers`, libusb's in-flight list | `start_rx_loop`, `rx_callback`, `usb_send`, `tx_callback`, cancel/drain/force-free |
| Handshake chain | which control transfer is in flight | `get_mode_cb` → (`switch_mode_cb`) → `device_complete_initialization` → `get_langid_callback` → `get_serial_callback` |
| Configuration selector | descriptors, active configuration | `guess_mode`, the switch decision of `get_mode_cb`, `set_valid_configuration` |
| Serial decoding | `serial[256]` | UTF-16 decoding in `get_serial_callback` (pure) |
| Event pump / polling | `device_polling`, `next_dev_poll_time`, `devlist_failures` | `usb_process`, `usb_process_timeout`, `usb_discover`, `usb_autodiscover` |
| Hotplug | registration handle | `usb_hotplug_cb` (arrived / left) |
| Init / shutdown | libusb context | `usb_init`, `usb_shutdown` |
| Accessors | — | `usb_get_serial/location/pid/speed`, `usb_get_fds`, `usb_get_timeout` |

The parts interact through `alive`. Errors, hotplug *left* and the
`usb_discover` sweep clear it. `usb_device_add` and
`device_complete_initialization` set it. `reap_dead_devices` acts on it
after every pump.

## Modules

| Module | Models | Kind |
|---|---|---|
| `UsbDeviceManager` (+ `MC_UsbDeviceManager`) | device table, transfer registry, handshake chain, hotplug, pumps, reaper, init/shutdown | state machine of the whole thread |
| `UsbSend` | `usb_send` and `tx_callback` (lines 173-240) | state machine of one device's write side |
| `UsbRead` | the read loops: the end of `get_serial_callback` (353-375) and `rx_callback` (245-289) | state machine of one device's read side |
| `UsbBulk` | `UsbSend` and `UsbRead` on the same device, sharing `alive` | composition |
| `UsbSerial` (+ `MC_UsbSerial`) | the decoding loop and hyphenation of `get_serial_callback` (310-342) | RECURSIVE operator, one-step machine |
| `UsbModeSelect` (+ `MC_UsbModeSelect`) | `guess_mode` (437-505) and its use in `get_mode_cb` (744-774) | operator, one-step machine |
| `UsbConfig` (+ `MC_UsbConfig`) | `set_valid_configuration` (508-600) | RECURSIVE loops, one-step machine |
| `UsbPoll` (+ `MC_UsbPoll`) | `next_dev_poll_time`, `dev_poll_remain_ms`, `usb_get_timeout`, `usb_process`, `usb_process_timeout`, the timing of `usb_discover` (851-1048) | state machine with a clock |

PROJECT.json's `map` gives, for every definition that models code, the
lines it translates. Definitions keep the C names.

### UsbDeviceManager

`MC_UsbDeviceManager.tla` gives the locations as model values (`l1`,
`l2`). State (see the VARIABLES comments):

- `dev` is `device_list`, a function from location (bus, address) to a
  record or `NoDev`. A record holds:
  - `alive`;
  - `stage`, the control transfer of the handshake in flight, or `run`,
    `switched`, `halted`;
  - `rx`/`tx`, the sizes of the collections;
  - `rxFly`/`txFly`, libusb's in-flight transfers of the record, split by
    whether a cancel was requested;
  - `doomed`, a history flag set when `alive` is cleared by an error or a
    departure. The sweep's provisional clear does not set it.
- `held` is the set of records passed to `device_add` and not yet to
  `device_remove`.
- `pc`/`ret`/`visited`/`draining` are where the single thread is.
  `visited` is what the current reap FOREACH has passed. `draining` is the
  record whose `usb_disconnect` is pumping.
- `present`, `hpq` and `registered` model the environment. Devices are
  attached and detached, and libusb queues hotplug events in order while
  the callback is registered.

Each callback is one atomic step of a pump. The reaper is `ReapVisit(k)`
per element, plus `DrainEnd` when the bounded drain of `usb_disconnect`
ends. The drain may end while transfers are still listed, because its
100 ms timeout is modelled as a nondeterministic choice. `usb_disconnect`
called from inside a callback (failed `device_add`) cannot pump events,
since libusb is busy, so it is atomic there. `usb_init` registers the
hotplug callback where libusb supports it; registration may fail, and
the code then stays in polling mode (lines 1102-1108).

Data is abstracted. Descriptors, modes, serials and lengths only choose a
branch, and every branch the data and libusb allow can happen. A detached
device fails every submission and completes only with errors; with
`LibusbMayFail`, an attached one may fail too. The data these branches
depend on is modelled in the four modules below.

### UsbSend

The k-th `usb_send` call passes buffer `<<k, "data">>`, and its ZLP buffer
is `<<k, "zlp">>`. `wire` is the sequence of transfers libusb accepted, in
submission order. `flying`, `txXfers` and `freed` are libusb's in-flight
transfers, `dev->tx_xfers`, and the number of times `tx_callback` freed a
buffer. Who owns a buffer is derived from this state: the caller after an
error return, libusb while a transfer over it is in flight, nobody once it
is freed.

### UsbRead and UsbBulk

The device's data is a stream of chunks numbered 1, 2, ... (up to
`MaxChunks`). `pipe` is the queue of read transfers submitted on `ep_in`;
the host controller fills and completes them oldest first, and libusb
runs their callbacks in that order. `next` is the next chunk the device
sends.

- `StartRxLoops` is the loop at the end of `get_serial_callback`: up to
  `NUM_RX_LOOPS` calls of `start_rx_loop`, stopping at the first failure;
  with none started the device is removed at once.
- `Complete` is a completion of the head of the pipe followed by
  `rx_callback`. On success the buffer goes to `device_data_input` and the transfer
  resubmitted (to the back of the pipe; the result is not checked). On
  any error status the transfer leaves `rx_xfers` and the device is
  doomed. A failed transfer may have swallowed a chunk (`Lost`).
- `DoomedElsewhere` is any other path clearing `alive` (a failed write, a
  departure, the sweep); `Reap` is `reap_dead_devices`.

`UsbBulk` instantiates `UsbSend` and `UsbRead` with the same `alive`. Each
step is a step of one side with the other side's variables unchanged:
writes go out only while the record is running, and the write
completions still run after it is reaped.

### UsbSerial

The buffer is the one `device_complete_initialization` zeroes
(lines 634-640). The language-ID answer is written into it first, and the
serial answer after that. Past `actual_length`, the buffer still holds
the language-ID bytes, and zeros past those. `Init` builds exactly these
buffers from 2-byte units of a small alphabet:

- ASCII;
- non-ASCII low byte;
- non-zero high byte;
- NUL unit;
- `<<0, 1>>`.

`DeUnicode` is the C loop as a RECURSIVE operator. `SpecSerial` is the
decoding of spec §4.6, written independently with `SelectInSeq` and
`InsertAt`. The serial's sizes are constants, so that short descriptors
reach the hyphenation. As in the code, where a descriptor of at most 255
bytes has at most 126 units, serial[] holds every unit the loop can read,
so the loop's `di < sizeof(serial) - 1` bound never stops it (an ASSUME
keeps the scaled sizes so):

| Constant | Model | Code |
|---|---|---|
| `SERIAL_SIZE` | 6 | 256 |
| `UDID_LEN` | 2 | 24 |
| `HYPHEN_POS` | 1 | 8 |

### UsbModeSelect

An interface is its `<<class, subclass, protocol>>` triple. Configuration 5
is any subset of five triples:

- usbmux;
- Valeria;
- CDC-NCM;
- a near-miss of usbmux;
- an unrelated one.

Configuration 5 may also be unreadable (`NoDesc`). `SpecMode` is
spec §4.4's classification.

### UsbConfig

An interface is whether it matches the usbmux class test, and the
directions of its endpoints. The inputs are whether each libusb call
succeeds: `libusb_get_configuration`, each `get_config_descriptor_by_value`
and each `set_configuration`. The configuration loop and the interface loop
are RECURSIVE operators that carry the function's `found` flag as the code
does. `Best` and `FirstUsable` are spec §4.5's selection.

### UsbPoll

`now` is the tick count in microseconds. The timevals the code computes
are `[sec, usec]` records, compared and subtracted as the code does. C
division truncates towards zero (`CDiv`). A `long` stored into an `int`
keeps its low `IntBits` bits (`ToInt`), as gcc does.

The host, which is not in this repository, does one of two things:

- asks `usb_get_timeout`, waits at most that long, and calls `usb_process`;
- or calls `usb_process_timeout(msec)`.

`usb_autodiscover` may toggle polling between calls. The waits are chosen
from `Delays`. `devlist_failures` saturates at `MaxFailures` (7), past
which the code behaves the same (`> 5`).

## Runs

| Run | cfg | Result | Bounds |
|---|---|---|---|
| hotplug_safety | MC_hotplug | pass (1.3M states, ~50 s) | 1 location, 2 rx loops, 2 plug events, 2 inits, libusb (and hotplug registration) may fail |
| two_devices | MC_two_devices | pass (3.7M, ~2 min) | 2 locations, hotplug, 1 rx loop, 1 plug event, 1 send, libusb may fail |
| hotplug_liveness | MC_hotplug_live | pass (90k, FairSpec) | 1 location, 1 rx loop, 1 plug event, registration may fail |
| freed_in_flight | MC_freed_in_flight | violation | |
| doomed_revived | MC_doomed_revived | violation | |
| serial_decoding | MC_serial | pass (114k) | bLength ≤ 10 (4 units), actual_length 11 |
| bulk_engine | MC_bulk (UsbBulk) | pass (44k, FairSpec, ~5 s) | 3 sends of length 1-2, wMaxPacketSize 2, data submission may fail; 3 rx loops, 4 chunks, reads and first submissions may fail |
| send_zlp_failure | MC_send_zlp_fail | violation | one length-2 send, ZLP submission fails |
| mode_select | MC_modes | pass (3.2k) | 1-7 configurations, desired 0-6, any configuration 5 |
| config_select | MC_config | pass (3.9M, ~35 s) | ≤ 3 configurations of ≤ 2 interfaces, every read may fail |
| config_set_failure | MC_config_setfail | violation | ≤ 2 configurations of 1 interface, set may fail |
| poll_timing | MC_poll | pass (910k) | start at 1 s or 1.0005 s, waits 0 / 999.5 ms / 1 s, up to 7 s |

### What holds

- **TransfersTracked**: every tx transfer listed is in flight, and no
  more rx transfers are in flight than listed.
- **CollaboratorHoldsOnlyListed**: the collaborator never holds a record
  that `device_list` no longer has. Without this, `device_data_input` and
  `usb_send` would touch freed memory.
- **DetachedEventuallyRemoved**: a detached device's record leaves the
  list in the end, as long as hotplug is registered or polling is on.
  With neither (`usb_autodiscover(0)` after a failed registration),
  nothing watches for departures.
- **SerialMatchesSpec**: for every well-formed descriptor, the stored
  serial is spec §4.6's decoding, with the hyphen.
- **SingleOwner**: with reliable ZLP submission, every buffer has exactly
  one owner and is freed at most once. This holds while failed reads doom
  the device under the writes, and after the record is reaped with writes
  still in flight.
- **ReadsKeepFlowing** (liveness): while the device is live and has data,
  reading goes on, when resubmission does not fail. It holds while writes
  complete and fail in between.
- **GuessMatchesSpec**: for 1-7 configurations.
- **SelectionMatchesSpec**: when `libusb_set_configuration` succeeds, the
  function picks the first usable usbmux interface of the highest
  readable configuration. It takes the endpoints by direction in either
  order, and that configuration is active.
- **TimeoutWithinPollDeadline**: the host is never told to sleep a full
  millisecond past the rediscovery deadline.
- **ProcessTimeoutHonoursDeadline**: `usb_process_timeout` hands libusb
  exactly the normalised time left, and returns 0 only after its deadline.

### What fails (the `findings` of PROJECT.json)

- **freed_in_flight**: the forced cleanup after the drain timeout frees
  transfers that libusb still has in flight.
- **doomed_revived** (usb.c 785): `usb_device_add`, called by a
  rediscovery for every record still listed, sets alive on a record that
  an error or a departure doomed before the reaper ran.
- **send_zlp_failure** (usb.c 232): a failed ZLP submission returns an
  error although the data transfer already owns the caller's buffer and
  `tx_callback` will free it. The ZLP buffer leaks.
- **config_set_failure** (usb.c 583-587): after `libusb_set_configuration`
  fails, `found` stays set. The function can then return 0 with an
  interface of a configuration that is not active, or with none set.
  Spec §4.5 says such a failure dooms the device. In the code only the
  following `libusb_claim_interface` (621), which will usually fail on an
  inactive configuration, dooms it.

### Further counterexamples

Each of these cfg files makes TLC report its property violated:
`tlc -config <cfg> <module>`. They are disagreements found while
modelling, listed here rather than as runs.

| cfg | module | property | what the code does |
|---|---|---|---|
| MC_drain_uncancelled | MC_UsbDeviceManager | DisconnectCancelsAll | `rx_callback` resubmits during the drain a read that was never cancelled (251) |
| MC_remove_unheld | MC_UsbDeviceManager | RemoveOnlyHeld | `usb_shutdown` and `reap_dead_devices` call `device_remove` for records never passed to `device_add` (1131, 166), and hotplug left (1065) calls it before the reaper calls it again |
| MC_read_deaf | UsbRead | ReadsKeepFlowing | every read loop's resubmission fails unnoticed (251): the device stays live and listed, and is never read again |
| MC_stalled_chain | MC_UsbDeviceManager | StalledChainIsDoomed | a langid/serial failure returns without clearing alive (315-318, 384-388, 401-404); spec §7 says the device is dead |
| MC_rx_drift | MC_UsbDeviceManager | RxSetTracksFlight | a failed rx resubmission stays in `rx_xfers` (251) |
| MC_serial_overread | MC_UsbSerial | SerialFromReceivedBytes | the loop trusts bLength: it reads one byte past an odd descriptor, and reads stale language-ID bytes past `actual_length` (323) |
| MC_send_empty | UsbSend | FramingOnWire | a zero-length write gets a ZLP (226); spec §4.7 and §8 say it does not |
| MC_modes_single | MC_UsbModeSelect | SingleConfigNotSwitched | with the default desired mode 1, a one-configuration device (guessed 5) is asked to switch (742-751); spec §8 says no switch |
| MC_modes_noconfig | MC_UsbModeSelect | GuessMatchesSpec | bNumConfigurations = 0 is guessed initial (450); the spec leaves it undetermined |
| MC_poll_wrap | MC_UsbPoll | TimeoutWithinPollDeadline | polling enabled with `next_dev_poll_time` more than 2^31 ms (24.8 days) in the past makes the int remaining time wrap. The host is told to sleep, and rediscovery does not run (970). With `IntBits = 20`, 524 s stands for 24.8 days. |
| MC_poll_early | MC_UsbPoll | NoEarlyDiscovery | truncation of the microsecond difference makes usb_process rediscover up to 1 ms before the deadline (971) |

### Why the bounds are enough

- One location with failing libusb reaches every branch of every callback
  and every error path; a failed hotplug registration reaches polling mode, and two inits give a restart after shutdown.
- Two locations are needed for the cross-device interleaving inside the
  drain.
- Two plug events give detach followed by re-attach at the same address.
- UsbSend (in UsbBulk): lengths 1 and 2 against a packet size of 2 give
  both multiples and non-multiples. Three sends interleave completions of
  several writes and their ZLPs.
- UsbRead: three loops (the code's `NUM_RX_LOOPS`) and four chunks, one
  more than the loops, so resubmitted transfers complete again after the
  first round and a failure can fall between deliveries.
- UsbSerial: four units reach the NUL unit, the non-ASCII cases and the
  hyphen (2 characters).
- UsbModeSelect covers every threshold of `guess_mode`.
- UsbConfig: three configurations of two interfaces reach a lower usable
  configuration behind a higher unusable one, both endpoint orders, and
  unreadable descriptors.
- UsbPoll: 7 s reach the sixth consecutive failed discovery. Waits of
  999.5 ms and 1 s give timevals on both sides of the microsecond borrow.

### Fairness

`UsbDeviceManager.FairSpec` is justified by usbmuxd's main loop, which
calls `usb_process` on every iteration:

- **strong fairness** on:
  - the host calling `usb_process`;
  - the exit of `usb_process_timeout`'s loop, since its deadline passes
    (UsbPoll checks the loop waits only for the time left);
  - the delivery of queued hotplug events;
  - an error completion of a detached device's transfer;
  - a poll-due discovery;
- **weak fairness** on the steps of the reaper and the drain, and on the
  exit from pumps and from shutdown.

`UsbRead.FairSpec` and `UsbBulk.FairSpec` have weak fairness on a read completing only while
the device has data left (`next <= MaxChunks`): a read waits for the
device to send, and a device with nothing to send leaves it pending.

Deadlock is checked in every run. The one-step machines stutter in
`Decoded`, `Decided` and `Returned`. The device manager's `Terminated`
allows the final state after the last `usb_shutdown`.

## Not modelled

- The accessors `usb_get_serial/location/pid/speed` and `usb_get_fds`
  return fields or copy libusb's descriptor list, and change no state.
- The address change after an accepted mode switch (712) is
  re-enumeration by the device, which is outside the code.
- Kernel-driver detaching in `set_valid_configuration` only logs on
  failure.
- Logging and the device descriptor fields used only for logs.
- What the collaborator does with the data of a read: `UsbDeviceManager`
  counts reads, and does not record which record a completed read's data
  is passed to. During the drain of a reaped record, `rx_callback` still
  calls `device_data_input` (250) after `device_remove`; `device.c` is
  not in this repository, so no property states whether that is allowed.
- Control transfers of the handshake are not in `rx_xfers`/`tx_xfers`, so
  `usb_disconnect` does not cancel them. The model assumes, as libusb
  does, that `libusb_close` drops a handle's transfers without calling
  back, so a reaped record's handshake simply ends.
