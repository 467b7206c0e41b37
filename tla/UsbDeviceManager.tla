-------------------------- MODULE UsbDeviceManager --------------------------
(***************************************************************************)
(* The USB device manager of usbmuxd (src/src/usb.c).                      *)
(*                                                                         *)
(* One thread runs everything: the host loop calls usb_process, usb_send,  *)
(* usb_autodiscover, usb_init and usb_shutdown, and every libusb callback  *)
(* (transfer completions and hotplug events) fires inside an event pump:   *)
(* the libusb_handle_events_timeout of usb_process, or the one inside      *)
(* usb_disconnect's drain loop, which runs while reap_dead_devices is      *)
(* iterating the device list.  A callback is one atomic step.              *)
(*                                                                         *)
(* The device list is a function from location (bus, address) to a        *)
(* record.  Per record the model keeps the code's alive flag, the stage of *)
(* the handshake chain (which control transfer is in flight), the counts   *)
(* of the rx_xfers and tx_xfers collections, and libusb's view: how many   *)
(* bulk transfers of the record are in flight, split by whether a cancel   *)
(* has been requested.  libusb_close drops every transfer of the handle   *)
(* from libusb's flying list (no callback is delivered afterwards), so a   *)
(* transfer in flight always belongs to a listed record.                   *)
(*                                                                         *)
(* Data is abstracted away: descriptors, the requested mode, serials and   *)
(* payload lengths only decide which branch the code takes, and the model  *)
(* lets every branch the data allows happen.                               *)
(***************************************************************************)
EXTENDS Naturals, Sequences, FiniteSets, Functions

CONSTANTS
  Loc,            \* locations (bus, address) at which Apple devices appear
  NoDev,          \* model value: no record in device_list at a location
  NUM_RX_LOOPS,   \* parallel read transfers per device (3 in usb.c)
  Hotplug,        \* libusb supports hotplug and registration succeeds
  LibusbMayFail,  \* libusb_open/submit/get_device_list may fail on an attached device
  MaxPlugs,       \* bound on device attach/detach events
  MaxSends,       \* bound on usb_send calls
  MaxInits        \* bound on usb_init calls

ASSUME
  /\ NoDev \notin Loc
  /\ NUM_RX_LOOPS \in Nat \ {0}
  /\ Hotplug \in BOOLEAN /\ LibusbMayFail \in BOOLEAN
  /\ {MaxPlugs, MaxSends, MaxInits} \subseteq Nat

\* devlist_failures above which usb_discover reports a fatal error
MAX_DEVLIST_FAILURES == 5

VARIABLES
  present,    \* [Loc -> BOOLEAN]: the device is physically attached
  plugs,      \* attach/detach events so far
  hpq,        \* hotplug events libusb has queued, in order
  registered, \* the hotplug callback is registered
  dev,        \* device_list: [Loc -> Record \cup {NoDev}]
  held,       \* locations whose record the collaborator (device.c) holds:
              \* device_add succeeded and device_remove was not yet called
  pc,         \* where the single thread is
  ret,        \* whose reap loop runs: "process", "timeout", "discover", "shutdown"
  visited,    \* locations the running reap FOREACH has visited
  draining,   \* location usb_disconnect is draining (pc = "drain")
  polling,    \* device_polling
  hotplugOn,  \* device_hotplug
  failures,   \* devlist_failures
  sends,      \* usb_send calls so far
  inits,      \* usb_init calls so far
  freedInFlight, \* history: a transfer libusb still had in flight was freed
  badRemove      \* history: device_remove was called for a record not held

vars == <<present, plugs, hpq, registered, dev, held, pc, ret, visited,
          draining, polling, hotplugOn, failures, sends, inits,
          freedInFlight, badRemove>>

-----------------------------------------------------------------------------
(* Records                                                                  *)

\* stage: the control transfer of the handshake chain in flight
\* ("getmode", "setmode", "langid", "serial"), "run" once the rx loops are
\* started, "switched" after the device accepted a mode switch, "halted"
\* when the chain ended without starting the rx loops.
ChainStages == {"getmode", "setmode", "langid", "serial"}
Stages == ChainStages \cup {"run", "switched", "halted"}

NoFly == [c \in BOOLEAN |-> 0]

Record == [alive: BOOLEAN, stage: Stages, rx: Nat, tx: Nat,
           rxFly: [BOOLEAN -> Nat], txFly: [BOOLEAN -> Nat], doomed: BOOLEAN]

Listed(k) == dev[k] # NoDev
ListedLocs == {k \in Loc : Listed(k)}

\* transfers of kind "rx"/"tx" of record r that libusb has in flight
Flying(r, kind) == SumFunction(IF kind = "rx" THEN r.rxFly ELSE r.txFly)

\* the spec's "doomed": alive cleared by an error, a departure or a failed
\* step, as opposed to the provisional clear of usb_discover's sweep
Doom(r) == [r EXCEPT !.alive = FALSE, !.doomed = TRUE]

\* libusb_submit_transfer fails on a detached device, and may fail on an
\* attached one when LibusbMayFail
SubmitResults(k) ==
  IF ~present[k] THEN {FALSE}
  ELSE IF LibusbMayFail THEN BOOLEAN ELSE {TRUE}

\* the status a completion may carry: a detached device only yields
\* errors (NO_DEVICE, ERROR, CANCELLED); an attached one may complete, or
\* stall/overflow/time out.  A cancel may lose the race with completion.
Completed(k) == IF present[k] THEN BOOLEAN ELSE {FALSE}

-----------------------------------------------------------------------------
(* usb_device_add (usb.c 776-850) applied to location k whose current list *)
(* entry is r.  choice is the outcome the data and libusb select.          *)

AddChoices(r, k) ==
  IF r # NoDev THEN {"found"}
  ELSE IF ~present[k] THEN {"open_fail"}
  ELSE {"submitted"} \cup (IF LibusbMayFail THEN {"open_fail", "submit_fail"} ELSE {})

NewRecord == [alive |-> TRUE, stage |-> "getmode", rx |-> 0, tx |-> 0,
              rxFly |-> NoFly, txFly |-> NoFly, doomed |-> FALSE]

usb_device_add(r, choice) ==
  CASE choice = "found"       -> [r EXCEPT !.alive = TRUE]
    [] choice = "open_fail"   -> NoDev
    [] choice = "submitted"   -> NewRecord
    [] choice = "submit_fail" -> Doom([NewRecord EXCEPT !.stage = "halted"])

\* usb_device_add on every location in S, each with its own outcome
AddAll(list, S) ==
  \E choice \in [Loc -> {"found", "open_fail", "submitted", "submit_fail"}] :
    /\ \A k \in S : choice[k] \in AddChoices(list[k], k)
    /\ dev' = [k \in Loc |-> IF k \in S THEN usb_device_add(list[k], choice[k])
                                         ELSE list[k]]

-----------------------------------------------------------------------------
(* device_complete_initialization (usb.c 602-695): set_valid_configuration, *)
(* claim, then submit the language-ID request.  On success it sets          *)
(* alive = 1 whatever the flag was before (line 648).                       *)

\* configuration selection depends on the descriptors, so it may fail on
\* an attached device; every step fails on a detached one
DCIResults(k) == IF present[k] THEN BOOLEAN ELSE {FALSE}

device_complete_initialization(r, ok) ==
  IF ok THEN [r EXCEPT !.alive = TRUE, !.stage = "langid"]
        ELSE Doom([r EXCEPT !.stage = "halted"])

\* usb_disconnect (usb.c 85-161) once its drain loop has ended: force
\* cleanup of what is still in the collections, release, close (libusb drops
\* the handle's transfers), free.
DisconnectFinish(k) ==
  /\ freedInFlight' = (freedInFlight \/
                        ((dev[k].rx + dev[k].tx > 0) /\
                         (Flying(dev[k], "rx") + Flying(dev[k], "tx") > 0)))
  /\ dev' = [dev EXCEPT ![k] = NoDev]

\* device_remove, the collaborator's notification
device_remove(k) ==
  /\ held' = held \ {k}
  /\ badRemove' = (badRemove \/ k \notin held)


\* usb_disconnect up to its drain loop: cancel every transfer of both
\* collections; the loop does not run when both are empty.
Cancelled(r) ==
  [r EXCEPT !.rxFly = [c \in BOOLEAN |-> IF c THEN Flying(r, "rx") ELSE 0],
            !.txFly = [c \in BOOLEAN |-> IF c THEN Flying(r, "tx") ELSE 0]]

usb_disconnect(k) ==
  LET r == Cancelled(dev[k]) IN
  IF r.rx + r.tx = 0
  THEN /\ dev' = [dev EXCEPT ![k] = NoDev]
       /\ visited' = visited \cup {k}
       /\ UNCHANGED <<pc, draining, freedInFlight>>
  ELSE /\ dev' = [dev EXCEPT ![k] = r]
       /\ pc' = "drain"
       /\ draining' = k
       /\ UNCHANGED <<visited, freedInFlight>>

-----------------------------------------------------------------------------
(* Environment: devices are attached and detached; libusb queues a hotplug  *)
(* event while the callback is registered.  Attaching at a location that    *)
(* was used before models address reuse.                                    *)

Attach(k) ==
  /\ ~present[k] /\ plugs < MaxPlugs
  /\ present' = [present EXCEPT ![k] = TRUE]
  /\ plugs' = plugs + 1
  /\ hpq' = IF registered THEN Append(hpq, [ev |-> "arrived", loc |-> k]) ELSE hpq
  /\ UNCHANGED <<registered, dev, held, pc, ret, visited, draining, polling,
                 hotplugOn, failures, sends, inits, freedInFlight, badRemove>>

Detach(k) ==
  /\ present[k] /\ plugs < MaxPlugs
  /\ present' = [present EXCEPT ![k] = FALSE]
  /\ plugs' = plugs + 1
  /\ hpq' = IF registered THEN Append(hpq, [ev |-> "left", loc |-> k]) ELSE hpq
  /\ UNCHANGED <<registered, dev, held, pc, ret, visited, draining, polling,
                 hotplugOn, failures, sends, inits, freedInFlight, badRemove>>

-----------------------------------------------------------------------------
(* usb_discover (usb.c 852-905): fetch the list; on success clear every    *)
(* alive flag, usb_device_add each attached device, then reap.             *)

\* mutant: the devlist_failures limit is never enforced
usb_discover_no_limit(f) ==
  \/ /\ LibusbMayFail
     /\ failures' = f + 1 /\ pc' = "idle"
     /\ UNCHANGED <<dev, ret, visited>>
  \/ /\ failures' = 0
     /\ AddAll([k \in Loc |-> IF Listed(k) THEN [dev[k] EXCEPT !.alive = FALSE]
                                           ELSE NoDev],
               {k \in Loc : present[k]})
     /\ pc' = "reap" /\ ret' = "discover" /\ visited' = {}

\* f is devlist_failures on entry
usb_discover(f) ==
  \/ /\ LibusbMayFail
     /\ failures' = f + 1
     /\ pc' = IF f + 1 > MAX_DEVLIST_FAILURES THEN "failed" ELSE "idle"
     /\ UNCHANGED <<dev, ret, visited>>
  \/ /\ failures' = 0
     /\ AddAll([k \in Loc |-> IF Listed(k) THEN [dev[k] EXCEPT !.alive = FALSE]
                                           ELSE NoDev],
               {k \in Loc : present[k]})
     /\ pc' = "reap" /\ ret' = "discover" /\ visited' = {}

\* libusb_hotplug_register_callback succeeds only where libusb supports
\* hotplug, and may fail when LibusbMayFail
RegisterResults ==
  IF ~Hotplug THEN {FALSE} ELSE IF LibusbMayFail THEN BOOLEAN ELSE {TRUE}

\* usb_init (usb.c 1076-1120): when registration succeeds, it enumerates
\* the attached devices through the arrival callback and turns polling
\* off; otherwise polling stays on and one discovery pass runs.
usb_init ==
  /\ pc = "off" /\ inits < MaxInits
  /\ inits' = inits + 1
  /\ \E reg \in RegisterResults :
     IF reg
     THEN /\ registered' = TRUE /\ polling' = FALSE /\ failures' = 0
          /\ AddAll(dev, IF hotplugOn THEN {k \in Loc : present[k]} ELSE {})
          /\ pc' = "idle"
          /\ UNCHANGED <<ret, visited>>
     ELSE /\ registered' = FALSE /\ polling' = TRUE
          /\ usb_discover(0)
  /\ UNCHANGED <<present, plugs, hpq, held, draining, hotplugOn, sends,
                 freedInFlight, badRemove>>

\* usb_shutdown (usb.c 1122-1136): deregister, then disconnect every device
usb_shutdown ==
  /\ pc \in {"idle", "failed"}
  /\ registered' = FALSE /\ hpq' = <<>>
  /\ pc' = "reap" /\ ret' = "shutdown" /\ visited' = {}
  /\ UNCHANGED <<present, plugs, dev, held, draining, polling, hotplugOn,
                 failures, sends, inits, freedInFlight, badRemove>>

\* usb_autodiscover (usb.c 956-961)
usb_autodiscover(b) ==
  /\ pc = "idle"
  /\ polling' = b /\ hotplugOn' = b
  /\ UNCHANGED <<present, plugs, hpq, registered, dev, held, pc, ret, visited,
                 draining, failures, sends, inits, freedInFlight, badRemove>>

\* usb_process (usb.c 998-1020): handle events, reap, discover when due
usb_process ==
  /\ pc = "idle" /\ pc' = "events" /\ ret' = "process"
  /\ UNCHANGED <<present, plugs, hpq, registered, dev, held, visited,
                 draining, polling, hotplugOn, failures, sends, inits,
                 freedInFlight, badRemove>>

\* usb_process_timeout (usb.c 1022-1048): handle events and reap until the
\* deadline passes; never discovers
usb_process_timeout ==
  /\ pc = "idle" /\ pc' = "events" /\ ret' = "timeout"
  /\ UNCHANGED <<present, plugs, hpq, registered, dev, held, visited,
                 draining, polling, hotplugOn, failures, sends, inits,
                 freedInFlight, badRemove>>

\* libusb_handle_events_timeout returns: reap_dead_devices starts
EventsDone ==
  /\ pc = "events"
  /\ pc' = "reap" /\ visited' = {}
  /\ UNCHANGED <<present, plugs, hpq, registered, dev, held, ret, draining,
                 polling, hotplugOn, failures, sends, inits, freedInFlight,
                 badRemove>>

\* mutant: reap_dead_devices disconnects without calling device_remove
ReapVisit_no_remove(k) ==
  /\ pc = "reap" /\ Listed(k) /\ k \notin visited
  /\ IF ret # "shutdown" /\ dev[k].alive
     THEN /\ visited' = visited \cup {k}
          /\ UNCHANGED <<dev, held, pc, draining, freedInFlight, badRemove>>
     ELSE usb_disconnect(k) /\ UNCHANGED <<held, badRemove>>
  /\ UNCHANGED <<present, plugs, hpq, registered, ret, polling, hotplugOn,
                 failures, sends, inits>>

\* one iteration of reap_dead_devices (usb.c 163-170), or of the FOREACH of
\* usb_shutdown, which disconnects whatever the alive flag says
ReapVisit(k) ==
  /\ pc = "reap" /\ Listed(k) /\ k \notin visited
  /\ IF ret # "shutdown" /\ dev[k].alive
     THEN /\ visited' = visited \cup {k}
          /\ UNCHANGED <<dev, held, pc, draining, freedInFlight, badRemove>>
     ELSE device_remove(k) /\ usb_disconnect(k)
  /\ UNCHANGED <<present, plugs, hpq, registered, ret, polling, hotplugOn,
                 failures, sends, inits>>

\* the drain loop of usb_disconnect ends: the collections emptied, or the
\* 100 ms bound expired (or handle_events failed) with transfers pending
DrainEnd ==
  /\ pc = "drain"
  /\ DisconnectFinish(draining)
  /\ visited' = visited \cup {draining}
  /\ pc' = "reap"
  /\ UNCHANGED <<present, plugs, hpq, registered, held, ret, draining,
                 polling, hotplugOn, failures, sends, inits, badRemove>>

\* the FOREACH is over: return to the caller of the reap.  usb_process
\* then runs usb_discover when polling and the poll time has come
\* (dev_poll_remain_ms, lines 963-975); time is not modelled, so the poll
\* may or may not be due.
ReapDoneUnchanged == UNCHANGED <<present, plugs, registered, held, draining,
                                 polling, hotplugOn, sends, freedInFlight,
                                 badRemove>>

ReapDone == pc = "reap" /\ ListedLocs \subseteq visited

ProcessDone ==
  /\ ReapDone /\ ret \in {"process", "discover"}
  /\ pc' = "idle"
  /\ UNCHANGED <<hpq, dev, ret, visited, failures, inits>>
  /\ ReapDoneUnchanged

PollDiscover ==
  /\ ReapDone /\ ret = "process" /\ polling
  /\ usb_discover(failures)
  /\ UNCHANGED <<hpq, inits>>
  /\ ReapDoneUnchanged

\* usb_process_timeout loops while the deadline has not passed
TimeoutLoop ==
  /\ ReapDone /\ ret = "timeout"
  /\ pc' \in {"events", "idle"}
  /\ UNCHANGED <<hpq, dev, ret, visited, failures, inits>>
  /\ ReapDoneUnchanged

\* the deadline of usb_process_timeout has passed
TimeoutExpires == TimeoutLoop /\ pc' = "idle"

ShutdownDone ==
  /\ ReapDone /\ ret = "shutdown"
  /\ pc' = "off" /\ hpq' = <<>>
  /\ UNCHANGED <<dev, ret, visited, failures, inits>>
  /\ ReapDoneUnchanged

-----------------------------------------------------------------------------
(* The collaborator sends on a device it holds, from the host loop or from *)
(* inside a callback (device_data_input answers the device).               *)
(* usb_send (usb.c 215-240): submit the payload; when its length is a      *)
(* multiple of wMaxPacketSize also submit a zero-length packet.  Either    *)
(* submission may fail; a failed ZLP leaves the payload in flight.         *)

CollaboratorRuns == pc \in {"idle", "events", "drain"}

usb_send(k) ==
  /\ CollaboratorRuns /\ k \in held /\ Listed(k) /\ sends < MaxSends
  /\ sends' = sends + 1
  /\ \E ok \in SubmitResults(k), zlp \in BOOLEAN, zlpOk \in SubmitResults(k) :
       LET n == IF ~ok THEN 0 ELSE IF zlp /\ zlpOk THEN 2 ELSE 1 IN
       dev' = [dev EXCEPT ![k].tx = @ + n, ![k].txFly[FALSE] = @ + n]
  /\ UNCHANGED <<present, plugs, hpq, registered, held, pc, ret, visited,
                 draining, polling, hotplugOn, failures, inits, freedInFlight,
                 badRemove>>

-----------------------------------------------------------------------------
(* Callbacks.  They fire only while an event pump runs.                     *)

Pumping == pc \in {"events", "drain"}

CallbackUnchanged == UNCHANGED <<present, plugs, hpq, registered, pc, ret,
                                 visited, draining, polling, hotplugOn,
                                 failures, sends, inits>>

SetDev(k, r) == dev' = [dev EXCEPT ![k] = r]

\* usb_hotplug_cb (usb.c 1053-1073), DEVICE_ARRIVED
hotplug_arrived ==
  /\ Pumping /\ hpq # <<>> /\ Head(hpq).ev = "arrived"
  /\ hpq' = Tail(hpq)
  /\ IF hotplugOn THEN AddAll(dev, {Head(hpq).loc}) ELSE UNCHANGED dev
  /\ UNCHANGED <<present, plugs, registered, held, pc, ret, visited, draining,
                 polling, hotplugOn, failures, sends, inits, freedInFlight,
                 badRemove>>

\* mutant: the departure notifies the collaborator but leaves alive set
hotplug_left_keeps_alive ==
  /\ Pumping /\ hpq # <<>> /\ Head(hpq).ev = "left"
  /\ hpq' = Tail(hpq)
  /\ LET k == Head(hpq).loc IN
       IF Listed(k) THEN UNCHANGED dev /\ device_remove(k)
                    ELSE UNCHANGED <<dev, held, badRemove>>
  /\ UNCHANGED <<present, plugs, registered, pc, ret, visited, draining,
                 polling, hotplugOn, failures, sends, inits, freedInFlight>>

\* usb_hotplug_cb, DEVICE_LEFT: doom the record and tell the collaborator
hotplug_left ==
  /\ Pumping /\ hpq # <<>> /\ Head(hpq).ev = "left"
  /\ hpq' = Tail(hpq)
  /\ LET k == Head(hpq).loc IN
       IF Listed(k) THEN SetDev(k, Doom(dev[k])) /\ device_remove(k)
                    ELSE UNCHANGED <<dev, held, badRemove>>
  /\ UNCHANGED <<present, plugs, registered, pc, ret, visited, draining,
                 polling, hotplugOn, failures, sends, inits, freedInFlight>>

\* get_mode_cb (usb.c 723-774).  find_device always finds the record: the
\* record is freed only by usb_disconnect, whose libusb_close drops the
\* transfer.  Whether to switch depends on the descriptors and on
\* ENV_DEVICE_MODE (guess_mode, lines 751-753).
get_mode_cb(k) ==
  /\ Pumping /\ Listed(k) /\ dev[k].stage = "getmode"
  /\ \E ok \in Completed(k) :
       \/ /\ ~ok                                   \* lines 735-741
          /\ \E d \in DCIResults(k) :
               SetDev(k, device_complete_initialization(dev[k], d))
       \/ /\ ok                                    \* switch, lines 751-765
          /\ \E s \in SubmitResults(k) :
               SetDev(k, IF s THEN [dev[k] EXCEPT !.stage = "setmode"]
                              ELSE Doom([dev[k] EXCEPT !.stage = "halted"]))
       \/ /\ ok                                    \* no switch, 767-771
          /\ \E d \in DCIResults(k) :
               SetDev(k, device_complete_initialization(dev[k], d))
  /\ CallbackUnchanged /\ UNCHANGED <<held, freedInFlight, badRemove>>

\* switch_mode_cb (usb.c 697-721): on failure or a non-zero answer complete
\* initialization in the current mode; on acceptance do nothing more (the
\* device re-enumerates in its new mode)
switch_mode_cb(k) ==
  /\ Pumping /\ Listed(k) /\ dev[k].stage = "setmode"
  /\ \E ok \in Completed(k), accepted \in BOOLEAN :
       IF ok /\ accepted
       THEN SetDev(k, [dev[k] EXCEPT !.stage = "switched"])
       ELSE \E d \in DCIResults(k) :
              SetDev(k, device_complete_initialization(dev[k], d))
  /\ CallbackUnchanged /\ UNCHANGED <<held, freedInFlight, badRemove>>

\* get_langid_callback (usb.c 377-405): on failure, or when the serial
\* request cannot be submitted, the transfer is freed and nothing else
get_langid_callback(k) ==
  /\ Pumping /\ Listed(k) /\ dev[k].stage = "langid"
  /\ \E ok \in Completed(k), s \in SubmitResults(k) :
       SetDev(k, [dev[k] EXCEPT !.stage = IF ok /\ s THEN "serial" ELSE "halted"])
  /\ CallbackUnchanged /\ UNCHANGED <<held, freedInFlight, badRemove>>

\* rx loops start_rx_loop manages to submit before the first failure
LoopsStarted(k) ==
  IF ~present[k] THEN {0}
  ELSE IF LibusbMayFail THEN 0..NUM_RX_LOOPS ELSE {NUM_RX_LOOPS}

\* get_serial_callback (usb.c 310-375): device_add, then the rx loops.  Its
\* usb_disconnect runs inside a callback, where libusb_handle_events_timeout
\* cannot handle events, so the drain loop only times out.
get_serial_callback(k) ==
  /\ Pumping /\ Listed(k) /\ dev[k].stage = "serial"
  /\ \E ok \in Completed(k) :
       \/ /\ ~ok                                   \* lines 315-319
          /\ SetDev(k, [dev[k] EXCEPT !.stage = "halted"])
          /\ UNCHANGED <<held, freedInFlight, badRemove>>
       \/ /\ ok                                    \* device_add < 0, 345-348
          /\ DisconnectFinish(k)
          /\ UNCHANGED <<held, badRemove>>
       \/ /\ ok                                    \* device_add succeeded
          /\ \E n \in LoopsStarted(k) :
               IF n = 0                            \* lines 362-367
               THEN /\ DisconnectFinish(k)
                    /\ UNCHANGED <<held, badRemove>>
               ELSE /\ SetDev(k, [dev[k] EXCEPT !.stage = "run", !.rx = n,
                                                !.rxFly[FALSE] = n])
                    /\ held' = held \cup {k}
                    /\ UNCHANGED <<freedInFlight, badRemove>>
  /\ CallbackUnchanged

\* rx_callback (usb.c 245-289) for a transfer whose cancel flag is c: on
\* completion deliver and resubmit (the result is not checked); otherwise
\* free it, drop it from rx_xfers and mark the device dead
rx_callback(k, c) ==
  /\ Pumping /\ Listed(k) /\ dev[k].rxFly[c] > 0
  /\ \E ok \in Completed(k) :
       \/ /\ ok
          /\ \E s \in SubmitResults(k) :
               SetDev(k, [dev[k] EXCEPT !.rxFly[c] = @ - 1,
                                        !.rxFly[FALSE] = @ + (IF s THEN 1 ELSE 0)])
       \/ /\ ~ok
          /\ SetDev(k, Doom([dev[k] EXCEPT !.rx = @ - 1, !.rxFly[c] = @ - 1]))
  /\ CallbackUnchanged /\ UNCHANGED <<held, freedInFlight, badRemove>>

\* mutant: tx_callback frees the transfer without removing it from tx_xfers
tx_callback_keeps_xfer(k, c) ==
  /\ Pumping /\ Listed(k) /\ dev[k].txFly[c] > 0
  /\ \E ok \in Completed(k) :
       LET r == [dev[k] EXCEPT !.txFly[c] = @ - 1] IN
       SetDev(k, IF ok THEN r ELSE Doom(r))
  /\ CallbackUnchanged /\ UNCHANGED <<held, freedInFlight, badRemove>>

\* tx_callback (usb.c 173-213): mark the device dead on failure; always
\* free the transfer and drop it from tx_xfers
tx_callback(k, c) ==
  /\ Pumping /\ Listed(k) /\ dev[k].txFly[c] > 0
  /\ \E ok \in Completed(k) :
       LET r == [dev[k] EXCEPT !.tx = @ - 1, !.txFly[c] = @ - 1] IN
       SetDev(k, IF ok THEN r ELSE Doom(r))
  /\ CallbackUnchanged /\ UNCHANGED <<held, freedInFlight, badRemove>>

-----------------------------------------------------------------------------

Init ==
  /\ present \in [Loc -> BOOLEAN]
  /\ plugs = 0 /\ hpq = <<>> /\ registered = FALSE
  /\ dev = [k \in Loc |-> NoDev] /\ held = {}
  /\ pc = "off" /\ ret = "process" /\ visited = {} /\ draining = NoDev
  /\ polling = FALSE /\ hotplugOn = TRUE     \* static device_hotplug = 1
  /\ failures = 0 /\ sends = 0 /\ inits = 0
  /\ freedInFlight = FALSE /\ badRemove = FALSE

\* the daemon has shut down for the last time
Terminated == pc = "off" /\ inits = MaxInits /\ UNCHANGED vars

Next ==
  \/ \E k \in Loc : Attach(k) \/ Detach(k)
  \/ usb_init \/ usb_shutdown \/ usb_process \/ usb_process_timeout
  \/ EventsDone
  \/ \E b \in BOOLEAN : usb_autodiscover(b)
  \/ \E k \in Loc : ReapVisit(k)
  \/ DrainEnd \/ ProcessDone \/ PollDiscover \/ TimeoutLoop \/ ShutdownDone
  \/ \E k \in Loc : usb_send(k)
  \/ hotplug_arrived \/ hotplug_left
  \/ \E k \in Loc : \/ get_mode_cb(k) \/ switch_mode_cb(k)
                    \/ get_langid_callback(k) \/ get_serial_callback(k)
                    \/ \E c \in BOOLEAN : rx_callback(k, c) \/ tx_callback(k, c)
  \/ Terminated

Spec == Init /\ [][Next]_vars

\* A callback that libusb delivers for a detached device: its transfers
\* complete with an error status, so libusb eventually reports them.
DetachedCompletion(k) ==
  /\ ~present[k]
  /\ \/ get_mode_cb(k) \/ switch_mode_cb(k) \/ get_langid_callback(k)
     \/ get_serial_callback(k)
     \/ \E c \in BOOLEAN : rx_callback(k, c) \/ tx_callback(k, c)

\* usbmuxd's main loop calls usb_process on every iteration and shuts down
\* when it fails; each step of a call finishes (the drain loop is bounded);
\* libusb delivers queued hotplug events and the completions of detached
\* devices whenever it handles events, which happens intermittently, hence
\* strong fairness; the poll falls due again and again while polling, and
\* the deadline of usb_process_timeout passes (UsbPoll checks that its loop
\* waits only for the time left).
Fairness ==
  /\ SF_vars(usb_process) /\ WF_vars(EventsDone)
  /\ \A k \in Loc : WF_vars(ReapVisit(k))
  /\ WF_vars(DrainEnd) /\ WF_vars(ProcessDone) /\ WF_vars(ShutdownDone)
  /\ WF_vars(TimeoutLoop) /\ SF_vars(TimeoutExpires)
  /\ WF_vars(pc = "failed" /\ usb_shutdown)
  /\ SF_vars(hotplug_arrived) /\ SF_vars(hotplug_left)
  /\ \A k \in Loc : SF_vars(DetachedCompletion(k))
  /\ SF_vars(PollDiscover)

FairSpec == Spec /\ Fairness

-----------------------------------------------------------------------------
(* Properties                                                               *)

TypeOK ==
  /\ present \in [Loc -> BOOLEAN]
  /\ plugs \in 0..MaxPlugs
  /\ hpq \in Seq([ev: {"arrived", "left"}, loc: Loc])
  /\ registered \in BOOLEAN
  /\ dev \in [Loc -> Record \cup {NoDev}]
  /\ held \subseteq Loc
  /\ pc \in {"off", "idle", "events", "reap", "drain", "failed"}
  /\ ret \in {"process", "timeout", "discover", "shutdown"}
  /\ visited \subseteq Loc
  /\ draining \in Loc \cup {NoDev}
  /\ {polling, hotplugOn, freedInFlight, badRemove} \subseteq BOOLEAN
  /\ failures \in 0..(MAX_DEVLIST_FAILURES + 1)
  /\ sends \in 0..MaxSends /\ inits \in 0..MaxInits

\* Spec 4.2 and 8.1: the collections over-approximate the work in flight.
\* Every write libusb has in flight is in tx_xfers and vice versa (the tx
\* callback always removes its transfer), and every read in flight is in
\* rx_xfers.  Broken by usb_send adding a transfer it failed to submit, or
\* by a callback or the disconnect path losing track of one.
TransfersTracked ==
  \A k \in ListedLocs :
    /\ Flying(dev[k], "tx") = dev[k].tx
    /\ Flying(dev[k], "rx") <= dev[k].rx

\* The collaborator (device.c) never holds a freed usb_device: every record
\* passed to device_add is still in device_list until device_remove has
\* been called for it, on the reap path (reap_dead_devices, usb_shutdown),
\* on hotplug departure, and when no rx loop starts.
CollaboratorHoldsOnlyListed == held \subseteq ListedLocs

\* Spec 8.3, 4.8 and 4.9: the record of a device that has been detached is
\* eventually removed from device_list (unless a device is attached at the
\* same location again): through the hotplug departure, the error
\* completions of its transfers, or the mark-and-sweep of usb_discover,
\* followed by reap_dead_devices.  With neither the hotplug callback
\* registered nor polling on (usb_autodiscover(0)), nothing watches for
\* departures, so the promise is kept only while one of them does.
Watching == registered \/ polling

DetachedEventuallyRemoved ==
  \A k \in Loc : (Listed(k) /\ ~present[k]) ~> (~Listed(k) \/ present[k] \/ ~Watching)

\* Spec 1 and 3 (invariant 2): a transfer is freed only after its callback
\* has run.  usb_disconnect's forced cleanup (lines 134-152) frees every
\* transfer still in rx_xfers/tx_xfers, also those libusb still has in
\* flight, e.g. a read that completed while its cancel was pending and was
\* resubmitted uncancelled by rx_callback (line 251).
NoTransferFreedInFlight == ~freedInFlight

\* Spec 4.9 step 1: usb_disconnect cancels every transfer of both
\* collections and then only waits for their callbacks, so while it drains
\* no transfer of the device is in flight uncancelled.  rx_callback
\* resubmits a read that completed before its cancel took effect (line
\* 251), and the drain then waits for a read that may never complete.
DisconnectCancelsAll ==
  pc = "drain" => /\ dev[draining].rxFly[FALSE] = 0
                  /\ dev[draining].txFly[FALSE] = 0

\* Spec 3: "transitions are monotonic toward doomed within one lifecycle".
\* Once a record is doomed (by an rx/tx error, a hotplug departure or a
\* failed handshake step) nothing marks it alive again until the reaper
\* has removed it; usb_device_add (line 785), which a rediscovery calls for
\* every record still listed, sets alive = 1 without looking at why it was
\* cleared.
DoomedStaysDoomed == \A k \in ListedLocs : dev[k].doomed => ~dev[k].alive

\* Spec 4.10 and 7: a device whose handshake chain stops without starting
\* the rx loops (a failed language-ID or serial request, lines 315-318,
\* 384-388, 401-404) is doomed and reaped, not kept alive.
StalledChainIsDoomed ==
  \A k \in ListedLocs : dev[k].stage = "halted" => ~dev[k].alive

\* Spec 8.1: |rx_xfers| equals the reads submitted whose callback has not
\* run.  rx_callback ignores the result of resubmitting (line 251).
RxSetTracksFlight ==
  \A k \in ListedLocs : Flying(dev[k], "rx") = dev[k].rx

\* Spec 6: device_remove is the counterpart of device_add; it is called
\* only for a device passed to device_add and not yet removed.  The
\* hotplug departure (line 1065) and the reap (line 166) both call it, and
\* usb_shutdown and the reap also call it for devices that never reached
\* device_add.
RemoveOnlyHeld == ~badRemove

=============================================================================
