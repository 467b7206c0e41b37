------------------------------- MODULE UsbPoll -------------------------------
(***************************************************************************)
(* The timing side of the event pump (usb.c 851-905 and 956-1048): the     *)
(* rediscovery deadline next_dev_poll_time, dev_poll_remain_ms,            *)
(* usb_get_timeout, usb_process and the deadline loop of                   *)
(* usb_process_timeout, driven by a host that asks for the timeout, waits  *)
(* at most that long, and calls back in.                                   *)
(*                                                                         *)
(* now is the tick count in microseconds; get_tick_count yields it as a    *)
(* normalised timeval.  The timevals the code computes are records         *)
(* [sec, usec] and are compared and subtracted as the code does.  An int   *)
(* has IntBits bits: a long value stored into an int keeps its low         *)
(* IntBits bits, as gcc does.  What usb_discover does to the device list, *)
(* and what libusb_handle_events_timeout delivers, is UsbDeviceManager's;  *)
(* here only whether the calls fail matters.                               *)
(***************************************************************************)
EXTENDS Integers

CONSTANTS
  StartTimes,     \* tick counts at which usb_init may run
  Delays,         \* how long a wait may last, in microseconds
  Msecs,          \* arguments the host passes to usb_process_timeout
  LibusbTimeouts, \* answers of libusb_get_next_timeout: [res, sec, usec]
  LibusbMayFail,  \* libusb calls may fail
  Horizon,        \* bound on now
  MaxFailures,    \* bound on devlist_failures
  IntBits         \* width of int

DEVICE_POLL_TIME == 1000
USEC == 1000000

\* a timeval local that is out of scope
NoTv == [sec |-> 0, usec |-> 0]

VARIABLES
  now,        \* the tick count
  pc,         \* "init", "idle", "sleep", "process", "loop", "wait"
  polling,    \* device_polling
  next,       \* next_dev_poll_time
  failures,   \* devlist_failures
  timeout,    \* what usb_get_timeout returned to the host
  fin,        \* tfin of usb_process_timeout
  tleft,      \* the timeout of its current libusb_handle_events_timeout
  discAt,     \* <<now, deadline in microseconds>> at the last rediscovery
  ptDeadline, \* when the running usb_process_timeout should end
  ptRes       \* what the last usb_process_timeout returned

vars == <<now, pc, polling, next, failures, timeout, fin, tleft, discAt,
          ptDeadline, ptRes>>

-----------------------------------------------------------------------------
(* Integer and timeval arithmetic                                          *)

\* C's / truncates towards zero
CDiv(a, b) == IF a >= 0 THEN a \div b ELSE -((-a) \div b)

\* a value converted to int
ToInt(x) == ((x + 2^(IntBits - 1)) % 2^IntBits) - 2^(IntBits - 1)

Tick(n) == [sec |-> n \div USEC, usec |-> n % USEC]
Micros(tv) == tv.sec * USEC + tv.usec

\* get_tick_count(&t); t.tv_usec += DEVICE_POLL_TIME * 1000; and carry
PollTimeFrom(n) ==
  LET t == Tick(n)
      u == t.usec + DEVICE_POLL_TIME * 1000
  IN [sec |-> t.sec + u \div USEC, usec |-> u % USEC]

-----------------------------------------------------------------------------
(* The code                                                                *)

dev_poll_remain_ms ==
  IF ~polling THEN 100000
  ELSE LET tv == Tick(now)
           msecs == ToInt(ToInt((next.sec - tv.sec) * 1000)
                          + CDiv(next.usec - tv.usec, 1000))
       IN IF msecs < 0 THEN 0 ELSE msecs

\* a mutant: libusb's timeout is returned even when polling is due sooner
usb_get_timeout_no_min(lt) ==
  LET msec == ToInt(lt.sec * 1000) + lt.usec \div 1000
  IN IF lt.res <= 0 THEN dev_poll_remain_ms ELSE msec

\* lt is libusb_get_next_timeout's answer
usb_get_timeout(lt) ==
  LET pollrem == dev_poll_remain_ms
      msec == ToInt(lt.sec * 1000) + lt.usec \div 1000
  IN IF lt.res <= 0 THEN pollrem
     ELSE IF msec > pollrem THEN pollrem ELSE msec

\* the timing part of usb_discover: a failed device list is counted and
\* reschedules, up to the sixth failure in a row, which is returned.  The
\* count saturates at MaxFailures > 6, past which the code behaves alike.
usb_discover(ok) ==
  /\ failures' = IF ok THEN 0 ELSE IF failures < MaxFailures THEN failures + 1 ELSE failures
  /\ next' = IF ~ok /\ failures + 1 > 5 THEN next ELSE PollTimeFrom(now)
  /\ discAt' = <<now, Micros(next)>>

DiscoverResults == IF LibusbMayFail THEN BOOLEAN ELSE {TRUE}

usb_init ==
  /\ pc = "init"
  /\ \E hotplug \in BOOLEAN :
       /\ polling' = ~hotplug
       /\ IF hotplug THEN UNCHANGED <<failures, next, discAt>>
          ELSE \E ok \in DiscoverResults : usb_discover(ok)
  /\ pc' = "idle"
  /\ UNCHANGED <<now, timeout, fin, tleft, ptDeadline, ptRes>>

usb_autodiscover ==
  /\ pc = "idle"
  /\ \E enable \in BOOLEAN : polling' = enable
  /\ UNCHANGED <<now, pc, next, failures, timeout, fin, tleft, discAt, ptDeadline, ptRes>>

\* libusb_handle_events_timeout with zero timeout, reap, and rediscovery
\* when it is due
usb_process ==
  /\ pc = "process"
  /\ \E handled \in DiscoverResults :
       IF handled /\ dev_poll_remain_ms <= 0
       THEN \E ok \in DiscoverResults : usb_discover(ok)
       ELSE UNCHANGED <<failures, next, discAt>>
  /\ pc' = "idle"
  /\ UNCHANGED <<now, polling, timeout, fin, tleft, ptDeadline, ptRes>>

\* usb_process_timeout(msec): tfin = now + msec, carried
usb_process_timeout ==
  /\ pc = "idle"
  /\ \E msec \in Msecs :
       LET tcur == Tick(now)
           usec == tcur.usec + (msec % 1000) * 1000
       IN /\ fin' = [sec |-> tcur.sec + msec \div 1000 + usec \div USEC,
                     usec |-> usec % USEC]
          /\ ptDeadline' = now + msec * 1000
  /\ ptRes' = "running"
  /\ pc' = "loop"
  /\ UNCHANGED <<now, polling, next, failures, timeout, tleft, discAt>>

\* a mutant: no borrow when tleft.tv_usec is negative
ProcessTimeoutLoop_no_borrow ==
  /\ pc = "loop"
  /\ LET tcur == Tick(now) IN
       IF fin.sec > tcur.sec \/ (fin.sec = tcur.sec /\ fin.usec > tcur.usec)
       THEN /\ tleft' = [sec |-> fin.sec - tcur.sec, usec |-> fin.usec - tcur.usec]
            /\ pc' = "wait"
            /\ UNCHANGED <<ptRes, fin>>
       ELSE /\ pc' = "idle"
            /\ ptRes' = "ok"
            /\ fin' = NoTv /\ tleft' = NoTv
  /\ UNCHANGED <<now, polling, next, failures, timeout, discAt, ptDeadline>>

\* the while test: tfin after tcur; if so tleft = tfin - tcur, borrowing
ProcessTimeoutLoop ==
  /\ pc = "loop"
  /\ LET tcur == Tick(now) IN
       IF fin.sec > tcur.sec \/ (fin.sec = tcur.sec /\ fin.usec > tcur.usec)
       THEN LET s == fin.sec - tcur.sec
                u == fin.usec - tcur.usec
            IN /\ tleft' = IF u < 0 THEN [sec |-> s - 1, usec |-> u + USEC]
                           ELSE [sec |-> s, usec |-> u]
               /\ pc' = "wait"
               /\ UNCHANGED <<ptRes, fin>>
       ELSE /\ pc' = "idle"
            /\ ptRes' = "ok"
            /\ fin' = NoTv /\ tleft' = NoTv
  /\ UNCHANGED <<now, polling, next, failures, timeout, discAt, ptDeadline>>

\* libusb_handle_events_timeout(&tleft) returns within tleft, or fails
\* and the error is returned; reap; get_tick_count(&tcur)
ProcessTimeoutWait ==
  /\ pc = "wait"
  /\ \E handled \in DiscoverResults :
       IF handled
       THEN \E d \in Delays :
              /\ d <= Micros(tleft) /\ now + d <= Horizon
              /\ now' = now + d
              /\ pc' = "loop"
              /\ UNCHANGED <<ptRes, fin, tleft>>
       ELSE /\ pc' = "idle"
            /\ ptRes' = "err"
            /\ fin' = NoTv /\ tleft' = NoTv
            /\ UNCHANGED now
  /\ UNCHANGED <<polling, next, failures, timeout, discAt, ptDeadline>>

-----------------------------------------------------------------------------
(* The host loop                                                           *)

\* the host asks how long it may wait
HostGetTimeout ==
  /\ pc = "idle"
  /\ \E lt \in LibusbTimeouts : timeout' = usb_get_timeout(lt)
  /\ pc' = "sleep"
  /\ UNCHANGED <<now, polling, next, failures, fin, tleft, discAt, ptDeadline, ptRes>>

\* poll() returns when a descriptor is ready or the timeout has passed
HostWait ==
  /\ pc = "sleep"
  /\ \E d \in Delays :
       /\ d <= timeout * 1000 /\ now + d <= Horizon
       /\ now' = now + d
  /\ pc' = "process"
  /\ timeout' = 0
  /\ UNCHANGED <<polling, next, failures, fin, tleft, discAt, ptDeadline, ptRes>>

Init ==
  /\ now \in StartTimes
  /\ pc = "init"
  /\ polling = FALSE
  /\ next = [sec |-> 0, usec |-> 0]
  /\ failures = 0
  /\ timeout = 0
  /\ fin = NoTv
  /\ tleft = NoTv
  /\ discAt = <<0, 0>>
  /\ ptDeadline = 0
  /\ ptRes = "none"

Next ==
  \/ usb_init \/ usb_autodiscover \/ usb_process
  \/ usb_process_timeout \/ ProcessTimeoutLoop \/ ProcessTimeoutWait
  \/ HostGetTimeout \/ HostWait

Spec == Init /\ [][Next]_vars

-----------------------------------------------------------------------------
(* Properties                                                              *)

\* When polling, the timeout usb_get_timeout hands the host never lets it
\* sleep a full millisecond past the rediscovery deadline: the remaining
\* time of dev_poll_remain_ms (timeval difference, int conversion) bounds
\* the libusb timeout, and a passed deadline gives 0.
TimeoutWithinPollDeadline ==
  pc = "sleep" /\ polling =>
    timeout * 1000 < (IF Micros(next) > now THEN Micros(next) - now ELSE 0) + 1000

\* usb_process_timeout waits in libusb exactly for the time left until
\* now + msec, as a normalised timeval, and returns 0 only once that
\* deadline has passed (spec.md 4.8, the bounded step).
ProcessTimeoutHonoursDeadline ==
  /\ pc = "wait" =>
       /\ tleft.usec \in 0..(USEC - 1)
       /\ Micros(tleft) = ptDeadline - now /\ ptDeadline > now
  /\ ptRes = "ok" => now >= ptDeadline

\* usb_process runs rediscovery only once its deadline has passed
\* (spec.md 4.8).
NoEarlyDiscovery == discAt[1] >= discAt[2]
=============================================================================
