# Verification of esp32-beacon-scanner

The repository is a firmware for the ESP32: it scans for BLE advertisements and publishes
what it sees over MQTT.  Almost all of its logic is `components/loopp`, a small asynchronous
framework for FreeRTOS: a main loop, sockets and TLS on top of it, an MQTT client, an HTTP
client with over-the-air update, and drivers; `main/src/main.cpp` wires these together.
This directory holds TLA+ models of that code, the TLC runs that check them and the
TLAPS proofs about them.  Paths below are relative to the repository; `L/` stands for
`components/loopp/`.

## Inventory

| component | source | state | operations | what is hard |
|---|---|---|---|---|
| bounded queue | `L/include/loopp/core/Queue.hpp`, `Semaphore.hpp`, `Mutex.hpp` | deque, two counting semaphores, mutex | push/push_for/emplace, pop/pop_for, size | three pieces of state without a common lock; blocking, timeouts, the bound |
| trigger | `L/src/core/Trigger.cpp` | count, loopback datagram | signal, confirm | asynchronous delivery; two assertions |
| main loop: invoke | `L/src/core/MainLoop.cpp` | queue of functions, `queue_mutex`, trigger | invoke, handle_queue | lost wake-ups, a full queue, re-entrance |
| main loop: poll | `L/src/core/MainLoop.cpp` | poll_list, its copy during a pass, fd sets | notify, unnotify, cancel, select, handle_io, handle_timeout | the copy is stale while callbacks change the list; cancellation |
| main loop: timers | `L/src/core/MainLoop.cpp` | timers, the list being fired, the time-out of select | add_timer, add_periodic_timer, cancel_timer, handle_timers | time-outs computed before the sleep; cancel during firing; negative time-outs |
| signal / property | `L/include/loopp/core/Signal.hpp`, `Property.hpp` | slot list, mutex | connect, disconnect, emit, set | the mutex is held while slots run |
| stream | `L/src/net/Stream.cpp`, `TCPStream.cpp`, `TLSStream.cpp`, `Resolver.cpp` | socket, connected, write queue | connect, read, write, close | close against pending reads and writes; descriptor reuse |
| stream buffer | `L/src/net/StreamBuffer.cpp` | buffer and two offsets | reserve, commit, consume | moves, the maximum size |
| Wi-Fi | `L/src/net/Wifi.cpp` | connected property | connect, events | the time-out against the late event |
| MQTT client | `L/src/mqtt/MqttClient.cpp`, `MqttPacket.cpp` | socket, connected, subscriptions, pending pings | connect, publish, subscribe, packets, ping, errors | reconnection while callbacks of the old connection arrive |
| HTTP client, OTA | `L/src/http/HttpClient.cpp`, `L/src/ota/OTA.cpp` | request, headers, body left, flash partition | execute, read body, upgrade, commit | a missing length, a failing step |
| BLE scanner | `L/src/ble/BLEScanner.cpp` | scan state in the controller | start, stop, GAP events | stop racing the parameter event |
| drivers | `L/src/drivers/*.cpp` | per driver | start, stop, provisioning, scan and gpio events | interrupts and tasks against start/stop; publishing while disconnected |
| LED | `L/include/loopp/led/*.hpp`, `L/src/led/*` | strip, grid, current limit | set_color, convert_xy, limit | coordinates at the boundary |
| application | `main/src/main.cpp` | loop, Wi-Fi, MQTT, drivers | provisioning, remote commands, firmware update, reconnection | callbacks of different components in orders nobody wrote a test for |

The components share one task, the main loop's, by convention: other tasks (Wi-Fi and BLE
event tasks, the resolver, the GPIO task) reach it only through `MainLoop::invoke` and the
notify/timer calls.  What makes the firmware work is therefore that path: a function that
is invoked runs, in order and once; a registered descriptor is answered once; a timer
fires; and whatever is waiting for the loop wakes it.

## Plan

The order is that of importance: everything in the firmware runs through the main loop, so
the loop comes first, each part with the promise that the next ones build on.

| | module | of | composes / promises | state |
|---|---|---|---|---|
| A | `Queue`, `BoundedFifo` | bounded queue | implements the FIFO `BoundedFifo` | done, proved |
| B | `Trigger`, `Invoke`, `Wakeup` | trigger, invoke, handle_queue | extends `Queue` and `Trigger`; implements `Wakeup` | done, proved |
| C | `Poll` | descriptors | extends `Wakeup` | done, proved |
| D | `Timers` | timers | extends `Wakeup` | done, proved |
| E | `Stream`, `Completion` | TCP and TLS streams, resolver | the passes of C as one loop, with the streams' callbacks; implements `Completion` in F | done, proved |
| F | `MqttClient` | MQTT client | extends `Stream` | done, proved |
| G | `StreamBuffer`, `ByteQueue`, `ByteStream` | stream buffer, reading | implements the queue of bytes `ByteQueue` | done, proved |
| H | `Framing`, `Update`, `Reading` | MQTT packets out of bytes; HTTP client and update | extend `ByteStream`; `Reading` composes them | done, safety proved |
| I | `LoopQueue`, `Scanner`, `Application` | Wi-Fi, BLE scanner and driver, `main.cpp` | over the loop's functions, which `Invoke` has in detail | done, safety proved |
| | `GridLayout` | grid of a strip | pure functions | done, proved |
| | topic filters | `mqtt/` | pure functions against reference definitions | planned |

Abstract specifications: `BoundedFifo` (what a queue promises to concurrent users),
`Wakeup` (what the trigger promises to the parts of the loop that do not care about
functions), `ByteQueue` (what a buffer promises to its reader), `Completion` (what a stream promises to
who connects it).

## Modules and code

**`Queue`** has one program counter per task, `pc`, whose values are the places inside
`push_for` and `pop_for` between which another task may run: taking a semaphore, locking the
mutex, changing the deque (and unlocking, which no other task can tell apart), giving the
other semaphore.  `queue_data`, `produce_sem`, `consume_sem` and `mutex` are the members of
`Queue`.  A time-out of a semaphore is an action that may happen whenever the semaphore is 0.
**`BoundedFifo`** is its abstract specification: a push takes effect at one moment between
call and return, and so does a pop; a refusal needs a full (empty) queue or operations under way.

**`Trigger`** has the counter of signals and the datagram on its way (`sent`, `ready`).
**`Invoke`** extends both.  A task goes through `invoke_func` (`call`): lock `queue_mutex`,
push through the steps of `Queue`, signal, unlock.  The loop goes through `run`,
`handle_queue` and the functions it pops (`loop`), and the functions and other callbacks may
invoke again.  `OtherSignal` stands for all callers of `Trigger::signal` that do not push:
`terminate`, `notify`, `cancel`, the timer functions.

**`Wakeup`** is the trigger seen from outside: no signal, a signal whose byte is under way, a
byte that select sees.  `Invoke` implements it (`TriggerIsWakeup`, also a theorem), which is
what allows the next two modules to use it in the trigger's place.

**`Poll`**: a key is a descriptor with a direction, and `poll_list` a function from keys to
registrations (`reg`, when it was made; `cancelled`; whether it has a time-out; `since`
appears as `overdue`, the registrations whose time is over).  `copy` is `poll_list_copy` of
`run`, and `todo` the keys of the copy that a handler has still to look at.  `answer` records
the calls of each registration's callback.  Another task is anywhere between the two halves
of `unnotify` and `cancel`, which treat the two directions in two critical sections.
`LoopCalls` and `TaskCalls` say which calls of the interface the callbacks and the other
tasks make; `Replaces` whether they register a key that is registered.

**`Timers`**: `timers` as in the code, with time in ticks of which `Ms` make a millisecond,
because time-outs are computed in milliseconds from a finer clock.  `wake_at` is when select
returns by itself.  A negative time-out, which nothing in `do_select` prevents, ends at once or
waits for an event: `SleepUntil` is the set of both, since the type of `tv_sec` and `tv_usec`
decides.  Collecting due timers, under the mutex, and calling them, outside, are separate steps.

**`Stream`** and **`MqttClient`** are one state machine in two modules.  The loop's pass is that
of `Poll` with the wake-ups left out: a copy of the list (`copy`, whose callbacks keep their
streams alive; `todo`, the entries still to be answered), the error code of `handle_io` (`ec`), and the functions of
`Invoke` (`funcs`, `batch`).  A callback calls others before it returns, and so on down to
`handle_error`: the calls still to be made are a stack, `calls`, and one step makes the innermost
and pushes what it calls.  The loop goes on when the stack is empty, so that nothing comes
between the calls of one callback, except the resolver's task and the application's `publish`.
A stream is a number; `sock`, `server_fd`, `up` (the connected property) and
`write_op_queue` are its members, and `owner` is the network stack's table of descriptors, which
hands out the lowest number that is free.  A stream that nothing refers to is destroyed at once, as
`shared_ptr` does it.  `Secure` chooses TLS, where `socket_on_connected` begins a handshake
and the destructor closes `server_fd` as well.
The client's `current` is its `sock`.  `Join` is the Wi-Fi coming up, `on_wifi_connected` with `connect`
bound to the loop, at the beginning and again.  `Connect` refuses while the client is connected, and
otherwise puts a new stream into `sock`, whether it has one or not; the stream in whose place it
comes is not closed, and its callbacks come.  `replaced` remembers that this has happened.  Packets are kinds, in the order in which the server gets
them (`server`), and one read stands for the reads of a packet.  `Faults` says what may go wrong.
**`Completion`** is the streams' abstract specification: a connection that was asked for is completed once,
by one call of its callback, and the calls do not nest; others may be asked for in the meantime.  The mapping takes
a stream for connecting as long as the resolver, a function, the list, the copy of a pass or a running call has it for that
(`Underway`), so that a registration which disappears without its callback would
complete the stream silently, which `Completion` does not allow.

**`StreamBuffer`** is the vector with its two offsets.  `Fill` is a `produce_data` with the
`produce_commit` of what was read, `Take` a `consume_commit`, and `Throw` the exception of
`reserve`, which comes after the bytes have been moved to the front and before the offsets
follow: `broken` records that this has happened to bytes that nobody had consumed.
**`ByteQueue`** is its abstract specification; the mapping is the content between the offsets.
**`ByteStream`** adds the bytes on their way and one round of the loops that read them: a round
finds any number of them, from none to what it asked for.

**`Framing`** is the client from `async_read_control_packet` to `handle_payload`, byte by byte,
over the one buffer that the client keeps for all its connections.  A byte says which packet
it belongs to, and a byte of the remaining length its value.  **`Update`** goes from
`upgrade_async` through `execute`, the response, and the pieces of the body, to the callback
that `main.cpp` gives it, which restarts the firmware.  `Responses` are what a server may
answer: how long header and body are, whether the length is declared, the status, whether a
number fails to parse, and how much of it ever arrives.  **`Reading`** puts the two side by side: each
has a buffer of its own, so a behaviour is that of one of them.

**`LoopQueue`** is the loop as the application sees it.  A batch is `counted`, the function
under way has `calls` still to make, and `holder` is the task that waits for a slot with
`queue_mutex` in its hands.  **`Scanner`** adds the controller with its commands and events, the
Bluetooth task, the signal of results with its mutex (`slots`, `emitting`) and the drivers,
which are numbers.  **`Application`** adds the station and the event task of the Wi-Fi
(`announcing`: the property is set and its slots are not yet called), the time-out's timer, an
MQTT client that is off, trying or on, the map of drivers, and what `main.cpp` does when
one of these calls it.  Functions that only log, or only send, are left out.

**`GridLayout`** is `convert_xy` with its two checks, as operators over the members of the class.
It has no state and no run, only theorems.  Its arithmetic is cut to 16 bits where the code stores
a `uint16_t`; the products before that fit an `int` for all coordinates the theorems are about.

## Runs

| run | question | bounds |
|---|---|---|
| `queue` | do slots leak, is the queue a bounded FIFO, do values and takers meet | 3 tasks, 2 values, 2 slots: pushes that find it full, pops that find it empty, and a third task in between |
| `invoke_safety` | is a wake-up ever lost, can handle_queue or confirm fail | 2 clients and the loop, 2 functions each, 3 slots, so that pushes block, and their waits may run out |
| `invoke_full` | does every function run, once and in order, and what happens when the queue is full | 1 client and the loop, 2 functions each, 2 slots, waits that do not run out |
| `poll_any` | what holds whatever anybody calls | 1 descriptor in 2 directions, 2 registrations, every call from the loop and from another task, replacements |
| `poll_loop` | what holds, and is answered in the end, as the firmware uses the interface | the same without unnotify, without replacement and with cancels from the loop only |
| `poll_error_code` | does "operation cancelled" mean cancelled | 2 descriptors, 2 registrations; expected to fail |
| `timers` | drift, order, sleeping too long, timers that never fire | 2 timers, durations 0 and 1 ms, period 1 ms, 2 ticks per millisecond, until tick 4: a loop that is a period late |
| `mqtt_reconnect` | does the client come back, does every attempt end, is a stream used that was dropped | TLS, 3 streams, 2 descriptors, the Wi-Fi comes up twice; connecting, the handshake and reading fail; nothing is published; the command to upgrade arrives |
| `mqtt_faults` | do old and new streams keep apart, and complete once when several connect, whatever fails | TCP, 3 streams, 2 descriptors, the Wi-Fi comes up twice; 2 pings or publications, a limit of 1 unanswered ping; every fault but a write that has to wait |
| `mqtt_upgrade` | does the client stay disconnected for an update | TLS, no fault; expected to fail |
| `reading` | are packets cut right, is what is committed the whole body, does an update end, does the buffer keep its bytes | a vector that grows by 3 up to 6, a base of 2 for the digits of a length, 2 connections, packets of 0, 1, 2, 3 and 7; header reads of 2, body reads of 3, headers of 1, 3 and 6, bodies of 0, 1 and 5, whole or cut short, with and without a time-out |
| `application` | does the firmware come up whatever the order of events, do stopped drivers stop, are new ones made, does scanning go on | 2 slots, 2 addresses, 1 connection to the server, 1 message, 1 name |

The bounds are small because the interesting cases need few actors.  A lost wake-up needs
one function after the count of a batch; a stale copy needs one change after it was made and
one more before it is used; the order of timers needs two of them and a loop that is late by
more than a period.  Counters that the code leaves unbounded are cut off in the guards:
`MaxInvoke`, `MaxSignal`, `MaxReg`, `MaxTimer`, `MaxTime`, `MaxConn`, `MaxSend`, `MaxJoin`, `MaxIp`,
`MaxMqtt`, `MaxMessage`.  The theorems hold for all of them.  Three streams are an old one, its replacement, and one that the
replacement's own failure or a late answer to the old one begins; two descriptors make numbers be
reused.  A Wi-Fi that comes up twice can come up the second time in every state of the client.  In
`mqtt_reconnect` a name that is not found and a read that fails are left out: they end as a host that is not reached
and a closed connection do, and `mqtt_faults` has both.  A write that has to wait is in no run, because it breaks
`CompletesOnce` (below); the theorems about descriptors, registrations and sessions have it.  The runs of the client do not check deadlock: it stops where it would need one
more stream than `MaxConn`.

In `reading`, 3 and 6 make the vector grow once and then refuse; packets are shorter than a
read's reserve, longer than what is left of the vector, and too large for it; a base of 2 gives
lengths of one, two and three digits, and the modulus, 8 in the place of 2^32, makes the multiplier wrap
at the third of them, as 2^32 does at the fifth.  In `application`, two slots are one more
than a batch that leaves one; two addresses are a first join and one after a loss, and the link
is lost only while another address is to come.  A second connection of the Wi-Fi before the
server answers is what connects the slot of `on_mqtt_connected` twice.  Both runs leave
deadlock unchecked: a reader may wait for ever for bytes, and a firmware that restarts stops.

What the runs show:

* The queue never loses a slot or a value, with the time-outs included.
* A function that is invoked is announced until a batch counts it, although handle_queue
  confirms before it runs the batch; the zero-wait pop of the batch finds every function it
  counted; confirm always has a byte to read.
* With a queue that fills there is one cyclic wait, and no other way to stop: a task holds
  `queue_mutex` inside `invoke_func` and waits for a slot, while the loop waits for
  `queue_mutex` (or is that task).  It lasts until the wait of 49.7 days runs out.  The queue
  of the loop has 100 slots (`Queue.hpp:41`), so this takes 100 functions that the loop has not run yet.
* Whatever anybody calls, the loop does not wait on an outdated list, and answers nothing
  twice.  As the firmware uses the interface, every registration is in the list or answered.
  With `unnotify`, and a new registration of the same key within a pass, the callback of the
  new one may be called for the event of the old one and the other be gone; with replacement
  the replaced callback is dropped.  `Accounted` therefore excludes both.
* A cancel by another task may be slept over: it comes after the copy, its signal is
  confirmed in the same pass, and the loop then waits on a descriptor it has left out of
  the fd sets.  `CancelledLeavesUnlessStranded`, in `poll_any`, shows that this is the only way.
* `poll_error_code` is a finding: the error code of `handle_io` is declared outside its loop
  and never reset, so after a cancelled entry the ready ones of the pass are told they were
  cancelled too (`NetworkErrors.cpp:43`: "operation cancelled").
* Timers keep their schedule however late the loop is.  They fire in order.  A timer that is
  cancelled after it was collected still fires; no promise of the code excludes that.  A timer
  that is a millisecond overdue when the loop computes its time-out makes this negative.  Where
  select then waits, the timer waits with it until something else happens:
  `DueFiresUnlessOversleeping` shows that there is no other way for a timer not to fire.

* While only connections fail, the client reconnects with one stream at a time and is never
  left with nothing to call it, as long as `connect` has put no stream in the place of another.
  An attempt ends, however often `connect` is called, the connect by its own time limit; the handshake
  and the server's CONNACK have none, which is why fairness has to provide them.
* `connect` asks `connected_property`, which is true from the CONNACK or SUBACK on, and the application
  calls it whenever the Wi-Fi comes up (`main.cpp:156`).  If that is while an attempt is under way, its own or one that
  `handle_error` began when the Wi-Fi went, two streams connect, over TLS with two handshakes at the same time.  TLC finds what the condition `~replaced` of `NeverStuck`, `NeverUsesNullSock`, `KnowsItsSession` and
  `OneAttempt` excludes.  One of the two streams fails; `handle_error` closes the
  other and makes a third; the Cancelled of the second drops the third, and nothing
  connects any more (`MqttClient.cpp:747-757`).  The third, still connecting, calls `send_connect` and finds no
  stream.  A connect between CONNACK and SUBACK leaves the ping timer set for a stream that has no session.
* Over TCP each stream completes its connecting once (`CompletesOnce`), over the resolver's task, the functions,
  the registrations and the copies that it passes through, whatever fails and however many connect at the same time, unless
  a write has to wait for its socket.  With such a write the copy of a pass may hold the cancelled
  registration of a closed stream while the next stream, in the same pass, gets the same descriptor and registers
  its connect; `handle_io` erases by descriptor and type before it calls the old callback (`MainLoop.cpp:390`),
  and with the registration goes the only thing that would complete the new stream, or time it out.
  Over TLS the second close of `server_fd` (`TLSStream.cpp:70-74`) has the same effect: with four streams and a
  repeated connect TLC finds `CompletesOnce` and `OwnsItsDescriptor` violated.
* Over TCP a stream closes no descriptor but its own, and the loop watches no descriptor for
  a stream that has closed it, whatever fails and however often `connect` is called.  The client is connected, and its
  ping timer runs, only with a session on the stream that it has, until `connect` replaces one.
* The invariants of `mqtt_reconnect` do not survive errors in another place than the
  connection.  With writes, publications or pings that fail, refused connections or malformed
  packets TLC finds `NeverStuck` and `NeverUsesNullSock` violated.  The
  ways are few: `handle_error` closes the old stream, whose pending read is answered with
  Cancelled in a later pass, and then drops the new stream without connecting (`MqttClient.cpp:747-757`);
  the orphan's connect callback goes on to `send_connect` and finds no stream (126-138); after a
  refused CONNACK `handle_payload` reads on from the new, unconnected stream, which is one more
  error (540-546); a publication that was invoked before the error is written to the
  stream after it.  Over TLS, `OwnsItsDescriptor` is violated as well: a stream that was closed and is
  destroyed later closes `server_fd` a second time.  No document of the
  repository speaks of these, so no run is devoted to them.
* `mqtt_upgrade` is a finding: `disconnect` leaves a read registered that the same pass may still
  answer; it ends in `ConnectionClosed`, for which `handle_error` reconnects, although "520K is
  insufficient to run two TLS connections" (`main.cpp:319`).
* Packets are cut right however the bytes arrive, and the last one is handled without waiting
  for more.  Two things end this.  A packet larger than the buffer may become (10 KiB) makes `reserve`
  throw out of the read, and nothing reads on until the next connection.  And a
  connection lost within a payload leaves the part that has arrived in the buffer, which
  nothing clears: each read of the next connection takes bytes of the last one in the place of its
  own (`cut`; `MqttClient.cpp:283-292`, 416-490).
* The buffer gives back what it was given until `reserve` throws with unread bytes that are not at
  the front: they have moved and the offsets have not.
* An update is committed only with the whole body in the partition, or with nothing, where the server
  declared no length and sent nothing with the header.  A body without a declared length that does come
  divides the progress by zero (`OTA.cpp:151-158`); on the processor this is an exception, a restart.
* An update with a time-out ends in a restart.  Without one it may stay for ever, with MQTT
  disconnected, if the server falls silent or a number of the response does not parse: the
  exception is caught by the loop and no callback is called.
* Whatever the order of the Wi-Fi's time-out and its events, the firmware joins or restarts: the
  time-out, which does not set itself again when it finds the property true, does so only when
  `on_wifi_connected` is invoked or about to be.
* Each return of the Wi-Fi before the server answers connects one more slot to the client's property
  (`main.cpp:133-162`), so that `on_mqtt_connected` runs more than once for one connection, and each
  run makes another default scanner.  The one whose name it takes is not stopped and runs on.
  `StoppedIsGone` says that no other driver outlives its place in the map, and that the results of
  a stopped one are all in front of a function that creates.  They may be behind another one: of two messages
  that are handled in one pass the first has cleared the map, its function that creates is
  in the queue, and a driver's result is too, when the second stops that driver; the
  second's function comes after both.
* The full queue has three deadlocks (`Deadlocked`): a task that waits for a slot with
  `queue_mutex` while the loop wants to count its batch; a function that invokes; and the
  Bluetooth task, which waits for a slot with the signal's mutex, while the loop wants to connect or
  disconnect a driver.  Apart from these, a message that names devices leads to new drivers, and
  the controller scans again and again while there is one.

## Fairness

* `Queue`: weak fairness of the steps of a call that has begun, which may for ever be passed over
  at a semaphore; nothing makes a task call, and no wait need time out.
* `Invoke`: weak fairness of each step of a call, of the delivery of the datagram and of the
  loop's steps: tasks run and callbacks return.  Strong fairness of `InvokeLock`, since a
  mutex that is given readies its waiter and the loop leaves it free while it sleeps.
  Nothing makes a task invoke.
* `Poll`: weak fairness of the steps of a pass, of the delivery, of the passing of a
  registration's time and of the second half of a call.  Strong fairness of `SelectReturns`
  (select reports what is ready; errors in between are finite), and of the time-out when a
  registration is overdue.  Readiness itself is not fair.
* `Timers`: weak fairness of time, delivery and the pass; strong fairness of select ending by
  a signal and by its time-out, because it may fail in between, but not for ever.

* `MqttClient`: weak fairness of the loop as a whole, which runs one thing after the other, and of
  the resolver, which finds a name or does not.  Strong fairness of what ends a select: the signal
  of a function that is invoked, and, for each stream, the time limit of its connect or its socket in any other registration.  Strong
  fairness of the end of a handshake and of the server's answers, one of which is to leave when it is sent a
  second CONNECT: nothing in the client makes these happen.  Only `mqtt_reconnect` uses it.
* `Reading`: weak fairness of the update's functions and callbacks, of bytes that have arrived, which are
  read in the end, of connecting, which has a time limit, and of the update's time-out if it has one.
  Nothing makes a server answer.
* `Application`: weak fairness of the event task, the time-out, `on_wifi_connected` and the
  controller, which carries out commands and completes scans.  Strong fairness of what takes turns with
  others: the Bluetooth task handles events and results in one order (`HandleEvent`) and gets a
  slot that becomes free again and again (`CallSlot`), and the loop's functions, which wait for
  mutexes that are given back.  The station, the server and messages are not fair.

## Proofs

Each proof module but the last extends its component and contains the typing lemma, the inductive
invariant with one step per action, and the theorems.  Constants are arbitrary subject to
the named assumptions of the modules: any number of tasks, slots, keys, timers and any
durations.

* `QueueProofs`.  The bound and the absence of a read from an empty deque do not follow from
  themselves: the invariant `IInv` counts the tasks at each place (`PushSlots`, `PopSlots`,
  `Unannounced`, `Granted`), so that free slots, announced values and those in the hands of a
  task add up.  The refinement of `BoundedFifo` uses it to show that a refused operation is one
  that the abstract queue may refuse.
* `InvokeProofs`.  `LoopIInv` adds to it who holds `queue_mutex`, that a batch is not larger than
  what `consume_sem` announces, and that the datagram is in one place at most and in one if the
  counter is not 0.  From it follow `NoLostWakeup`, `DrainFinds`, `ConfirmNeverFails` and the
  refinement of `Wakeup`.  `InOrderOnce` proves `NothingLostOrReordered`: for each task, what the pipeline
  holds of it is numbered without a gap from what ran to what was queued, which a push at the back and
  a pop from the front keep.  It assumes that the wait of a push does not run out, as the run
  that checks the property does; a push that runs out drops its function, as the code does.
  `CyclicWaitLasts` proves `CyclicWaitIsForever` under the same assumption: no step but one of the
  task that waits, or of the loop that wants the mutex, could free a slot, give the mutex or move the
  loop, and none of these two is enabled.  The wait of push() that runs out is all that ends it.
* `PollProofs`.  `AnswerInvariant` says that what is registered, and what is still to do of the
  copy, has not been answered: the erase before the callback is what makes it inductive.  Two
  theorems hold under assumptions about the callers, written in their statements:
  `CancelEndsSelect` if other tasks do not cancel, `EveryRegistrationAccounted` without unnotify
  and replacement.  The runs show that neither can do without.
* `TimersProofs`.  `NoDrift` for any periods other than 0, `NeverOversleeps` without an assumption about negative
  time-outs; its invariant relates the time-out to the clock that was read for it.  `CallbacksInOrder`
  proves `DueInOrder`: `OrderIInv` adds that what is collected is no later than any timer that
  runs, which is what makes appending keep the order, and that for each timer the calls and
  its places in the list add up to what was collected.
* `MqttClientProofs`, for any number of streams, descriptors, publications and calls of `connect` and, but for the last
  two groups, any faults.  What is said about the client's one stream (`SessionInv` in part, `AttemptInv`) is said of the
  behaviours in which `connect` has replaced none, as the code breaks it otherwise; the step in which
  `connect` does replace one ends the obligation.
  `OwnInv` adds to `OwnsItsDescriptor` the types of the descriptors and that, over
  TCP, `server_fd` stays unset.  A number that is handed out was free, so no stream had it; what is
  closed is forgotten in the same step.  `TInv` adds to `TypeOK` that a stream has at most one write under
  way (`OneWrite`): it is being called, or registered, or is the tail of a callback, and its operation is in
  the queue.  Without that, the queue could be empty where `do_write_async` takes its front.  `RegInv`
  joins the two to `RegistersOwnDescriptor`: a stream registers the number that it has, which `OwnInv` says is
  its own, and `socket_close` and the destructor cancel, or erase, what they close.  `SessionInv`
  generalises `KnowsItsSession` to the moments between the calls of one callback, and adds that a stream connects
  once (`OneConnect`), that one that is still to connect is not up and is not read from (`Untouched`), and
  that, until one is replaced, of the streams that are up only the client's is read from (`ReadsCurrent`): a packet
  of an old stream never gets to a handler.
  `AttemptsOneByOne`, `AlwaysAttended`, `StreamIsThere` and `AttemptsOwnTheirDescriptors` hold for any number of
  streams and descriptors under `OnlyConnectionsFail`, which is what `mqtt_reconnect` assumes: the faults are
  those of connecting and reading, and nothing is published and no ping is due.  What each other fault
  breaks, and what a repeated connect does, is said under Runs.  They share `AttemptInv`.  Its core is `OnePlaceInv`: the attempt is at the
  resolver, or in a function that was invoked, or in what the loop watches, or in what runs, and in one of
  them only, so that the step that ends it can begin the next.  What makes that inductive is what each place
  knows of the stream (`ResolverInv`, `FuncInv`, `EntryInv`, `CallInv`).  The upgrade, the closing of a dropped
  stream and the subscriptions run beside the attempt (`Aside`): the functions of a dropped stream are in order,
  it writes before it closes and closes once (`FuncsInv`), and a pass that still has to answer has its entry in the list
  (`PassInv`).  Over TLS the destructor closes `server_fd` once more, which is harmless only because no stream
  is in that state (`Stale`) when a socket is made (`NoneIsStale`): the answer of the resolver is taken when the
  pass holds no copy, and what nothing refers to has been destroyed before.
  `ConnectsCompleteOnce` is the refinement of `Completion`, over TCP and without a write that waits, with any
  other fault and any number of streams that connect side by side.  `CompletionInv` rests on `RegInv`
  and `SessionInv`, in which a stream connects once and in one place.  It adds that what the loop watches for writing is a connect,
  under the number of its stream's socket (`EntriesInv`), that a connect which a pass has still to answer is
  still in the list (`CopyInv`), and that only a stream whose connecting is over is closed (`SettledInv`), so that no
  close cancels a connect.  `ListedIs` and `UnderwayIs` find
  from these that a stream is under way just when one place has its connect, so that a step is a connect (a
  stream is made), a complete (its place is given up and connect's callback begins), a return
  of it, or a stutter, with one lemma for each action.  The answer of a pass is the step that matters: what it
  erases is what it answers, because over TCP two streams do not have the same number.
* `ReadingProofs`, for any sizes, any requests and any bytes.  Each use of the buffer keeps
  the offsets in order and inside the vector, and is a step of `ByteQueue` on the content; the
  lemmas say where `reserve` leaves the bytes that are not consumed.  `Throw` is the step that needs
  care: it leaves the content alone only if it has moved nothing.  These theorems are about every use
  of the buffer (`BufferSpec`).  `ReadersKeepBytes` says it of the readers: `Spec => BufferSpec`, although a
  connection may begin with bytes of a lost one in the buffer and a read may have thrown.  All that is known of the
  client's buffer and wire then is `OctetsInv`: they hold octets, so that a remaining length that is made of them stays a
  number and what is read or consumed next a size; for the update `UpInv` is at hand.
  `UpdateIsWhole` is about the readers: `Follows` says that buffer and wire hold the response from the
  offset that has been consumed on, and `AskedInv` that what is left of the body but not asked for, what
  the partition has and what the buffer has or is about to get add up to the declared length.  It is not enough that
  nothing is left: the callback of a read has to find an empty buffer as well.  `UpdateAssumption` gives
  the responses their types and says that pieces are not empty, which 512 and 2048 are not.
  `PacketsCutRight` is about the other reader, for any base, any modulus and any packets with lengths below
  it.  `FrameInv` has a part for each read.  `Coming` says which bytes buffer and wire hold: all packets
  that are still to come; or the digits of some `r` and then the payload and the packets behind it; or these
  alone.  What has been read of a length, `r` times the multiplier, and no more, is the length of the
  packet modulo `Modulus`: `Decodes` shows that a step keeps this although sum and multiplier are cut to
  32 bits each time.  `FrameShows` gets from it that a read which waits with nothing on the wire waits for
  the first byte of a packet that nobody has sent.  The invariant is conditional on `~cut`, as the property is: a
  connection that begins with bytes in the buffer breaks `Coming`.
  What the server sends is defined by recursion (`Digits`, `Unsent`).  In the place of an induction theorem
  stands `LeastOf`, that a set of numbers has a least element, which follows from the library's
  `NatLessThanWellFounded` and `WFMin`.  `RecursiveFcn` shows with it that equations whose right-hand side
  looks only at smaller numbers (`Descends`) have a solution, and so that a recursive function satisfies its own
  definition; `DigitsAre` and `UnsentIs` are the two uses.
  `FramingAssumption` says that a length is below 2^32, which the client could not hold otherwise, and that
  bytes are bytes.
* `ApplicationProofs`.  `Guarded` is not inductive: `Heard` adds that a property that is true has been handled, is about to
  be announced, or has its function in the queue.  Nothing is assumed of the functions
  in the queue but that it is a sequence, so the theorem holds for any size and any of them.
  `StoppedIsGone` is about drivers that are numbered without end.  `ClearsWhole` is what it rests on:
  when the map is to be cleared by a call that is still to be made, everything that runs
  and is not replaced is stopped by a call before it, no call before it starts a driver, and
  the one after it invokes the function that creates.  `OneSlot` (a driver connects once, so
  that disconnecting it leaves no slot), `NoResultCalls` and the types complete it.  That
  `on_provisioning` stops all of the map needs that an order of a finite set without repetition has
  every element (`ListedOnce`, from `IsFiniteSet(Name)` in `ApplicationAssumption`), and the results that
  are queued are carried over by a lemma for each way in which the queue changes
  (`ResultsAppend`, `ResultsPop`, `ResultsSame`).
* `GridLayout`.  If the LEDs of a strip are fewer than 65536 and the stride is the default one,
  `convert_xy` numbers the cells of the grid one to one (`CellsAreLeds`, `CellsDiffer`): a division with
  remainder is unique, and a mirror image stays in its line.  `EdgeIsAnotherLed` shows what the
  check of line 88, which says `>` and not `>=`, lets pass.

Only model-checked: all liveness (`NoStrandedValue`, `RunsUnlessCyclicWait`,
`CancelAnswered`, `ReadyAnswered`, `TimeoutAnswered`, `CancelledLeavesUnlessStranded`,
`DueFiresUnlessOversleeping`, `AttemptEnds`, `UpdateEnds`, `BootEnds`, `ProvisioningEnds`,
`KeepsScanning`), for which the provers have no rules of fairness.  Every safety property of the
passing runs is proved, the invariants and the action properties.

## Not modelled

* The parts of the plan that are not done; `PROJECT.json` lists the hazards found in them, each with its line.
* Of the streams: the references to a stream that the resolver's task still holds after it has
  answered.  Of the client: `subscribe` and `unsubscribe` while connected, the matching of topics, and
  remaining lengths with more bytes than they need.  That each return of the Wi-Fi connects the slot of
  `on_mqtt_connected` again is in `Application` only.  A failing certificate, for which `connect` and `handle_error`
  would call each other for ever.
* Of the application: remote commands other than the update, the LED test, two updates at a time
  (`main.cpp:317` starts one for each command), and the results that a driver collects: they are cleared
  at every timer, published or not.
* GPIO, the LED strip, the registry: peripherals and configuration.  Of tasks, thread locals and event
  groups there is nothing but calls of FreeRTOS.
* Third-party code.  The repository contains Boost and a JSON library, 3,000 of its files and nearly all of
  its lines; the program's own code is about 10,000 lines.  What the program uses of them, decoding and
  containers, appears as data.
* Time that passes between the reading of the clock for a time-out (`MainLoop.cpp:231`, 246-257) and the call
  of select (288): `Timers` has them in one step, so the sleep of a timer is bounded from the moment
  select is called.
* Running out of memory, inside `std::deque` or elsewhere.
* The end of the loop: `terminate` sets a flag that `run` does not read, so its signal is all there is.
* What callbacks throw: `handle_queue`, `handle_io` and `handle_timeout` catch everything, so a callback
  that throws is one that returns; exceptions of timer callbacks are not caught and would end the task.
* A timer with period 0, for which `handle_timers` would not end; nobody creates one.
* Formatting, logging, and decoding of JSON, HTTP headers, URIs and advertisements.
