# TLA+ models of abs-software

abs-software is the on-board software of a satellite built from an Android
phone and Arduino payloads. Its core is the System Data Bus (SDB), a daemon to
which every other program connects over TCP and through which they send each
other commands (MCS packets). This directory holds TLA+ modules that model the
daemon, the library its clients use, the format of the packets, the firmware of
the payload board and the task scheduler; TLC configurations that check them on
small instances; and proofs, for instances of any size, that TLAPS checks.

Paths below are relative to `src/src/Architecture/` unless they start with
`src/`.

## 1. The system

| Part | State it keeps | Operations | Interacts with |
|---|---|---|---|
| Module threads, `SDB/sdb_module.c` | `sdb_module[]`: per connection descriptor, name, group, mutex, condition variable, a one-packet mailbox (`data`, `data_valid`), `data_socket`, queue of unanswered packets | handshake; take a packet from the mailbox (`process_pkt_sdb`) or from the socket (`process_pkt_socket`); check permissions; find the addressee by name; put a packet into its mailbox | each other, through mailboxes; clients, through sockets |
| Observer, `SDB/sdb_observer.c` | its wake-up pipe | `select` on all sockets, `trylock` a slot, set `data_socket`, broadcast | module threads; woken up by a handshake |
| Director, `SDB/sdb_director.c` | listening socket | accept, `sdb_module_init` | creates module threads |
| Packet queue, `SDB/sdb_queue.c` | doubly linked list ordered by priority | push, get by id, blocking pop | module threads, USB bridge |
| Quality of service, `SDB/sdb_qos.c` | ten buckets of events | register, start, stop, dump | called by module threads |
| USB bridge, `SDB/sdb_usb.c` | send queue, table of open packets | send, receive | not started by `main` |
| Process, `SDB/sdb.c` | thread ids | start, shut down on a signal | all of the above |
| Client library, `Libraries/SDB/sdb.c` | list of pending packets, list of callbacks | connect, register, send synchronously or not, read | the daemon |
| MCS codec, `Libraries/MCS/mcs.c`, `Libraries/ABS/abs.c` | none | read and write a packet with a time-out | daemon, clients |
| Command table, `MCS/mcsg.json`, generated by `MCS/mcsg.c` | commands, destinations, groups | none | daemon, codec |
| Firmware, `src/src/Arduino/abs` | event list, counter of ticks, pins, card | execute a packet and answer it, configure an event, execute the events that are due, timer interrupt | USB bridge |
| Scheduler, `Scheduler/` | local solutions of each satellite, combination, best solution | generate an instance, try every combination | none |
| Application control, `Libraries/app_ctrl` | SQLite database, files | install, remove, start, stop | Android |

What is hard about it: every module thread holds its own mutex all the time
except while it sleeps, and takes a second one to deliver a packet; the
observer works from a `select` result that is stale when it is used; a slot is
in the table before its handshake, and stays there after a failed one; answers
come back in any order, late, or twice. Modules with the same hash share a list
of events, from which each takes its own out. A packet is read field by field,
each with its own deadline. On the board an interrupt reads and writes the list
of events between any two statements of the loop. `PROJECT.json` lists the chief hazards line by
line.

What makes each part correct: the bus delivers a request only to the module it
names and an answer only to the module that asked, at most once, loses nothing
in a mailbox, holds its locks where the code believes it does, and always gets
to what was put into a mailbox or sent on a socket. The queue stays ordered and
finds the oldest packet with an id. A dump of the events returns each event of
its module once. The client library gives each answer to the thread that waits
for it. The codec reads what was written. The board answers the packets in
order and runs the events that are due. The scheduler finds the best
combination.

## 2. Modules

| Module | Models | Extends |
|---|---|---|
| `SdbQueue` | the queue as operations on a sequence | |
| `McsCommands` | the command table and the permission check | |
| `SdbBus` | director, observer, module threads and clients | `SdbQueue`, `McsCommands` |
| `MCSdbBus` | instances of `SdbBus` for TLC | `SdbBus` |
| `SdbQueue_proofs` | lemmas about the queue | `SdbQueue` |
| `SdbBus_proofs` | the inductive invariant and the theorems about the bus | `SdbBus`, `SdbQueue_proofs` |
| `SdbClient` | the client library in one program: callers, reading thread, callback threads, with the bus as environment | |
| `MCSdbClient` | instances of `SdbClient` for TLC | `SdbClient` |
| `SdbClient_proofs` | the inductive invariant and the theorems about the library | `SdbClient` |
| `SdbQosLog` | what the events promise: a log per module | |
| `SdbQos` | the event table with its lists, locks and dump buffer; instantiates `SdbQosLog` | |
| `SdbQos_proofs` | the inductive invariant and the refinement | `SdbQos` |
| `McsCodec` | packets as bytes on a connection, written and read field by field | `McsCommands` |
| `McsCodec_proofs` | the theorems about packets as bytes | `McsCodec` |
| `SdbUsb` | the two threads of the USB bridge and its queues as linked lists | `SdbQueue` |
| `SdbUsb_proofs` | the theorems about the bridge | `SdbUsb` |
| `UsbFormat` | the bytes of a packet between daemon and board, as each side writes and reads them | |
| `Firmware` | the loop and the timer interrupt of the board | `UsbFormat` |
| `Firmware_proofs` | the theorems about the board | `Firmware` |
| `Scheduler` | the enumeration of combinations | |
| `Scheduler_proofs` | the theorems about the scheduler | `Scheduler` |
| `MCSdbQos`, `MCMcsCodec`, `MCSdbUsb`, `MCFirmware`, `MCScheduler` | instances of these for TLC | |

### SdbBus

A module is its slot in `sdb_module[]`. `pc[m]` says where its thread is:
`handshake` (521-549), `naming` (552-553), `group` (555-580), `loop` (584),
`wait` (591), `relock` (583 and the return from 591), `scan` (117-122), `found`
(131-153), `lockTo` (384), `write` (393-428), `waitTo` (390), `dead` (604).
`owner` and `depth` are the recursive mutexes, `data` and `data_valid` the
mailboxes, `hand` the packet a thread is sending, `cur` the packet of its
handshake or of its scan with the variables of the loop, `toSdb` and `toApp` the
sockets (`toApp` keeps everything a client has received), `obs`, `watch`,
`todo` and `pipe` the observer, `rfd` and `open` the descriptors, whose numbers
are reused.

One action is what a thread does between two points where another thread can
see the difference: to the next lock, wait, socket read, or use of what is
shared without a lock. So `process_pkt_sdb` and `process_pkt_socket` are one step
each, with everything they call up to the scan for the addressee; every turn of
that scan is a step (`scan_step`), because it reads the names of other slots
without their locks, and so is the look at the addressee's group (`forward`). The
handshake gives the slot an empty name (`handshake_read`), lets it grow to any
beginning of the name that `Begun` has and at last to the whole
(`handshake_name`), and only then sets the group (`handshake`) or gives up with
the name in the table (`handshake_refuse`). `lock_to` takes that lock and tests the mailbox, and
`sdb_module_write_mcs_packet` fills it, broadcasts and unlocks.
`pthread_cond_wait` may return without cause (`spurious_wakeup`).

Ways in which the model is coarser than the code:

- A packet is read from a socket whole. One that `mcs_read_command` rejects
  (`type = "bad"`) consumes exactly itself.
- Ids do not collide; the code draws 32 random bits, 7 for payload commands.
- `strcmp` compares with the name as it is at one moment, that of the last byte it
  reads: the bytes before are written and do not change any more. A name that is
  still NULL ends the daemon there, as `strcmp` does.
- `sdb_module_init` and the first lines of the thread it creates are one step.
- Names, groups and commands are values; payloads are not represented, except
  for being too big for the mailbox (`big`).
- What C leaves undefined and the model fixes: the mutexes are recursive (the
  attribute object is not initialised, 514), the table is not overrun
  (`MaxConn` is at most `SDB_MODULE_MAX`).
- A write to a connection the client has closed is lost, or ends the daemon
  with SIGPIPE.

Clients are the environment: they send requests one after the other, answer a
request they have received, perhaps twice, send bytes that are no packet, close.

### SdbClient

`th[t]` is a thread of the program: where it is (`pc`), the function it called
last with its result (`call`, `ret`, `out`), the pending element it works on
(`elem`) and the pending packet it has from `sdb_send_async` (`handle`). `pc` is
`idle` outside the library; `shake` after `sdb_connect` has started the reading
thread (line 263 of `Libraries/SDB/sdb.c`); `send`, `sent`, `wait`, `relock`
and `delete` the stages of `sdb_send_sync` (348-366), the middle three also
those of `sdb_wait_async` (395-404); `write` in `sdb_send_async` (377-384).
`reader` is the reading thread (132-193): `select`, `read`, then `ans` or `req`
with a packet in hand (`pkt`), and `ppLock` when it has found the pending
element (`pkt_pending`) and holds the lock of the list. `pp` are the elements
ever made, with their `pp_lock`, `pp_valid` and `pp_pkt`; `pending` is the list;
`callback_list` with its size and lock; `running` the callback threads. `toBus`
keeps all that was written; `toApp` is what is still to be read.

A lock that is taken and released within one step is a guard only. Two are
variables: the lock of an element, held across `write` and `cond_wait`, and
`pending_list_lock`, held by the reader between finding and filling.
`callback_list_lock` is one because a second registration leaves it locked
(309-313).

Ways in which the model is coarser than the code:

- One thread connects and disconnects, and a pending packet is used in the
  thread that got it. The library asks for neither in so many words.
- Ids are distinct, unless `Faults` has `"collide"`; `rand` promises nothing.
- Packets are read whole; `"cut"` is a packet whose rest does not come in time.
- Memory of a freed element is never reused, so that any use of it is seen
  (`NoUseAfterFree`).
- `pp_pkt` of a new element is not initialised; reading it gives `NULL`, which
  stands for any value, and `sdb_connect` may then do anything.
- Payloads are left out; `cmd` is a command, or how an answer turned out.

The bus is the environment. It answers requests in any order or not at all,
sends requests once it has seen the handshake, may answer twice, and may close.

### SdbQos and SdbQosLog

`ei_first`, `ei_last` and `ei_lock` are the ten lists of `SDB/sdb_qos.c`;
`se_agent`, `se_next` and `se_len` are the events, numbered in the order they
are registered, an event without an agent being free memory. `register_event` is
one step, since what it does before the lock touches only its own memory. A dump
is many: `sdb_qos_dump_module` takes the lock, `dump_own` and `dump_other` are
the two branches of the loop, `dump_end` sets `ei_last` and returns. An event is
printed as a line of `se_len` bytes; the text itself is left out, and `LINE_MAX`
is counted from the formats, the table of commands and the length of a name.
`SDB_QOS_STOP` is a dump that switches the events off at its end. The size of the
answer is an unsigned short (`mcs.c:430`): `SizeRange` is how many values it has,
65536 in the code, `ends` where each line of the output ends, and
`mcs_ok_packet_data` says how many whole lines are left of a longer output.

`SdbQosLog` knows no lists: each module has a set of events, a dump returns them
in order and empties the set; of more than `Whole` events it may return only the
oldest. `Whole` is the number of lines that fit the size whatever their length,
1337 in the code. The refinement mapping takes as the log of a
module its events in memory together with those the running dump has printed.

### McsCodec

One connection in one direction. `mcs_write_command` puts the bytes of a packet
on `stream`; `todo` is the list of fields `mcs_read_command` has still to read,
which grows when the type and the command are known. `abs_read` takes one field
with all its bytes; `read_timeout` is the case in which they never come,
`read_late` the one in which the deadline passes while they are on their way,
with as many read as the time allowed. In both the bytes read are lost and the
rest stays on the stream, as in the code. Left out: the clock, and the text of
debugging messages. The checks under `#ifdef DEBUG` are not in the model.
`Made` is what the functions that make packets guarantee (four bytes of id, two
for the command and for the size of the data, no command and no destination in
an answer, four bytes of error code); `CodecAssumption` asks it of `Packets`.

### SdbUsb and UsbFormat

The queue of `SDB/sdb_queue.c`, pointer by pointer: `push_append`, one
`push_swap` for each turn of the loop, `push_end`, `sdb_queue_delete`. `abs`
holds what the operations of `SdbQueue` make of the same calls. The writing
thread pops, converts, remembers and writes (the last three are
`sdb_usb_thread_write`); the reading thread takes answers
out of the queue of open requests. The daemon calls neither `sdb_usb_init` nor
the push at the end of `process_pkt_payload` (both are commented out); the model
is of the code as it would run if it did.

`UsbFormat` has the four functions that turn packets into bytes and back:
`mcs_to_usb` and `usb_to_mcs` of the daemon, `process_packet` and `to_raw` of
the board. Data are opaque; the header and the id byte are numbers. `Fits` takes
arguments below 128, as `src/doc/firmware/firmware.tex:40` does; `mcs_to_usb`
does not test it and loses the top bit of a greater one.

### Firmware

`pc` is where `loop` is; every assignment of EVENT CONF is a step, because the
interrupt (`events_routine`) may come between any two. `execute_packet` is one
step otherwise: what it does to pins, serial lines and the card is left out, and
`Result` says what it answers (also `WRITE_UART` without data to the line past
the last, which touches nothing and is answered with OK). `live` are the events whose action still points
into the array `msg` of the current call of `loop`. Where the code leaves what C
defines (a response that is not initialised, the eleventh event, data of an
action after `loop` has returned), `undefined` becomes true and the behaviour
ends; the properties speak of the states before. `time` has `2 * Half` values
(`Half` is 2^15 on the board). The
variables shared with the interrupt are not volatile; the model takes the stores
in the order of the source.

### Scheduler

`generate_solutions` draws any rewards and tasks from the given sets and sorts
the rewards as the code does; `solve_step` is one turn of the loop of `solve`.
The loops within a step are recursive functions of the number of turns. `Rate` is
what `solve` does with a valid combination: `total_occurrences` sets the global
`tic`, unless it finds no memory (at most `MaxFailures` times), and
`total_reward` reads it. The counter of `solve` is an int: at `INT_MAX`,
`Incremented` lets it wrap around, or go on as in a build that keeps it in a
wider register. `tried` and `rated` are history.
Rewards are exact fractions instead of floats. `delete_duplicates` is not called
in the code and is not in the model.

## 3. Runs

### The daemon

Bounds: `MaxConn` connections, `MaxSend` packets a client sends on its own
(the handshake included), `MaxAnswer` answers it gives. Two modules are enough
for every pairwise race, since a step involves two slots; three are needed for
a sender that waits for a mailbox which a third has filled, and for answers to
two requesters. Runs that ask about traffic start with the modules connected
(`InitReady`, which `Init` leads to); `bus_boot` and `bus_liveness` start with
the empty daemon, and there the second client may name a group that does not
exist and be refused. Deadlock is not checked: with
the bounds used up, or the daemon gone, the system may stop.

| Run | Checks | Shows |
|---|---|---|
| `bus_boot` | `TypeOK`, `LockDiscipline`, `SelfSendNeverBlocks`, `RequestToAddressee` | with two clients that connect, send every command or bytes that are no packet, and close, in every order, the mutexes are held as the comment at line 582 says, a module that sends to itself never meets its own full mailbox, and requests arrive only where they are addressed, with names that are met half copied; the name of one client begins that of the other, so the exception of `RequestToAddressee` happens |
| `bus_answers` | `AnswerToRequester`, `AtMostOneAnswer`, `AnswerExpected`, `NoOverwrite` | with two requesters among three modules, answered in any order and twice, each answer reaches the one that asked, none is delivered twice, none is thrown away on its way, and no full mailbox is overwritten by the senders that share it |
| `bus_liveness` | `MailboxServed`, `SocketServed` | a filled mailbox is emptied, and a packet on a socket is read unless its thread is sending, also when the other connection is refused or packets are too long for a mailbox |

Violation, a disagreement between the code and its document (details under
"findings" in `PROJECT.json`):

| Run | Property | Shows |
|---|---|---|
| `all_answered` | `AllAnswered` | one request, answered, whose answer never arrives: a stale notification makes the thread of the requester read an empty socket for ever with its lock held |

### The client library

Bounds: two threads, of which one connects; `MaxCalls` calls per thread,
`MaxElem` pending elements, `MaxBus` packets the bus sends of its own accord.
Two callers and the reader are enough for every race: a step uses one element,
and each element has one caller. `ListMin` is 2 instead of 5 so that the list
of callbacks grows within three registrations. `client_connect` starts with a
program that has done nothing; it has three commands and two callbacks, of which
neither the actions nor the invariants tell one from another, so it uses their
symmetry. The others start connected and with a callback registered for one
command (`InitReady`, which `Init` leads to). `client_served` has two commands,
so that a request may be for one without a callback, or for one that is
unregistered or registered a second time meanwhile.
Deadlock is not checked: a program stops calling.

| Run | Checks | Shows |
|---|---|---|
| `client_connect` | `TypeOK`, `RegisteredFound`, `NoUseAfterFree`, `ReplyOnce` | from an unconnected program, with failed connections, refused handshakes, writes that fail, repeated answers, cut packets and spurious wake-ups, two threads that register and unregister three commands, send and check: what is registered is found with its own callback, the list never holds more than its size, no freed element is used, and a request of the bus is answered at most once |
| `client_served` | `NoUseAfterFree`, `AnswerOwn`, `AnswerDelivered`, `RequestReplied` | two threads send, wait, free, register and unregister, with answers out of order and repeated and a bus that may go away: no freed element is used, an answer reaches the call that waits for it and that call returns, and every request that arrives is answered, by its callback or with an error, unless the process or the connection ends or a second registration has blocked the reader (`ReaderStuck`) |

Violation:

| Run | Property | Shows |
|---|---|---|
| `sync_blocks` | `SyncBlocks` | one thread, one call: `pthread_cond_wait` returns without cause and `sdb_send_sync`, which is to block "until the answer is received" (`src/doc/sdb_libs/sdb_libs.tex:58`), goes on without one |

### The other components

| Run | Checks | Shows |
|---|---|---|
| `qos` | `IInv`, `ListIntact`, `OutputFits`, `LogSpec`, `DumpEnds` | two modules that share a list register, dump, stop and start in every interleaving: the list stays linked, `sprintf` never passes the end of the buffer, dumps end, and the table implements `SdbQosLog`; ten events fit the size of an answer here, so longer dumps lose events |
| `codec` | `TypeOK`, `InOrder`, `ErrorNamesPacket`, `ReadEnds`, `AllRead` | all kinds of packets, also ones a program should not write, with a late byte: what is well formed and in time is read as it was written, the first failure, late or refused in the middle of a packet, is answered under the id of the packet that failed, and reading ends |
| `usb` | `ListIsQueue`, `AnswerFindsRequest` | pushes of two modules and the bridge in every interleaving: the linked lists, from either end, are the sequences of `SdbQueue`, and a request is remembered before the device can answer it |
| `firmware` | `TypeOK`, `SlotReady`, `AnswersInOrder`, `DueAgain`, `DueIsRun` | with the interrupt anywhere and across the overflow of `time`: no event is seen half made, the daemon reads each answer as the one to its packet, events become due again in less than two intervals and are run while the cable is plugged in |
| `scheduler` | `BestOfRated`, `AllTriedOnce`, `SolutionsSorted` | for all rewards and tasks, and with an allocation that fails: `solve` tries every combination that uses a satellite once, rates each with its own `tic` and keeps the best of those it has rated |

Bounds. `qos` starts after nine events of the longest kind (a state `Init` leads
to), since the buffer grows with the tenth, and has room for four more, enough
to take events out of the front, the middle and the end of a list and to make a
dump longer than `SizeRange`, 512, allows; modules 0 and
10 are the nearest that share one. `codec` has two packets on the connection:
one that fails and one that is read out of step after it; the data are longer
than one byte can count, and the name is as long as it may be and one longer.
`usb` has five requests of three priorities from two modules, so that a push
overtakes none, some or all, and one request that cannot be converted. In
`firmware` `time` has 8 values: it overflows, and the intervals 2 and 5 do and do
not divide their number; two events and three packets let an event configure
another one and reach the end of the list. `scheduler` has two satellites with
three solutions each and eleven tasks, for which the integer division at
`shed.c:42` gives 0 as well as 1; `INT_MAX` is 16, just enough to count its 16
combinations, and one allocation may fail. Deadlock is not checked: bounds are used up,
the scheduler ends, and the bridge and the board stop where the code is
undefined.

### Other disagreements the models show

These have no run of their own. The models behave as the code does in each of
them.

| Where | What happens |
|---|---|
| `SDB/sdb_module.c:384` | a module takes the lock of the addressee with its own held, and the only test is for itself: two modules that send to each other block each other for ever (`NoCircularWait` fails with two clients) |
| `SDB/sdb_observer.c:65` | a refused handshake leaves a closed descriptor in the table; `select` fails on it from then on and no module is notified any more (`Noticed` fails once a client may be refused), while line 575 of `sdb_module.c` wakes "up the observer to notice us" |
| `SDB/sdb_module.c:465` | the mailbox is emptied without a broadcast, so a sender that sleeps until it is empty (390) may sleep on beside an empty one |
| `SDB/sdb_module.c:94` | a `break` is missing after SDB_QOS_STOP, which is therefore answered twice: `AtMostOneAnswer` fails once `AppCmd` has `sdb_qos_stop`, and the commands of `bus_answers` leave it out |
| `SDB/sdb_module.c:131` | `procman_start` is refused because of the group of its static destination, which the check was not to look at (`src/doc/sdb_mcs/sdb_mcs.tex:73`) |
| `SDB/sdb_module.c:118`, `552` | a name is in the table from its first byte on, and the scan takes no lock: a request for a module whose name begins a longer one, or for the empty name, may go to the module of the longer name while that is in its handshake, or be refused because of a group that is not set yet |
| `SDB/sdb_module.c:545` | the length of a name is the difference of two pointers taken the wrong way round: the test is never true, and names of any length are accepted |
| `SDB/sdb_qos.c:226`, `Libraries/MCS/mcs.c:430` | the size of a dump is cut to 16 bits: of more than some 1340 events the answer holds the first part, possibly a few lines only, and all of them have been freed |
| `Libraries/SDB/sdb.c:398` | `sdb_wait_async` tests `pp_valid` once before `pthread_cond_wait`, so a spurious wake-up lets it return as if the packet held "valid data" (`src/doc/sdb_libs/sdb_libs.tex:98`); the same flaw in `sdb_send_sync` is the run `sync_blocks` |
| `Libraries/MCS/mcs.c:476` | ids are random and not compared with the pending ones: `AnswerOwn` fails once `Faults` has `"collide"` |
| `Libraries/SDB/sdb.c:291` | after a failed or finished connection `sdb_connect` returns 0 without connecting, because `socket_fd` keeps the closed number |
| `Libraries/SDB/sdb.c:338` | a command stays registered after it is unregistered: the list is shifted and not shortened |
| `Libraries/SDB/sdb.c:155` | `sdb_disconnect` between `select` and the read ends the process, because a NULL packet is used |
| `Libraries/SDB/sdb.c:312` | registering a command a second time returns with `callback_list_lock` held: the reading thread blocks at the next request, which is never answered, and neither is any call after it. `src/doc/sdb_libs/sdb_libs.tex:127` promises a new thread; `ReaderStuck` is the exception of `RequestReplied` and `AnswerDelivered` |
| `SDB/sdb_queue.c:150` | "Block until it is possible to pop" (140): after waiting, the element found before, a null pointer, is used (`PopBlocks` of `SdbUsb` fails) |
| `SDB/sdb_usb.c:71`, `137` | the threads of the bridge call `sdb_module_write_mcs_packet`, which reads the `SDBModule` of the calling thread; they have none, and the first answer ends the daemon |
| `SDB/sdb_usb.c:90`, `src/src/Arduino/abs/assets.ino:102` | from 128 bytes on, the size `to_raw` writes is not the one `usb_to_mcs` reads; no answer is that long |
| `src/src/Arduino/abs/assets.ino:264` | the number of events is not compared with `MAX_EVENTS` |
| `src/src/Arduino/abs/assets.ino:120`, `267` | the action of an event keeps a pointer to its data in the array `msg` of a call of `loop` that has returned |
| `src/src/Arduino/abs/assets.ino:212` and others | several commands leave the response uninitialised |
| `src/src/Arduino/abs/abs.ino:72` | no event is executed while the cable is unplugged |
| `src/src/Arduino/abs/abs.ino:107` | an event that is due again while it is executed loses that turn |
| `Scheduler/shed.c:42` | with more than ten tasks the integer division may make every reward 0; the solution is then printed without having been set |
| `Scheduler/shed.c:173` | the counter is an int, the number of combinations a long long: beyond 2^31-1 combinations (12 satellites with 6 solutions each) the counter overflows, and where it wraps around the loop does not end |
| `Scheduler/shed.c:19`, `180` | without memory `total_occurrences` returns -1, which `solve` divides by: the reward is negative and the combination is passed over in silence |

### Fairness

`SdbBus`: `Fairness` is weak fairness of the observer and of each module
thread: they are kernel threads of one process and the scheduler runs each of
them. It also says that `pthread_cond_wait` does not return without a broadcast
for ever; it may do so any finite number of times. Weak fairness gives no
promise to a thread that waits for a lock which others keep taking and
releasing, and the mutexes of the code give none. `ClientFairness`, used by
`all_answered` only, says that clients answer; nothing is assumed about
connecting and sending. The violations of liveness properties are behaviours
under this fairness.

`SdbClient`: `Fairness` is weak fairness of the reading thread, of each thread
that is inside a call, and of the callback threads, all of them threads of one
process; callbacks are taken to return. Nothing is assumed about the program
making calls or the bus answering: `AnswerDelivered` and `RequestReplied` start
from a packet that is on its way.

`SdbQos`: a module thread in the loop of a dump goes on; it waits for nobody
there. `McsCodec`: the reading thread goes on, and a deadline passes. Nothing is
assumed about writing. `Firmware`: the board calls `loop` over and over, and the
statements of `loop` go on between interrupts; `DueIsRun` speaks of behaviours
in which the cable is plugged in from some moment on.

## 4. Proofs

### The daemon

TLAPS proves for every `MaxConn` up to the table's size and all `MaxSend`,
`MaxAnswer`, names, groups and commands (`BusAssumption`,
`ListNumAssumption`):

| Theorem | States |
|---|---|
| `TypeCorrect` | `Spec => []TypeOK` |
| `LocksHeld` | `Spec => []LockDiscipline` |
| `SelfSend` | `Spec => []SelfSendNeverBlocks` |
| `MailboxKept` | `Spec => NoOverwrite` |
| `AnswersRouted` | `Spec => []AnswerToRequester` |
| `RequestsRouted` | `Spec => []RequestToAddressee`, which excepts destinations that begin a longer name |
| `PushSorted` | pushing keeps a queue ordered by priority |
| `OneAnswer` | `Spec => []AtMostOneAnswer`, if no client sends `sdb_qos_stop` |
| `AnswersExpected` | `Spec => []AnswerExpected`, if also `"big" \notin AppFault` |

The condition of `OneAnswer` is needed because of the missing `break` (section 3);
that of `AnswersExpected` because an answer that is too long for a mailbox closes
the entry of the queue and is then given up, so that a second answer to the same
request finds no entry.

None of the properties is inductive by itself. `IInv` adds

- `LockInv`: a thread owns its own mutex exactly in the states of `Holding`; if
  it owns another one it is writing into that slot; while it sends, its own
  mailbox is empty; `depth` is 0, 1, or 2 for a module that writes to itself.
  That a sender's mailbox is empty is what makes `SelfSendNeverBlocks` true: it
  was empty when the loop chose the socket, and nobody else can fill it because
  the lock is held;
- `TableInv`: the slots in use are those below `last`, and a slot has no name
  before its handshake; what it shows afterwards is its name or, until it is
  copied, a beginning of it (`Shown`);
- `RouteInv`: the id of a request names its sender, in the socket, in the hands
  of a thread, in a mailbox and in a queue entry, whose `id_process` is that
  same module; the slot a request travels to shows, or has shown, the name it
  asks for (`For`), and a scan that has found its slot has seen that name there;
- `FreshInv`: before its handshake a client has received nothing and answered
  nothing, so the id of a first packet is its own.

`TypeStep`, `LockStep`, `TableStep`, `RouteStep` and `FreshStep` prove that each
part is kept, action by action. `SocketStep` says once what any packet from a
socket can lead to, and `RouteMoves` reduces `RouteInv` to what is new in each
place. `WriteEffect`, `PushEffect` and `DeleteEffect` say what a write and the
two queue operations leave behind.

The last two theorems follow one id through the daemon. A request whose addressee
is being looked for counts as unread: `Line` is the socket with it in front.
`LifeInv`: the request, and after it the answer, is unread, or in the hand of one thread,
or in one mailbox, or owed by the one module that serves it (`OneCarrier`). The
queue of its sender has one entry for it, two while the sender serves its own
request, never three, and none once the answer is given. `KeptInv` adds the
opposite direction: as long as a request is under way the queue of its sender
has the entry the answer will close. `NoMore` and `NoLess` name what a step that
does not concern the id leaves as it was, and most steps are of that kind for all
ids but one (`Takes`, `Empties`, `ClientPut`).

### The client library

For any set of threads, any callbacks and any bounds (`ClientAssumption`), and
whatever else `Faults` has, `"collide" \notin Faults` implies

| Theorem | States |
|---|---|
| `TypeCorrect` | `Spec => []TypeOK` |
| `UsesListed` | `Spec => []NoUseAfterFree` |
| `AnswersMatch` | `Spec => []AnswerOwn` |
| `RegisteredIsFound` | `Spec => []RegisteredFound` |
| `RepliesOnce` | `Spec => []ReplyOnce` |

The condition is needed: with `"collide"` in `Faults` TLC finds the behaviour
listed at the end of section 3. Spurious wake-ups are allowed. `IInv` adds to the
types

- `OwnInv`: the reader has `pending_list_lock` while it has an element in hand;
  every element a thread uses, for its call or as its pending packet, is in the
  list, and no other thread uses it; the element of a synchronous call is not
  the pending packet of the same thread. So a thread that deletes its element
  takes it from nobody;
- `IdInv`: element `e` has id `e`, and every packet, written, under way, in hand
  or in a callback thread, has the id of what it is about. So a search by id
  finds the element the answer is for. `delete_pending_id` searches by id too,
  which is why the freeing of elements depends on it.

`TypeOK` itself needs `OwnInv`: an element that is used must be one that was
made. The steps are proved in groups, `BeginType` to `OthersType`, `BeginOwn` to
`OthersOwn`, `ThreadsId` and `OthersId`; `OwnKeptBy`, `OwnAdd` and `OwnDelete`
say once what a step may do to the owners.

`RegisteredIsFound` strengthens `RegisteredFound` by `CallbackInv`: the first
entry with a command is the one that counts, registering appends, and the shift
of `sdb_unregister_callback` moves the first entries of all other commands
together (`FirstAppend`, `FirstShifted`).

`RepliesOnce` rests on `ReplyInv`: a request of the bus is in one place only, on
the socket, in the hand of the reader, in a callback thread, or answered.

### The events

For any modules, any number of events, any lines of at most `LINE_MAX` bytes and
any `SizeRange` (`QosAssumption`):

| Theorem | States |
|---|---|
| `Inductive` | `Spec => []IInv` |
| `ListsIntact` | `Spec => []ListIntact` |
| `BufferFits` | `Spec => []OutputFits` |
| `ImplementsLog` | `Spec => LogSpec` |

`IInv` describes every list by the set of its members, without following the
links: `ei_first` is the least member, `se_next` of a member the next one, and
`ei_last` the greatest unless a dump is under way. `DumpInv` says where a dump
is: it has the lock, `old_event` is the last member before `event`, all events
of its module are at or after `event`, the printed ones are before it and in
order, and 50 bytes of the buffer are free. The last is what `BufferFits` needs,
and `LINE_MAX + 1 <= 50` the reason why it is enough. `EndsInv` says that the
output has at most `LINE_MAX` bytes for each line and that every line ends within
it; so the size of at most `Whole` lines is not cut, and a dump of more returns a
beginning of the log, which is what `SdbQosLog` allows.

### The board

For any packets that fit their bytes, any number of events and any even number
of values of `time` (`FirmwareAssumption`, `ActionsAssumption`):

| Theorem | States |
|---|---|
| `TypeCorrect` | `Spec => []TypeOK` |
| `EventsReady` | `Spec => []SlotReady` |
| `AnswersMatch` | `Spec => []AnswersInOrder` |
| `EventsDueAgain` | `Spec => []DueAgain` |

`SlotInv` adds to `SlotReady` what the slot at `eventCount` has while it is in
the making. `AnswerInv` adds that one answer is missing exactly while a packet
of the daemon is worked on, that this packet is the last one received, and that
the response which waits to be sent is the expected one. Two lemmas carry the
formats: `PacketRead`, `process_packet` undoes `mcs_to_usb`, and `AnswerRead`,
`usb_to_mcs` undoes `to_raw` for answers of at most two bytes.

`EventsDueAgain` speaks of any interval, also one that does not divide the
number of values of `time`. `SinceInv` says of the ticks that `since` counts
what `time` was at each (`Ago`), and that none of these values was a multiple of
the interval. The theorem then is a statement about remainders: among as many
successive values as the interval, before the overflow or after it, one is a
multiple, so the count stays below two intervals. `ActionInv` keeps track of
where packets come from, since an event may configure another.

### The codec

For any packets the functions of `mcs.c` make (`CodecAssumption`), any number of
them and any number of late reads:

| Theorem | States |
|---|---|
| `TypeCorrect` | `Spec => []TypeOK` |
| `ReadsInOrder` | `Spec => []InOrder` |
| `ErrorsNamePacket` | `Spec => []ErrorNamesPacket` |

`TypeCorrect` holds for a reader that is out of step, too: whatever bytes it
meets, a type and a command that it accepts are in the tables. The other two
need the relation between the bytes and the packets. `Carries(s, ps)` says that
the bytes `s` are those of the packets `ps`, by giving the place at which each
ends. `Stage(p, t)` says, for each field, what `pkt` has of packet `p` and that
the stream is the rest of it followed by `t`. `OrderInv`: as long as the packets
read are well formed, until the first failure the packets written are those read,
the one that is being read, and those the rest of the stream carries. Within a
packet that is not well formed the reader may be anywhere in the stream, but it
knows the id if it is past it (`Astray`), which is all that the error answer
needs. If it takes such a packet for read, what comes later is not promised. `StageRead` is one
step of the reader within a packet, made of one lemma for each field; `StageNeed`
shows that the bytes it asks for are there, so `read_timeout` cannot come first.
`CommandTable` goes through the commands; `ValueBytes` is the conversion of a
number to two bytes and back, `SmallByte` that of the length of a name to one.

### The bridge

For any finite set of requests and any modules (`UsbAssumption`):

| Theorem | States |
|---|---|
| `ListsAreQueues` | `Spec => []ListIsQueue` |
| `AnswersFindRequests` | `Spec => []AnswerFindsRequest` |

`ThreadInv` says who pushes on which queue. `ListInv`: for each queue there is a
sequence of elements such that `first`, `last`, `next` and `prev` link it in both
directions (`Linked`), no element is in two lists, and its packets are those of
`abs`, except that a push under way has not yet carried its packet to its place
(`Content`). The turns of the loop of `sdb_queue_push_nolock` exchange two
neighbours (`Swapped`). Walking the links from either end then gives the
sequence (`WalkLinked`, which exhibits the function that the definition of `Walk`
chooses and shows by the least place of disagreement that it is the only one).
`FlightInv`: the ids that are on the cable, in either direction, or
about to be written, are matched one to one with entries of the queue of open
requests.

### The scheduler

For any number of satellites, tasks and local solutions, any `INT_MAX` and any
number of failed allocations (`SchedulerAssumption`):

| Theorem | States |
|---|---|
| `SortsSolutions` | `Spec => []SolutionsSorted` |
| `KeepsBest` | `Spec => []BestOfRated` |
| `TriesAllOnce` | `Spec => []AllTriedOnce`, which speaks of at most `INT_MAX` combinations |
| `SolvesTask` | when `solve` ends, and an int can count the combinations, none has a greater reward than the one it kept, but for those it had no memory to rate |

`SortsSolutions`: each pass of the sort brings the least of the rest to its end
(`Least`). `KeepsBest` needs that the comparison of fractions is an order and
that a combination of a positive reward passes `check_solution`, as rewards are
positive; a combination without memory has a reward that is not positive,
whatever `tic` was left behind. `TriesAllOnce` compares two ways of counting: `number_of_combinations`,
which the code computes, is how many combinations there are, and adding 1 with
carry leads from a combination to the next in the order of numbers (`Before`,
`NextInOrder`). So the combinations tried are those up to the present one
(`TriedInv`), and after so many turns they are all; the counter never meets `INT_MAX` before
(`Countable`). `SolvesTask` follows from the
two and has no run of its own.

A recursive function is shown to exist and to compute what it should by an
induction that is a lemma about sets: a set of numbers that has 0 and with each
number the next has all of them (`Induction`, `LoopExists`). The library's
theorems about induction, which take a predicate as a parameter, are not needed.

### Only model-checked

The liveness properties, which are outside the prover's reach: `MailboxServed`,
`SocketServed`, `AnswerDelivered`, `RequestReplied`, `DumpEnds`, `ReadEnds`,
`AllRead`, `DueIsRun`; and the two violations. Every invariant that a run checks is
proved.

## 5. Not modelled, and the plan

Not modelled, and why:

- Shutdown (`SDB/sdb.c:51`): the threads are cancelled asynchronously, between
  any two instructions, within `malloc` or with a mutex held; after that the
  language promises nothing, and the process ends.
- The set-up of the listening socket (`SDB/sdb_director.c`): system calls only.
- The generator `MCS/mcsg.c`: a translator that runs at build time; what it makes
  of `mcsg.json` is `McsCommands`.
- The radio of the board (`src/src/Arduino/comms`): arithmetic on the registers
  of a chip. The declarations in its header do not match the definitions, and
  `hdlc_rx` writes through a pointer that is never set, so there is no behaviour
  to model. Pins, serial lines and the card, which only the hardware sees.
- Application control (`Libraries/app_ctrl`): a sequence of calls of unzip,
  openssl, SQLite and the shell, straight through, without state of its own.
- The Android user interface, the satellite tracker and the hardware tests; the
  vendored SQLite, cJSON and JUnzip, which are most of the lines of the
  repository.

Left to do: an abstract bus (who has asked whom, and what is answered) and the
refinement from `SdbBus`; `LifeInv` is most of what that proof needs.

## 6. Running

    tlc -workers 2 -config bus_boot.cfg MCSdbBus
    tlc -workers 2 -config client_connect.cfg MCSdbClient
    tlapm SdbBus_proofs.tla
    tlapm SdbClient_proofs.tla
    tlapm McsCodec_proofs.tla

and so on for the other modules; the module of each run is in `PROJECT.json`.
