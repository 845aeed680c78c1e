# NodeBus in TLA+

NodeBus is a C++11/Qt4 message bus: boxes connect to a proxy over sockets and
register, HTTP clients post requests that the proxy forwards to a box; services
are described in an IDL and packed in bundles. This directory models the parts
of it whose correctness depends on interleavings, on orders of calls or on
boundaries, checks them with TLC and proves theorems about them with TLAPS.

Paths below are relative to the repository's `nodebus/` directory.

## 1. The system

| Component | State | Operations | Interacts with | Modelled |
|---|---|---|---|---|
| Selector, SelectionKey, Channel, IOChannel (`nio/`) | `m_keys` (fd to key), `m_pendingKeys`, `m_enabled`, the mutex, an epoll descriptor; per channel `m_active`, `m_fd`, `m_keys`; per key `m_channel` | `select`, `put`, `remove`, `cancel`, `registerTo`, `closeChannel`, `updateStatus` | the kernel's epoll set; called by every thread | `Selector` |
| PeerAdmin, Peer, Peer::Task, ServerSocketChannel (`nio/`) | `m_enabled`, the list of selected keys, the queue of the QThreadPool | `run`, `cancel`, `attach`, `processPeer`, `processServer`, `accept`, `Task::run` | one thread on the selector; tasks on the pool attach sockets, close them or leave them | `PeerAdmin`, over `Selector` |
| StdPeer, HttpPeer (`proxy/`) | `m_stdPeers` (registry), `m_uid`, `m_httpPeers` (clients that wait), the box's mutex; `m_stdPeer`, `m_reqUid`, `m_processDone` of a client | `process`, `send`, `rmRef`, `sendResult`, `cancel`, destructors | PeerAdmin runs `process`; a box's task writes to and closes a client's socket | `Proxy` |
| SharedPtr, SharedData (`core/`) | `m_data`, an atomic counter per object | construction, assignment, destruction | everything above is held by it, across threads | `SharedPtr` |
| StreamChannel, SocketChannel, SSLSocketChannel (`nio/`) | a 64-byte read buffer, a deadline; what OpenSSL has decrypted | connect, `get`, `peek`, `read`, `available`, `setDeadLine`, `close` | the parsers read through it; another thread closes it | `Stream` |
| Serializer, Parser, DataStream (`core/`) | the position in a stream | JSON, BSON and BCON encoding and decoding, `toFile`, `fromFile` | the peers, the IDL compiler | `Variant`, `Bcon`, `Bson`, `Json`, `Documents` |
| IDL parser (`core/idlparser/`) | the files opened, one symbol table, the stack of contexts of each driver, the errors | include, module, interface, member, constant | files | `Idl`, over `IdlValues` |
| IDL compiler (`idlc/`) | the elements, `m_symTbl` with marks, `m_errors` | read inputs, `link`, `processIntf`, write | IDL parser, Parser, Serializer | `IdlCompiler` |
| Bundle, SharedLib (`bundle/`, `core/`), container, master | the bundle's state, the library's handle, the bundles found | install, start, stop, uninstall, load, search | `dlopen`, Settings | `Bundles` |
| Proxy application (`proxy/proxy.cpp`) | listeners and SSL contexts | start from settings | server sockets, PeerAdmin | `ProxyStart` |
| Application, CliArguments, Settings (`core/`) | the options and their values, how far `run()` has got, the settings file | parse, run, signals, define, setup | every program | `Application`, `Settings` |
| ServerSocketChannel, SSLServerSocketChannel, SocketChannel, SSLSocketChannel, IOChannel (`nio/`) | two descriptors a connection, an SSL session | accept, socket options, `SSL_accept`, construction, `close`, destruction | PeerAdmin::processServer, tasks, clients | `Sockets` |
| Logger (`core/`) | a buffer per statement | levels, parts, append, the insertion into `std::cerr` | every thread | `Log` |
| Exceptions, Service, SlaveApplication, BundleContext, BundleManager, hello, helloworld | - | texts, empty functions, examples | - | not modelled, see section 8 |

`nodebus/CMakeLists.txt` does not build `nio/`, `proxy/` and `container/` at this
commit, and their sources call `close()` and `isOpen()` where `nio/channel.h` declares
`closeChannel()` and no `isOpen()`. The models read `close()` as `closeChannel()`
and `isOpen()` as the value of `m_active`.

**What is hard here.** Several threads share channels with little locking:
`Channel::m_active` and `Channel::m_keys` have no lock, `Selector::m_synchronize`
covers the selector's maps only, an HttpPeer has no lock at all. The selector is
edge-triggered and one-shot, so a connection nobody attaches again is deaf.
Failure is by exception, out of the middle of an operation. Descriptor numbers
are reused. `PROJECT.json` lists each hazard at its line with the properties aimed at it.

**What makes each component correct.**

* Selector and PeerAdmin: the maps, the keys, the channels and the kernel agree;
  a descriptor is closed once, by its owner; the Admin thread survives; one
  task at a time works on a connection; no connection is forgotten, no input is
  lost, an end of file is noticed; the mutex is released on every way out.
* Proxy: the registry leads to live boxes; every forwarded request is answered,
  once, to the client that made it; what happens to a client harms no box.
* SharedPtr: the counter is the number of references; objects are deleted once, then,
  and only then.
* Codecs: what a format can hold comes back as it was, at every limit of its widths and lengths.
* Stream: no byte is lost or repeated, input that is there is not waited for, an
  end of file is one, a deadline is kept.
* Sockets: whatever step of accepting a connection fails, its descriptors and its session are given back, once,
  and no client keeps the others waiting for ever.
* Logger: the lines of an entry stay together and can be told from those of others.
* IDL parser and compiler: an input is parsed once whatever includes what, accepted names are
  unique and resolved, linking refuses what is cyclic, undefined, doubled or in conflict
  and nothing else, an output is written exactly on success.
* Programs: an exit code says what happened, a running proxy serves what its settings say,
  no library stays open, every program ends.

## 2. Modules

| Module | Role |
|---|---|
| `Selector` | state and operations of the readiness layer; each operation is a program of its thread |
| `PeerAdmin` | EXTENDS `Selector`: the Admin thread, the pool's workers, the other ends; Init, Next, fairness, properties |
| `OneShot` | the abstract specification: a connection is watched, selected, queued, handled by one task, then watched again, closed or left mute |
| `PeerAdminProofs` | theorems about `PeerAdmin`, however its channels are used |
| `ExclusiveProofs` | theorems about `PeerAdmin` while each socket is used by one party at a time |
| `OneShotProofs` | `PeerAdmin` implements `OneShot`, step by step |
| `Proxy` | StdPeer and HttpPeer, with the part of the selector and PeerAdmin that closing a client's socket can meet |
| `ProxyProofs` | theorems about `Proxy`: first whatever the other ends do, then between peers that behave |
| `MCProxy` | request uids and the symmetry set for TLC |
| `SharedPtr` | counted pointers of several threads |
| `MCSharedPtr` | which pointer is a member, which casts fit, for TLC |
| `SharedPtrProofs` | theorems about `SharedPtr` |
| `Variant` | the values, the bytes between writer and reader, the outcomes of both |
| `Bcon`, `Bson`, `Json` | each format, written and read |
| `Documents` | files and the scripts of `test/main.cpp`; what each format keeps |
| `Application`, `Settings` | command line, `run()`, signals, event loop; settings and `--edit-settings` |
| `IdlValues` | the values of IDL constants: widths, conversions, divisions |
| `Idl`, `IdlCompiler` | the IDL parser, declaration by declaration; `idlc` |
| `Bundles` | bundles and their libraries, container, master, a client of `Bundle` |
| `ProxyStart` | `Proxy::onStart` down to `__bind` |
| `Stream` | a thread that reads from a channel |
| `Sockets` | what a connection costs, from `processServer` to the last destructor |
| `Log` | threads that log at once |
| `ServerProofs` | theorems about `Sockets` and `Log` |
| `Commands` | the programs with a command line and the clients of the library side by side: `IdlCompiler`, `Bundles`, `ProxyStart`, `Stream`, with `Application` and `Settings` under them; types and exit codes |
| `CommandsProofs` | theorems about `Stream`, `Bundles` and `ProxyStart`; what is known of a program at each stage |
| `IdlcProofs` | theorems about `IdlValues`, `Idl` and `IdlCompiler`, and about the exit codes of all programs |
| `Programs`, `MCPrograms` | `Documents`, `Commands`, `Sockets` and `Log` side by side, one program a behaviour, and their instance |

### Selector and PeerAdmin

A thread is a label `pc[t]` with the channel, the key and the return label of
the operation it is in. A critical section of `m_synchronize` is one action
(`NewKey` for `put`, `RemoveKey` for `remove`); what happens outside is split at
every access to `m_active` and `m_keys` (`Close` tests, `CloseSet` clears, `CancelKey`
tests `isValid()` before the lock). `select()` holds the mutex over several
actions: `SelectBegin`, `SelectPoll`, `SelectWait` (epoll_wait), one
`SelectEvent` per event, or `SelectThrow`. The closing of a channel that
`updateStatus` decides on runs as the same program inside it.

The kernel's part: `fdChan` (whose file is open under a number), `epollSet`,
`edges` (edge-triggered: an event is reported once; registration reports input
that is already there), `data` and `eof`. `accept()` takes the lowest free
number and a free channel object; objects, keys and numbers are reused, so a
stale entry would meet a new owner. `errno` is a variable because `select()`
reads it after calls that do not set it. A key destroyed while `m_keys` still
points to it is `Dead`, and using it makes `intact` FALSE.

Two ways of using a channel. One outside `Shared` is used as a StdPeer uses its
socket: by nobody but its own task. One in `Shared` is used as an HttpPeer uses
its own: the task hands the peer over before it attaches the socket, and another
task may answer and close it.

A task ends in one of three ways. `Attach` watches the socket again, `Finish` closes it (an exception, a direct reply,
the destructor of a peer nobody keeps), and `Break` does neither: the breaks in the loop of `StdPeer::process`
(`proxy/stdpeer.cpp:118`, `:122`, `:129`, `:134`, `:142`) return with the box open, registered and watched by nobody. Such a connection
is `Mute`. It stays so until another task lets go of the registry's reference (`Respond`), because a box registers under the same uid
or one of that uid is cancelled; nothing obliges one to.

`OneShotDispatch` is the refinement: `Stage(c)` computes from the threads, the
queue, the keys and the maps where a connection is, and every step of the
program has to be a step of `OneShot` or leave it alone.

### Proxy

A box's task is `Lock`, one message (`Register`, `Respond`, `BoxBreak`,
`BoxThrow`) or nothing more (`BoxIdle`, which attaches the socket), and unlocks at every
turn of its loop. A client's task is `ReadRequest`, `Send` (a critical section
of the box), `Sent`, `Attach`, `Attached`. `sendResult` is `WriteResult`, then the steps of `close()`, run by the client's task or,
under the box's mutex, by the box's: `CloseResult` tests and clears `m_active` and lists the keys, `CancelKey` cancels the one there was,
`CloseFd` closes the descriptor.

Between these steps the Admin thread takes its own: `Notice` (epoll_wait has returned an event), `Fire` (`EPOLL_CTL_DEL`, the key, `updateStatus`) or
`SelectThrow` (the descriptor has left the epoll set: `PeerAdmin::run` ends), `Dispatch` (the task). So this module does not assume that the selector
works: it has what can go wrong when one task closes the socket that another party uses. If the descriptor is closed between `Notice` and `Fire`, the Admin
thread ends; if `Fire` comes between `CloseResult` and `CancelKey`, the exception of the key leaves the box's task, which cancels the box.

`TaskCancel` is the `cancel()` after an exception, `DestroyBox` and `DestroyClient`
the destructors once nothing refers to the peer; they are actions of their own because the
last reference is often the list of selected keys, which the next `select()`
clears. `sent` and `answers` record what the outside sees; `answers` names the client whose
request a response is for.

`Unruly` says what the other ends may do besides behaving well: leave, go on
sending, send a second request before the first is forwarded, send what ends
`process()` early. The constructor of Peer connects a signal `closed()` that no
class declares, so closing a socket cancels nobody.

Left out: one event stands for all that one `epoll_wait` returned, and no signal interrupts it (that is `PeerAdmin`); the `close()` inside
`cancel()` is one action, because its peer is in no epoll set, unless the client pipelines; the text and format of
messages, the half-minute deadlines (a timeout is one of the refusals), data races inside the QMaps.

### SharedPtr

Every assignment is the program of `operator=`: skip if equal (`NewValue`),
decrement (`Release`), `delete` with the destructors of the members (`Delete`,
`DestroyMember`, `Deleted`), cast, store and increment (`Acquire`). A
constructor starts from null, a destructor assigns null. A pointer is a
variable of one thread, which may hand it over, or a member of an object, which
a thread may use while it holds that object by another pointer. `Fits` says which
casts succeed. The counter is a 64-bit type on the platforms it is built for (`uint_fast16_t`) and
is modelled as a natural number.

### Variant, Bcon, Bson, Json, Documents

A number is the sequence of its bytes, so its width is part of it. A reader's outcome is a value and a
position, an end mark, an exception or `Anything`: reading one byte past the end of a file yields an
uninitialised `char`, and the buffer of a negative length is undefined, too. A JSON text is a
sequence of tokens; the characters of a string are scanned one by one through the start conditions of the scanner. How a double
prints (six digits) is the constant `Printed`.

`BconKeeps`, `BsonKeeps` and `JsonKeeps` say which values a format keeps, without a word about
how it writes them; `BconReload`, `BsonReload`, `JsonReload` say that a value comes back **exactly if**
it is of these. What they exclude is what a user of the library should know: BCON narrows a small
`uint` to what reads back as `int`, loses negative ints near the lower end of their range, strings of 64
bytes or more and all data (finding 5); BSON keeps neither 64-bit integers (it writes four of eight bytes) nor data (it writes the length
and the subtype in the wrong order); JSON loses characters beyond ASCII (the scanner takes bytes for characters), and a
double that prints without a point.

### Application, Settings, Bundles, ProxyStart

`stage` is how far `Application::run` has got. `ParseArguments` is `run()` up to `onExec()`, with the
options each program defines; `Killed` is a SIGTERM before `InstallHandlers`, `Terminate` one after it.
`OpenSettings` reads a file and adds the defaults; `Answer` is one question of `Settings::setup`.

A call on a `Bundle` gives the bundle after it and how the call ended. `start()` and `stop()` end in an
exception in every state, so a container told to start its bundle fails, and the exception of `stop()` in `~Bundle`
ends the process; `uninstall()` unloads a library that the constructor has closed, which throws, so
`UNINSTALLED` is never reached. `ClientCalls` calls in any order, from the owner's thread or another.

`OpenListener` is one URL: the scheme, the keystore, then `__bind` over the addresses of its host, each of
which may be refused, fail or be bound. `openFds` are the sockets nobody closed.

### Idl, IdlCompiler

The drivers of a file and of the files it includes are the stack of `machine`; they share files, symbols and errors, as they
share `NodeRoot`. `Declare` reduces one declaration: a grammar rule with the actions it calls. An expression comes before its constant, one
reduction after the other as Bison makes them, with the values on a stack (`operands`). `AddConstant` keeps what `setOpResult` has converted to the
type of the constant, and a later expression reads that: `const double d = 5` is a double for whoever divides by it, `const long z = 0.4` is 0.
`IdlValues` is QVariant as the driver uses it: a value has a kind, integers have the width of theirs (`Span`) and wrap, doubles and texts
are sets with the functions Qt and the floating-point unit compute on them, as constants. `Converted` is `QVariant::convert`. `Traps` says which operation ends the
process: the quotient or remainder of two integers, or the remainder of two doubles, that the driver takes as integers, when the divisor is 0, or when
it is -1 and the dividend the lowest `qlonglong`. A syntax error or too
many errors end the parse of that file only. `Collect` to `EndLink` are `link()` and `processIntf()`, one action per turn of
the loop over the parents, with `calls` as the call stack.

### Stream

`Call` begins one of the operations; `Poll`, `Count`, `Decide`, `Wait`, `Take` are its steps through
`s_available`, `available` and `s_read`, and between them the other end writes, sends part of an SSL record, leaves, another thread
closes the channel, or the deadline passes. A channel is of one of four kinds: `socket` and `ssl` pass `true` to
`IOChannel` as flags (`nio/socketchannel.cpp:74`), which is not the flag that enters its private epoll set; `watched` and `pipe` are in it.
Three things come of it, and the properties name them as exceptions: a read on a client's socket that finds nothing waits for its deadline even when
bytes come; a pipe's hang-up is an end of file before its last bytes are read; `SSL_read` of part of a record waits past the deadline.

### Sockets

`admin` is the Admin thread in `processServer`, at one of the steps that may throw: `SAccept` (the descriptor, when `Slots` has one left),
`SetOptions`, `NewIOChannel` (the epoll set that every IOChannel has of its own), `NewSession`, `Handshake`, then `RegisterPeer`.
`Unwind` is the destructors of the bases when a constructor throws, `Caught` the handler, `ServerDone` the last line, which both ways
reach. `files` and `sessions` are what the kernel and OpenSSL hold. A connection is `lost` when the exception leaves
before there is an IOChannel: nobody knows its descriptor. Tasks, clients and the selector's closing at end of file run between the steps.
`ClosedByOther` is a task that closes the socket of another connection (finding 1), which ends the Admin thread if that connection has an event;
`Interrupted` is a signal (finding 2), after which it hears nothing any more.

### Log

A statement is `NewLogger`, any number of `PutPart`, `EndStatement`, then `WriteBuffer` and `WriteEnd` of the destructor: two insertions
into `std::cerr`, each kept whole by the lock of stderr. A line is its head and the kind of part it came from; `LinesOf` says which lines
an `operator<<` begins and which of them have a head.

### Commands, Programs

The modules above share `prog` and `stage`; a behaviour runs one program and leaves the variables of the others alone,
so that one run checks them all and each stays small. `Commands` is the part of it without recursive operators, which the theorems are
about; `Programs` adds the codecs. `Sockets` and `Log` run under the names `server` and `threads`.

## 3. Runs

| Run | Bounds | Shows |
|---|---|---|
| `exclusive` | 2 connections, 3 descriptors, 6 keys, 1 worker; 2.1 M states | the maps agree, descriptors are owned, Admin survives, nobody is stranded but the mute, the selector closes at end of file only |
| `live` | 2 connections, 2 descriptors (the second connection waits for one), 5 keys, 1 worker, quit allowed, fairness | refinement of `OneShot`; input served and end of file noticed on every connection that is not mute |
| `shared` | 1 connection handed to a second worker, 2 descriptors; 0.8 M states | the mutex is released on every way out of `select()`, where `EPOLL_CTL_DEL` may fail |
| `admin_dies` | as `shared` | **violated**: finding 1 |
| `interrupted` | as `live`, with EINTR | **violated**: finding 2 |
| `sharedptr` | 2 objects, 3 variables, 1 member, 2 threads | safety of the pointers |
| `sharedptr_cast` | one cast that does not fit | **violated**: finding 3 |
| `proxy_polite` | 1 box, 2 clients with uids of their own that may go on sending after their request, 2 workers, fairness; 31 k states | nobody is answered twice or forgotten; where a box's task fails; what alone keeps a request from being answered |
| `proxy_rude` | 2 boxes that may leave or send nonsense, 1 uid, 2 clients that may pipeline; 4.2 M states, symmetry in boxes and workers | the registry stays right, the answers are the client's own |
| `proxy_closed` | 1 box that may leave | **violated**: finding 4 |
| `programs` | 152 values (49, each alone, in a list and in a map, and five more), 5 texts, 19 IDL files and 216 inheritance graphs of three interfaces, 5 library files, 10 settings files, a message of 3 bytes, 3 connections with 4 descriptors among them, 2 threads that log; 133 k states, fairness | the 15 invariants and 3 temporal properties of the programs |
| `programs_lengths` | data of 0 to 63 bytes, strings of 63 to 65 | **violated**: finding 5 |

Why the bounds are enough: the hazards are races of the Admin thread with one or two
workers on one or two connections, and the reuse of one number, channel or key by
the next owner. Two connections with fewer descriptors than channels and
listener need reuse; more connections repeat the same maps entry by entry.
Keys are as many as can be referred to at once plus one. `MaxEvents` is 2, so
`epoll_wait` may return fewer events than there are in `exclusive`. Two workers are what it takes for a task to
close another task's socket. Symmetry is used in `proxy_rude` only, which has no
temporal property. Two boxes matter to the registry, two clients to whose answer it is. Its clients do not leave of themselves, and its boxes
may; the theorems have every deed.

In `programs` the values lie on both sides of every limit that the code tests up to 64 bytes. `ErrorLimit` is 3 where the code
says 20, so that an input of five errors passes it; `BufSize` is 2 where the code says 64, so that a message of three bytes does not fit; `MaxCalls`
is 4, one more than it takes a bundle to reach every state it can. Three interfaces with the six lists of parents give every
cycle, diamond and chain of up to three, undefined parents included.
Integers have 4 and 5 bits in place of 32 and 64, so that every width is passed and the lowest integer is divided by -1; doubles are the quarters up to 16, with
infinities and NaN, so that 0.5 is no integer and an overflow is near. Every pair of kinds that a file of the instance converts is one of `IdlValues`; the host `two` has two addresses, so that every pair of outcomes of an attempt to bind is met.
Two of the three connections are behind the SSL listener and one behind the plain one, so a client waits behind another of its own listener and of the
other one. Four descriptors are what two connections take: the third is refused by `accept` or lost in the constructor, and any may be, for a lost
descriptor is never given back. Options may fail (`OptionsFail`). In the log one entry of two or three lines a thread is enough for another thread's lines to come between.

Deadlock is checked everywhere but in `proxy_polite`, `proxy_rude` and `proxy_closed`, where the Admin thread may have ended or every
connection be gone; `PeerAdmin` has an explicit stuttering step once `run()` is over, `Programs` one once
the program is over, its reader has an open channel (the other end need not do anything), or it is `server` or `threads`.

## 4. Fairness

`PeerAdmin!FairSpec`: weak fairness of the Admin thread and of each worker, which the
scheduler gives, and strong fairness of a worker's operations, because a worker that waits for
`m_synchronize` finds it free again and again while `select()` polls with 1 ms
turns: the mutex is assumed not to starve a waiter. Nothing is assumed of the
other ends or of `Cancel`.

`Proxy!FairSpec`: strong fairness of the workers (the box's mutex), of the start of a queued
task (the pool's queue is first in, first out) and, because a client can only be
answered by a box that answers, of a box's response to each request it was sent. Dropped peers are destroyed. The Admin thread has weak fairness,
so it goes on while it can: if `SelectThrow` has ended it, it does nothing more, and `AnsweredUnlessCut` names that, with the loss of the box, as what
keeps a request from being answered. While clients say nothing after their request neither can happen (`BoxesOutlive`), and their behaviours
are among those of `proxy_polite`: then every forwarded request is answered.

`Programs!FairSpec`: the programs are sequential, so weak fairness of their steps says no more than that the process
runs; for a service in its loop it says that somebody asks it to end or something throws. `Killed` has no
fairness. For the reader: its thread runs and time passes; nothing is assumed of the other end, nor that anybody sets a deadline or
closes the channel. The fairness of `idlc` is written out with `Compiling` in place of `ENABLED`, which
is the same thing (`idlc` has a step exactly until it returns) and spares TLC a second compilation of every state.
`Sockets!SocketsFairness` is weak fairness of the Admin thread in `processServer` and of `select()` reporting a listener that stays ready, nothing of clients, tasks and signals:
each client connects once, so a listener is not passed over for ever. Fairness does not keep the Admin thread alive: `ClosedByOther` may end it and `Interrupted` make it deaf, and
`WaitersServed` says that a connection is opened in the end unless one of four things is so, which the code does not exclude: a client stays silent in its handshake, descriptors stay
scarce, the thread has ended, or it is deaf. The first two are hypotheses of the property, the other two outcomes (`Halted`).

## 5. Proofs

`tlapm` checks every leaf; the constants are those of the specifications with
their named assumptions, and a hypothesis that a theorem has besides is in its statement. Every safety invariant and
every action property that a passing run checks is a theorem, but for three named under "Model-checked only" and two
conjuncts of `Programs!TypeOK`; so is the refinement.

**PeerAdmin, however the channels are used** (`PeerAdminProofs`).

* `TypeCorrect`: `Spec => []TypeOK`. `TypeOK` has, besides the
  types, what the labels imply (a thread inside an operation has its channel, and its
  key in `cancel` and `remove`; only Admin holds the mutex across steps); without
  these the next step's types do not follow. One lemma per group of actions.
* `MutexReleased`: `Spec => []MutexInsideSelect`. The invariant
  `MutexInv` adds that when Admin holds the mutex in `cancel` or `remove`, the operation
  is part of a `closeChannel` (`after[Admin] = "closeFd"`): it returns into the close,
  never to the key creation of an operation called outside `select()`.
* `NobodyStranded`: `Spec => []NoStrandedClient`, with tasks that close each other's sockets
  and with interrupts. The invariant `KeptInv` adds `Hands` (the key a thread is about to
  cancel is its own channel's or nobody's, and who is about to call `::close` has cleared `m_active`),
  `Lists` (the list of `run()` is part of the selector's, and empty while `select()` collects), and
  `NoneForgotten`, which is the property without the question whether a selected channel is active.
  Removing a key is the step that could forget a connection: `Hands` says that the one it
  forgets is in the remover's own hands. A connection that a `Break` leaves mute is the one exception, in the property as in the code: it is open and in nobody's hands. The property counts a connection only while no exception
  is on its way out of `run()` (`Caught`): between `SelectThrow` and `AdminThrow` the keys
  selected so far are given up although `m_enabled` is still set. No run reaches that state
  (it takes a connection already selected and another one that makes `epoll_ctl` fail).

**PeerAdmin with one party to a socket** (`ExclusiveProofs`, hypothesis `Exclusive`, that is `Shared = {}`:
every socket is used as a StdPeer uses its own). The four properties below are false otherwise:
finding 1, and the double close named at the end of section 6.

* `RegistrationsTrue`, `DescriptorsHeld`, `AdminLives`, `ClosesAtEof`: `RegistrationsAgree`, `DescriptorsOwned`, `AdminSurvives` and
  the action property `SelectorClosesAtEof`. They come out of one invariant, `ExclusiveInv`, because none is inductive without the others.
  Its core is `OneParty`: a connection whose key was selected is in no set until somebody attaches it again, and until then it
  is in one place: selected once, queued once, or in the hands of one thread. So a thread that registers or closes a channel never finds a
  key there, `remove` is never called, `EPOLL_CTL_ADD` meets a number that is not in the set and `EPOLL_CTL_DEL` one that is
  (`NeverHappens`). `Signalled` says that whoever has an event has input or an end of file to look at, hence the close at end of file only.
* `OneShotProofs!OneAtATime`: `Spec => OneShotDispatch`, the refinement, under the mapping `Stage`. Each action
  has a lemma that names the step of `OneShot` it is, or that it is none. It needs `Waiting` besides `ExclusiveInv`: a connection that is in no stage any more because the application quits
  has something to look at, so that giving it up is a step `OneShot` has. A break is `OneShot!Leave`, letting go of a mute connection `OneShot!Drop`; the lemma `MutesApart` says that a mute connection is in no set, queue or hand. The mapping is a `CASE`; `StageOf` shows that its arms exclude each other.

**Proxy.**

* `ProxyProofs!TypeCorrect`: `TypeOK`, which includes that a task has its peer and its text where its
  label says so, and that a box's mutex is held exactly by the task inside a turn of its loop.
* `ProxyProofs!RegistryTrue`: `RegistryAgrees`, whatever boxes and clients do.
* `ProxyProofs!OwnAnswers`: `AnswerOwn`, if clients choose request uids of their own (`OwnUids`); section 6 says what two clients with one uid
  get. The invariant follows a uid from the request through the box's map and back into the text that a task is writing.
* `ProxyProofs!OneAnswer`, `NoneForgotten`: `AnsweredOnce` and `NoRequestForgotten`, if
  the other ends do nothing worse than go on sending after the request (`Polite`), with `OwnUids`. One that pipelines a second request may be answered twice.
  The invariant `PoliteInv` says of each client at which point of its life it
  is (not read, forwarded and waiting, being answered, closed) and who is writing to it, at most one.
* `ProxyProofs!FailsAtKeyOnly`: the action property `BoxFailsAtKeyOnly`, under the same two hypotheses. A box's task writes to a client at most once, while
  its socket is open (`WriterFinds`, out of `PoliteInv`), so nothing that has become of a client makes it fail, but for the event that `select()` may take between
  `CloseResult` and `CancelKey`. `HeldInv` adds where a box is: in one hand at most, and there with its socket open unless its task has failed.
* `ProxyProofs!BoxesOutlive`: `BoxOutlivesClients`, and that the Admin thread does not end, if the other ends do nothing but behave (`Quiet`, that is `Unruly = {}`), with `OwnUids`.
  The hypothesis is what the code needs: a client that leaves makes the box's task throw (finding 4), one that goes on sending may have an event while its socket is closed.
  `QuietInv` adds to `PoliteInv` that the peer the Admin thread has an event of is not the one a task writes to: a client has one event, before its request is read.

**SharedPtr** (`SharedPtrProofs`, hypothesis: every cast succeeds, `Fits = Ptrs \X Objects`; run `sharedptr_cast` shows that it is needed).

* `PointersSafe`, `DeletesOnce`, `TypesCorrect`, `CountsExact`, `OrphansDeleted`: no pointer dangles, counters are exact, nothing is
  orphaned, and an object is deleted once. The invariant `Inv` adds: which phase a thread
  is in fixes what `dst`, `val`, `doomed` and `todo` are; no two threads use one
  pointer (`Exclusive`); a thread that is about to take a reference to an object still holds
  one (`Held`, `Sources`), which is why the object cannot be deleted between the
  test and the increment; a doomed object has no reference and one deleter. The
  counter's equation is proved with the cardinality theorems of the library, for
  any finite set of pointers.

**Sockets, Log.**

* `ServerProofs!NothingLeft`: `GoneIsClosed`, for any listeners, connections and number of descriptors. `SocketsInv` says what a connection
  holds at each stage (`Held`); it has to know that the Admin thread opens one at a time and that a backlog holds only connections nobody has begun with, each once.
* `ServerProofs!SocketsTyped`: `SocketsTypeOK`, from the same invariant.
* `ServerProofs!LinesTogether`: `EntriesTogether`, for any number of threads, entries and parts. `LogInv` adds that entries are numbered and that no line of an entry that is
  being composed is out yet, so that the buffer becomes a block of its own.

**Programs with a command line** (`CommandsProofs`, `IdlcProofs`). The theorems are about `CommandsSpec`. What it says holds
for `Programs` too: its steps are those of `CommandsNext` (`CommandsStep`) or leave `commandVars` alone, and its
initial states satisfy `CommandsInit`. They hold for any command lines, files, settings, bundles and messages within four assumptions:
`StreamAssumption` (the message is a sequence, the buffer holds at least one byte), `HostsAssumption` (URLs and addresses come
as sequences, and `Addresses` knows the host of every URL, with no address if it does not resolve), `FilesAssumption`
(what the scanner hands to the parser has the fields of its kind) and `ValuesAssumption` (no integer is wider than `qulonglong`, and the functions on doubles and texts
have their types). No bound of the runs is assumed, nor any width.

* `NothingLost`, `NothingMissed`, `EndOfFileIsTrue`: `StreamInOrder`, `NoMissedInput`, `EndOfFileTrue`, for any message, any records it is cut into
  and any size of the buffer. One invariant, `StreamInv`: `Conserved` says that what was read, what is buffered, what OpenSSL has
  decrypted, what has arrived and what is left to send are the message in this order; `Records` that a record ends where
  the bytes that have come end; `Asking` what a call knows at each of its steps, so that a fill never overwrites a buffer that holds bytes; `Events` that an
  event that has been taken was worth looking at and that bytes that came after the count have an event. The last is why a second round
  that counts nothing is an end of file. The arithmetic of `SRead` (which bytes go where when a record is longer than the room) is the lemma `SReadKeeps`.
* `LibraryIsClosed`: `LibraryClosed`, for any sequence of calls (the proof makes no use of `MaxCalls`). `Closed` is the invariant of one bundle; every call keeps it, thrown or not.
* `AllUrlsServed`: `ListenersComplete`. `ProxyKept` counts: the listeners made so far and the URLs left are the URLs of the settings, first those of `main`, then those of
  `console`, and the n-th listener serves the n-th URL; `openFds` are the listeners' sockets and no others, since an address that is in use cannot
  be bound again. It starts from what `Settings` has read (`SettingsHold`), so it follows the values from the file, through the defaults, to the sockets.
* `ExitCodesTrue`: `ExitTrue`, over all programs. `Stages`, `Compiles` and `BundlesKept` say which program can be at which stage and what it has by then;
  `ExitKept` that the cause of an exit code, once there, stays until the end. Of the compiler the property says more than that the machine has crashed: the declaration reduced last was an array or a division that
  the processor traps, by the values on the stack (`Trapped`). `Explained` is that invariant. One lemma per rule of the grammar shows that it does not crash, so that `Opexec` and `ArrayField` are left; that they read
  the operands they think needs that every value on the stack or in the table is one of `ValueT` (the `...Typed` lemmas, with the bounds of `Wrapped`).
* `WellFormedAccepted`: `IdlAccepted`, for any files that include each other in any way, with any errors. `IdlcKept` has three parts: `Machine` (the stack of drivers, their
  contexts and the symbol table are well formed), `Parsed` (whatever has been included so far is open, each file once, and includes
  that the parser has passed are among the files opened) and `Formed` (as long as there was no error each interface of the table is whole, and each context under way is
  as far as it has come). An interface under way is in no table, so its parents stand before it; that gives acyclicity.
* `LinkingExact`: `LinkExact` in both directions, for any number of elements. `Linking` says of the recursion of `processIntf`, with `calls` for its stack: the marked
  interfaces are those on the stack, each once (`UnderWay`); what has been merged into an interface is above it, and each call is above its caller (`Sound`), so a
  marked parent is a cycle and every error is one; as long as there is no error, a completed interface has all it inherits and
  differs from all of it, and the one on the stack has so of the parents before its loop's index (`Merging`). `WellLinked`
  speaks of the elements, not of the table: its ancestors are the least set closed under parents, and `TableSays` that both agree.
* `WritesResultOrNothing`: `ResultOrNothing`, by `ResultKept` and the two theorems before it.
* `CommandsTyped`: `CommandsTypeOK`, the larger part of `Programs!TypeOK`. `Within` bounds what is buffered by `BufSize` and what is counted by the length of the message; it needs `StreamInv`, because
  a fill is bounded only as long as it meets an empty buffer.

The proofs found a fault of the models that TLC cannot: arms of a `CASE` that overlap (in `Idl`, `Bcon`, `Bson`, `Json`, `IdlValues`, `PeerAdmin!Stage`), of which TLA+ chooses any where
the code takes the first that fits. TLC takes the first, too. Such arms now exclude each other.

**Model-checked only.** Liveness (`InputServed`, `EofNoticed`, `AnsweredUnlessCut`, `DeadlineKept`, `ProgramsEnd`, `WaitersServed`): fairness and `ENABLED`
are out of the prover's reach. `BconReload`, `BsonReload`, `JsonReload`: what a recursive reader does to a value of any depth is induction over data,
which is out of reach, too, and a matter of boundaries that TLC enumerates. Of `Programs!TypeOK` the types of `prog` and `held`
are left to TLC. The theorems with hypotheses (`Exclusive`, `OwnUids`, `Polite`, `Quiet`,
every cast succeeds) say nothing of the cases the hypotheses exclude; section 6 says what happens there.

## 6. Findings

1. `nio/selector.cpp:77`. `select()` throws if a socket was closed between
   `epoll_wait` and `EPOLL_CTL_DEL`, which `HttpPeer::sendResult` does from another task.
   `PeerAdmin::run` catches it outside its loop, so the thread that serves every connection ends.
2. `nio/selector.cpp:69`. `errno` is read without a failed call: after one EINTR
   (SIGHUP and SIGUSR1 have handlers) every event is dropped.
3. `core/sharedptr.h:266`. The class of the new object is checked after the old one has been
   released; the exception leaves a dangling `m_data`.
4. `nio/peer.cpp:29`. `closed()` does not exist: a peer whose connection is gone is not
   cancelled. Its box stays registered; a client that left makes the box's task throw
   when the answer comes, and the box is cancelled for it.
5. `core/serializer.cpp:276`. BCON's lengths are not read as they are written. The token of short data is 0xA0 (`:40`), whose bit 5 is one of the length's; `BCON.md:76` puts the length
   on bits 0-5 and the parser reads it there (`core/parser.cpp:143`), so data of 0 to 31 bytes is read as 32 bytes longer. Longer data keeps its length but becomes a string up to
   its first NUL: both arms of the `?:` of `core/parser.cpp:148` are converted to `QString`. So no data comes back. The parts of a length beyond 63 are written as ints, four bytes
   each (`core/serializer.cpp:249`); `BCON.md:81` says one byte, and the parser reads one, so a string of 64 bytes or more comes back as another, with what follows it out of step.
   The trace shows data; `BconReload` says exactly what comes back and what does not.

Also seen while modelling, and not listed as findings because nothing in the
repository says otherwise, or because the property that would say it is checked with the case named as an exception: with a channel in `Shared`, two tasks may both pass
the test of `m_active` and close its number twice (`DescriptorsOwned` does not
hold there); a client that sends a second request between `httppeer.cpp:161` and
`:162` may be answered twice (`AnsweredOnce` does not hold with "client pipelines"); two clients
with one request uid get each other's answers; a box that registers under a
taken uid is removed with the first one; a box whose message ends `process()` by a break stays registered and deaf (`Mute` in `PeerAdmin`, `BoxBreak` in `Proxy`); a
client that goes on sending while it is answered may end the Admin thread, or the connection of the box that answers (`AnsweredUnlessCut` names both); a constant expression in an IDL file that divides
by zero, or the lowest 64-bit integer by -1, ends `idlc` by SIGFPE (`ExitTrue` names it); an IDL file that another one includes leaves its interfaces out of the result; `Parser::parse(data)`
takes any format for BCON (`core/parser.cpp:75`); a container whose output is a file dies in its constructor, because epoll
refuses files; an unknown host is a null pointer in `__bind` and `__connect`, which compare the result of `getaddrinfo` with -1;
an exception of `setsockopt` or `epoll_create1` after `accept()` loses the new descriptor (`nio/serversocketchannel.cpp:119`, `nio/iochannel.cpp:41`;
`GoneIsClosed` names these connections); a client that connects to an SSL listener and stays silent stops the whole proxy, because `SSL_accept`
is called by the Admin thread (`nio/sslsocketchannel.cpp:51`; `WaitersServed` names it); `Logger::globalLevel` is set and compared
with nothing (`core/logger.h:351`), so the level `OFF` that `core/logger.h:42` describes turns nothing off; `Log` leaves it out.

## 7. Plan

Done: every module of section 2 and the proofs of section 5. Left:

Models: types of attributes and parameters in `Idl`; the longer length forms of
BCON (over 4095 bytes), whose bytes the parser combines in an order that C++ leaves open (`core/parser.cpp:157`).

## 8. Not modelled

* Exception classes, and the words, colours and times of the log: texts. `Service`, `SlaveApplication`, `BundleContext`, `BundleManager`, the service hello and the
  bundle helloworld: a constructor, empty functions, or examples.
* The wording, indentation and line numbers of everything printed; comments, and numbers in hexadecimal, octal and binary notation in JSON and IDL.
* What an SSL handshake and a socket option do, beyond their failure and the wait for the client; signals other than SIGTERM, but for the EINTR of `interrupted` and of `Sockets`.
* The destructor of Selector.
* Data races inside Qt's containers, which have no outcome that could be listed.
