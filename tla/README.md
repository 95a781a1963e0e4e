# AlbatrossServer in TLA+

AlbatrossServer drives a hooking framework on Android devices from a Python
host. A plugin (a dex file) is injected into app processes, either running ones
(attach) or freshly launched ones (launch), and talks back through a small RPC
protocol. This directory specifies the parts of the repository that keep state
and run concurrently. Paths below are relative to `src/`; PROJECT.json maps
every definition to the lines it stands for.

## 1. The system

| component | state | operations | interacts with |
|---|---|---|---|
| RPC channel (`rpc_client.py` `AlbRpcMethod.__call__`, `rpc_common.py`) | `call_counter`, `request_lock`, the socket, its timeout | a method call: number, lock, send, receive until the reply fits, release | native server over TCP; any thread of the host |
| RPC client life cycle (`rpc_client.py`) | `sock`, `allow_apis`, `on_close_callbacks`, `subscriber`; the monitor's `callbacks` | `connect`, `reconnect`, `try_connect`, `close`, `create_subscriber`, the subscriber loop, the monitor thread | device session (listeners that reconnect) |
| Wire format (`rpc_common.py`, `RpcMeta`) | none | `put_*`, `read_*`, `parse_*`; methods built from annotations | RPC channel |
| Cached properties (`wrapper.py`) | a value per object, a lock per property | get with double check, `delete`, `reset` | device session |
| API declarations (`albatross_client.py`, `system_server_client.py`, `app_client.py`) | none; the attributes `__getattr__` makes | one method per call, one handler per broadcast | wire format |
| Device session (`device.py`, `common.py`) | cached clients, forwards, `process_launch_callback`, `app_launch_count` | `get_client`, `attach`, `launch`, `on_launch_process`, `shell` | channel, life cycle, system_server agent |
| Plugin delivery (`device.py`) | `device_config['dex_maps']` and its file, a plugin's name on the device, the watcher's `plugin_md5` | `register_plugin`, `add_plugin_rule`, `launch_with_plugins`, `launch_fast`, `push_file`, `watch_plugin` | the server's rules, processes of the app, the file watcher's thread |
| Launch interception (`SystemServerInjectAgent.java`, `ActivityManagerServiceH.java`) | `interceptApps`, `interceptAll` | set, remove, clear; the hook on `attachApplicationLocked` | activity manager (its lock), host (broadcast that waits for an answer) |
| Plugin agent (`AppInjectAgent.java`, `DynamicPluginManager.java`, `AlbatrossPlugin.java`) | `pluginCache`, `classLoaderCache`, the flags of the hooks, each plugin's `enable`, `params`, `flags` | `appendPlugin`, `disablePlugin`, `unloadPluginDex`, `init`, the `Instrumentation` hooks | native server (injector thread), Android (main thread) |
| Rolling logger (`BufferedDailyRollingLogger.java`) | `logQueue`, `running`, `fos`, `currentFile`, `currentDateStr` | `log`, `flush`, `close`, the writer thread | `PluginMessage`, `StackManager` |
| Plugin messages (`PluginMessage.java`, `PrintStreamH.java`, `LogH.java`) | a bounded queue, two loggers | `send`, `log`, `setLogger`, `redirectLog`, the sender thread | rolling logger, subscribers |
| Stack labels (`StackManager.java`) | table of labels, a logger | `getStackId` | rolling logger, plugin messages |

What is hard in each:

- **Channel**: the identifier is drawn before the lock is taken and from an
  unlocked counter, wraps at 16 bits, and replies are matched with `<`; a wait
  that times out leaves bytes behind and may let two threads onto the stream.
  Correct means: a caller gets the reply to its own call, and gets something.
- **Life cycle**: `close` runs on the monitor's thread, the subscriber's and
  the user's; a listener may reconnect from inside `close`; file numbers are
  reused. Correct means: a client that is connected is watched, listeners run
  once per loss, an old thread never closes a new connection.
- **Cached properties and device session**: a lock whose timeout is ignored,
  and deletion from another thread. Correct means: one live client per device.
- **Launch interception**: three tables on two machines are written in a fixed
  order by one thread and read by two others, while the activity manager holds
  its lock. Correct means: the launched process gets the plugin of its launch,
  and nobody waits for ever.
- **Wire format and API declarations**: arguments are bound by position,
  default and name without Python's help, a method's number and its content's
  length share one word, numbers are kept over reconnects, and every type is
  written in one place and read in another. Correct means: the method that was
  called runs with the arguments it was given, and the caller gets its result.
- **Plugin delivery**: a file on the developer's disk, its copy on the device
  and what each process has loaded change independently; the watcher's thread
  reads, decides and pushes in separate steps; a push fails unnoticed; the host ends
  and starts again while the server keeps its rules. Correct means: the last
  change arrives, nothing older keeps running, rules keep their names.
- **Plugin agent**: two threads share a `HashMap` with no lock, and the order
  of the callbacks depends on which hooks the app goes through. Correct means:
  callbacks in order, at most once, never before `load`.
- **Logger**: producers, one consumer, `close` with a bounded join. Correct
  means: lines in order, each once, none lost but in a failure one can name.
- **Messages, labels**: a queue at its limit, a logger replaced under its
  users, a double-checked table. Correct means: a message is lost only in a way
  one can name.

The native server, the `Albatross` hook engine and `UnixRpcServer` are binaries
and are not in the repository. They are modelled from how the code uses them and
marked external: one worker per connection that answers in order with the
request's identifier; one request at a time into the agent of a process;
broadcasts that block until they are answered.

## 2. What is modelled

Names of actions follow the functions and lines they translate. Each module ends
with its properties. Operators under a "Mutant:" comment are not part of the
specification: they show, one per property, a plausible bug the property finds.

### RpcCallService, RpcChannel; RpcChannelProofs

`RpcCallService` is the promise: a call is made, carried out at most once, and
ends with the answer to itself, without an answer, or with an exception.

`RpcChannel` is `__call__` step by step: `ReadCounter`, `WriteCounter` (lines 58
to 60), `TakeSocket` (the call's own timeout is set here, before the lock),
`AcquireLock` (may time out and go on), `Send`, the receiving below, `RecvFails`,
`Release`, `End` (which decides what the caller gets, and restores the timeout on
some paths only). `Close` is another thread's. `Serve` and `WriteCell` are the external
server. The history variables (`maker`, `outcome`, `carried`, `answer`, `mistaken`) say
which call a byte on the stream belongs to and whether it was read as what it is;
no guard of the code's actions reads them, except `kind` and `custom`, which stand
for the caller's arguments.

The reply stream is a sequence of cells, each some bytes of one reply: `'wq'`, the
rest of the 8 bytes of a header, and up to `MaxSize` cells of payload. The server
writes them one by one, and readers take them one by one, so that a receive may be cut
off anywhere. `RecvHead` and `RecvRest` or `RecvJunk` are `safe_receive(sock, 8)`:
they take two cells, whatever these are, and look only for `'wq'` in the first. 8 bytes
without it (`RecvJunk`) are an exception, and what follows them stays on the
stream, so that a later header may be eaten as the end of somebody's payload. Other bytes
may begin with `'wq'` too (`Lookalikes`: a text of 0x7177 bytes does) and
then say anything: that sets `mistaken`. `RecvBody` takes as many cells as the header
said, of whatever reply. What a receive that fails has read so far is lost.

Abstracted: content of requests and results, logging, `prohibit_request`. A request of
which only a part is sent before the timeout is left out: what the server makes of half a
request is not in this repository.

### PluginAgent; PluginAgentProofs

The injector thread executes requests: `AppendKnown`, `AppendNew`,
`AppendNewFails`, then `FinishAppend` and `CallAttached` one callback at a time;
`Disable`, `UnloadDex`, `UnloadThrows`; `BeginInit`, `InitLoad`, `InitAborts`,
`InitThrows`, `InitHooks`. The main thread goes through the hooks of
`Instrumentation`: `NewApplication`, `MakeApplication`,
`CallApplicationOnCreate`, `OnCreate`, `Delayed`, with the loops over
the plugin table as `StartLoop`, `Visit`, `EndLoop`. `stale` is the iterator's
`modCount` check: `IteratorThrows` is the `ConcurrentModificationException`
outside every `try`. `meets` is which hooks this app's `Instrumentation`
passes: an app may bypass either, or construct a second one. `InitHooks` may fail, as
`hookClass` may: then no hooks are installed, as after a plugin that does not load.

`Setups` gives a run several ways to begin: an app being launched, or one that
has long been running (`mode`), with or without plugins that throw.

Abstracted: memory is sequentially consistent (a real unsynchronised `HashMap`
may do worse); which classes and libraries exist; the API getters.

### RollingLogger; RollingLoggerProofs

Producers do `CheckRunning` and `Add`, which are two steps because line 83 is
outside the lock. The writer thread does `Check`, `Take`, then `Roll`,
`WriteLine` (length check, perhaps the next file, write), `Flush`, `BatchOver`,
and after the loop `Drain`. `Close` clears `running`; `Joined` closes the stream,
after the writer ended or after the join timed out. A `Write` may fail
(`MaxFailures`), and a stream closed under the writer is the `NullPointer` the
loop catches, which keeps the batch. Lines are numbered by the order of the
calls of `log`; files are sequences of lines with lengths from a table.
`Midnight` changes the day. Timestamps are abstracted, and one instance of the
process is modelled: files left by an earlier one are only there as `OldSizes`.

### LaunchIntercept; LaunchInterceptProofs

`launch` in a user thread (`BeginLaunch`, `ForceStop`, `SetInterceptApp`,
`StoreCallback`, `ResetCount`, `StartActivity`), `on_launch_process` in the
subscriber's thread (`FindCallback`, `ReadCount`, `WriteCount`, `Inject`), the
activity manager with its lock (`Attach`, `AttachAnswered`), other clients of
system_server (`Admin`), and apps that start processes by themselves.

A table entry is the set of the `:package` items in its string. `contains` and
`replace` are modelled by what they do to names that begin with one another:
`Mentions` finds a longer name, `Delete` cuts it and leaves `Residue`. Two
overlapping writes of the unlocked `HashMap` may lose one, a read that overlaps a
write may find nothing. Processes are numbered in the order they start. Assumed: the subscriber
is not lost while a process waits for
its answer (what the native broadcast does then is not in the repository). The
code's limit of 20 injections is the constant `maxLaunchCount`, 1 in the runs.
`setInterceptApp` of no package or an unknown one does what `AdminClearIntercept` does,
at most, and of `"all"` what `AdminSetInterceptAll` does; it has no action of its own for them.

### PluginMessage; PluginMessageProofs

For what follows `setMessageSender`. A thread that logs does `Begin`,
`ReadSubscribers`, `Offer` for the queue, `TestLogger` and `WriteLog` for the
logger: line 112 and its like in `log` read the field `rollingLogger` twice.
`Take`, `Sent` and `SendRaises` are the sender's thread, which counts its
failures and ends at the limit. `setLogger` is `BeginSet`, `TestOld`, `CloseOld`, `Clear`,
`Create` (or `CreateFails`), each a read or write of the field, in two threads:
the app's main thread (`initLog`, which tests for a logger in `BeginSet`, and
`setLogger` again in `TestOld`) and the agent's, for the host's `set_logger`. The inside of a logger is
`RollingLogger`'s; here it takes lines until `close` is called on it.
`redirectLog` and its second logger, `PrintStreamH` and `LogH` are left out.

### HostApis, RpcCodec, ApiClient; ApiClientProofs

`HostApis` is what the three clients declare, as `RpcMeta` reads it: types of the arguments,
the last defaults, the type of the result, the members of enumerations.
`RpcCodec` is `rpc_common.py` without the sockets: `Put`, `Read`, `Encode`,
`Decode`, `Bind` (`create_call_function`), `Header`, `Parse`, `Convert`. A value
is the sequence of its cells: a text is its bytes, a number one cell (so an
`int` takes four cells of which the first holds it all). The base of a text's length and
the limit of a frame are the constants `Base` and `Cap`, 256 and 2^24 in the code.

`ApiClient` makes a call of any declared method with any number of positional
arguments and one by name, follows it to the server and back (`Call`, `Serve`,
`Return`), hears a broadcast (`Hear`: its command is read as a signed byte and looked
up in a table keyed by unsigned ones, so that one numbered 128 or more finds no
handler), and loses the server, which comes back with
another table (`Upgrade`, `Reconnect`). Calls are made one after the other:
threads are in `RpcChannel`. The server is external: it reads with the
same types and answers whatever its type allows. `PythonAccepts` and
`PythonArgument` are the reference for `Bind`: what Python does with such a call.

Abstracted: what JSON a text holds, floating point, `RawDataParser`, sockets as
arguments, types that no API declares.

### PluginDelivery; PluginDeliveryProofs

The developer writes and removes the file (`Write`, `Remove`); the program does
`Register` and `PushRegistered` (`register_plugin`), `AddPluginRule`,
`LaunchWithPlugins` (also `launch_fast`), `WatchPlugin` and `StartWatching` (lines 1681
to 1734: a file that is not there cannot be watched); its watcher's thread handles an `Event` in
`OtherPath`, `Unchanged`, `Debounced`, `Accept`, `Push`, `Copy`, then stops and starts the app,
or unloads and loads in one process after the other (`ListNew` is the list of processes asked
for 10 seconds after the app was started, a step of its own). `OtherPath` is the test of
lines 1721 and 1726: an event is handled only if its path, which is the one given to
`schedule`, equals `os.path.abspath(plugin_dex)`. A plugin may be given by any other
path (`setup.same_path` is `FALSE`), as the one `test/plugin_watch.py` builds with
`..` in it is, and then no event passes. `watched` is the watch of the operating system: it is on the
file and not its directory, so a removal ends it. `recent` is the 0.5 s delay,
which `Elapse` ends. `Restart` ends the program and starts it again; device,
server and the configuration file stay. The app's processes start
and end by themselves; the server looks at a new process some time after it
started (`RuleLoads`). `CopyFails` and `Raises` are failures of `adb` and of the
connection. The contents of files are the numbers of the writes; `get_file_md5` compares them.
`loaded` has an entry for each name: a process holds one copy of the plugin per name
it was ever given. `forgotten` (history) are the names a restart lost.

Abstracted: that the watcher's library reports a write twice, and that a watch on a
file ends when it is removed (external); libraries of plugins, which take the same way; other
plugins; `reload_plugin` of one that `register_plugin` did not make (1100-1104).

### RpcConnection, DeviceSession; DeviceSessionProofs

`RpcConnection` has the sockets and the threads that open and close them.
`Connect`, `AssignSock`, `Register` and `StoreCallback` are `connect()`;
`CloseReads`, `CloseTakes`, `CloseDrops`, `ListenersOver` are `close()`, which runs in the
monitor and in every subscriber loop; `Poll`, `Dispatch`, `OnClose` and
`Unregister` are `SocketMonitor.run`; `LoopReads`, `LoopReceives`, `LoopFails` are
`__subscribe_loop`. A client is named by its first connection, and a connection
gets any file number no open socket has: numbers are used again, and the
monitor's `callbacks` are keyed by them. epoll is edge-triggered here: a loss is
delivered once (`reported`), for a socket that is still registered. `Drop` is
the other side.

`DeviceSession` extends it with one of the device's three cached clients: `client`
("server"), `system_server_client` ("system") and `system_server_subscriber`
("subscriber"). A caller goes through `cached_property.__get__`
(`Miss`, `Enter`, `Exit`, `Save`) and its getter (`Build`, `Fails`, `Constructed`,
`FirstCall`, `AddCloseListener`, `Subscribe`); `Listener`, `Reconnect`,
`ReconnectFails`, `Delete` are what `close()` calls in the thread that closes.
The subscriber is the kind with two threads that close: the monitor and its own loop.

Steps that were merged, each because the code between touches nothing another thread
reads: `Enter` is the acquisition and the second lookup; `Connect` ends where
`get_apis` returns; `CloseDrops` is `unregister_socket` and `sock.close()`. The time
a broadcast's handler takes is time spent in `"read"`, before the loop
reads `self.sock` again. `LoopFails` is the exception that ends a loop when its connection is
lost or closed by
another thread; a broadcast broken off in the middle is left out. `reconnect()` of a
client that is connected returns `False` (lines 539 to 546), so that `Listener` then drops it.
Abstracted: API tables (only whether there is one),
requests in connections, the files pushed before a connection. `Raise` is where an exception
that leaves `close()` ends: it ends a loop's thread, and the monitor, which has no
handler around its callback. Not in the model: the kqueue and select branches,
`try_connect`, `create_subscriber`, stopping the monitor. Two writes of the cache
are not either. With `auto_subscribe_system_server`, which is on by default
(line 189), the getter of `system_server_client` makes a subscriber and puts it in
the cache of `system_server_subscriber` under its own lock (lines 839 to 845): a subscriber
may so be replaced at any time, and `NeverReplaced` is claimed of the other two kinds only.
`connect_callback`, which is `None` by default, sees the server client in the
cache before the getter has returned (lines 863 to 868).

## 3. What the runs check

| run | question | properties |
|---|---|---|
| `rpc_serial` | no wait times out, identifiers wrap after two calls, sockets close | `TypeOK`, `OwnReply`, `OwnTimeoutOutlivesOnlyAbruptCalls`, `ImplementsService` |
| `rpc_timeouts` | receives and the wait for the lock may time out | `StraysAreLeftOver`, `SoleCallerGetsOwnReply`, `EveryCallEnds` |
| `rpc_stray_reply` (violated) | is a reply with a wrong identifier ever returned? | `OwnReply` |
| `api_client` | one call of every method and one of every broadcast with all kinds of arguments; sessions with three tables | `TypeOK`, `CallsReachTheirMethod`, `ArgumentsArrive`, `ResultsArrive`, `BroadcastsUnderstood` |
| `device_session` | connections lost at any moment while callers, monitor and loops connect, close and drop clients | `TypeOK`, `DeadClientIsDropped`, `MonitorSurvives`, `ConnectedIsWatched`, `OnlyLostAreClosed`, `NeverReplaced`, `LossIsNoticed` |
| `launch` | launches, processes started elsewhere, a failure; the intercept table under all its writers | `TypeOK`, `LaunchedIsInjected`, `InjectionsWithinBudget`, `TableIsExact`, `NobodyWaitsForever` |
| `plugin_delivery` | the ways to watch a plugin, and a path no event passes, with writes, removals, failed pushes and processes that come and go; a program started three times | `TypeOK`, `RulesKeepTheirName`, `NothingOldKeepsRunning`, `LastChangeArrives` |
| `plugin_agent` | hooks against requests while an app is launched; sequences of requests with plugins that throw | `TypeOK`, `CallsInOrder`, `NeverStaleConfig`, `CachedPluginsCanBeUnloaded`, `EarlyPluginsServed` |
| `plugin_readme` (violated) | is `beforeApplicationCreate` called before `onCreate`? | `BeforeApplicationCreatePrecedesOnCreate` |
| `plugin_message` | plugins that send and log while the host subscribes and leaves, two threads replace the logger, sends fail | `LostOnlyWhileSwitching`, `QueuedIsSent` |
| `rolling_logger` | two producers, writer, close, midnight, a failure | `TypeOK`, `FilesReadInOrder`, `LostOnlyInTrouble`, `FilesWithinLimit`, `AcceptedIsWritten` |
| `rolling_logger_close` (violated) | does `close()` wait for every accepted line? | `CloseWaitsForTheBuffer` |

### What they show

- While waits do not time out, the lock makes up for the unprotected counter:
  even with duplicate and wrapped identifiers, a caller gets header and payload
  of its own reply, and the channel implements the promise of
  `RpcCallService`. Once a receive has timed out this is gone. What it leaves on the stream is read
  as headers, 8 bytes at a time, and each call that meets some of it fails, until one
  meets the beginning of a header; if one meets other bytes that begin with `'wq'`, it
  takes them for a header and returns what they announce. As long as that does not happen, a
  single caller is safe until the identifiers wrap, but with two threads the later one may be
  given the reply
  of the other's abandoned call (finding `rpc_stray_reply`: line 111 logs the
  wrong identifier and returns the data). The call whose reply was left over by
  that may be given to a third, so a stray reply need not be of a call that
  gave up; that chain takes three threads or a wrap. What stays true, while
  nobody goes on without the lock, is that replies stray, or are read at the wrong place, only
  after some call gave up, that nobody is handed bytes of a reply that is
  still waited for, and, until other bytes were taken for a header, that a reply is handed
  out whole and once. A call's own timeout stays on the
  shared socket whenever the call is void, answered by an error, or raises.
- Every declared call reaches its method with the arguments Python would have
  bound, and its result comes back, texts longer than their length field
  included. The exceptions the properties name are behaviours of the code:
  content of 2^24 bytes or more carries into the command; a method made
  before the server was replaced keeps its old number; a text of 65535 bytes or
  more ends at its next NUL; a void method's caller hears of no
  error. Two differences from Python the model has: a keyword for a required
  argument is refused, and keywords are ignored when all positions are given.
- A broadcast that waits is answered once, also when its handler raises or is
  missing, and by nothing that reads as -1.
- When a watched change went through without a fault, no process runs the
  plugin from an older file, unless the copy is under a name that a restart
  forgot before it was saved: the plugin then runs twice. The last change does not arrive when its
  event fell into the 0.5 s after the change before it, when it came between
  `register_plugin` and `watch_plugin`, or when its push failed, which nobody
  notices: `push_file` returns `False` as it does for an unchanged file, and for the
  user `shell` the old file is deleted by then. Nor does anything arrive after the file was
  removed, which ends the watch, or for a plugin whose path is not what `os.path.abspath` makes
  of it: the handlers compare the two, and `test/plugin_watch.py` builds such a path. Watching
  with `change_restart` and `attach`
  never attaches again: `watch_plugin` hands a list of pids to
  `attach_with_plugin_ids`, which makes a list of that list (`AttachAgain`).
- Rules outlive the program; the name they were made with is in the
  configuration file, unless one of the launch functions made the rule first.
- No way through two `setLogger` calls leaves a closed logger in place; messages
  whose call they overlap may be refused or raise in the plugin. Queued messages are
  sent until the limit of failures, counted over the life of the thread, ends it.
- A plugin present at `init`, or added to a settled app, is called in order, each callback
  once, after `load`. One added while the app starts may be called by
  both threads. One plugin that does not load silences
  the others. On attach `beforeApplicationCreate` comes after `onCreate`
  (finding `plugin_readme`).
- Lines keep their order and none is written twice, except as a named failure
  allows (a batch written again after the stream was closed under it, lines
  lost with a failed batch). Without any failure a line can still
  be lost between the `running` test and the queue (finding
  `rolling_logger_close`).
- `set_intercept_app` precedes the record and the count, yet a launched process gets the
  plugin of its launch unless something the property names came between.
  The activity manager's lock is never waited for in a circle, because
  `on_launch_process` makes no call that needs it.
- Clients without a subscription are closed by one thread only, the monitor, and
  behave: only lost connections are closed, only the lost client is dropped, one server
  or system client exists at a time while the lock does not time out, and each loss is noticed. Each
  exception the properties name is a behaviour TLC reaches:
  a client lost inside its constructor (`on_close_callbacks` is not set yet, line
  479) makes `close()` raise in the monitor's thread and ends it; one lost before it
  is stored stays in the cache although closed; after a reconnect `close()`
  clears the listeners, so that the second loss is told to nobody; and a
  reconnected socket with the number of the lost one is unregistered by line 380;
  and a loss between `poll.register` (311) and the entry (321) finds no callback
  and is not delivered again.
- A subscriber's loop and the monitor both close. The one that is late may
  close or forget the connection the other one's listener has just made,
  drop a client that was stored since, or clear the listeners under the other's iterator,
  which ends the monitor when it is the monitor that iterates.

### Bounds

| bound | value | why it is enough |
|---|---|---|
| threads, calls, identifiers, cells (`RpcChannel`) | 2 threads, 3 calls (2 in the other two runs), `Wrap` 2 and 4, `MaxSize` 1 and 2 | two callers and one more call reach duplicates and a wrap; two calls an abandoned reply and the one that finds it, cut off in the header or in a payload of two cells, which may be misread; the theorems have no bound |
| requests (`PluginAgent`) | 3 during a launch, 5 on a running app | add, init and one change during a loop; add, disable, re-add, change, unload. Two files where one path is a prefix of the other |
| lines, days, failures, buffer, file size (`RollingLogger`) | 3, 2, 1, 2, 2 | a batch over the buffer limit, a file over its size, both rollovers, a failure in each place |
| launches, other processes, calls of others, failures (`LaunchIntercept`) | 2, 1, 0, 1; 1, 1, 2, 0; and 0, 1, 3, 0 | a launch that meets what the previous one left; set, set, remove on related names |
| connections, file numbers, loops, callers (`DeviceSession`) | 2 of a server with 2 callers, 3 of a system client, 2 of a subscriber; 2 numbers; 2 loops | two callers race for one property and find a dead server; a reconnected client lost again and followed by a fresh one; a subscriber's two closers at the connection of the reconnect; two numbers, so that a new socket may or may not get the old one |
| calls, tables, samples (`ApiClient`) | 1 call of each method, 3 in a session with 3 tables; `Base` 2, `Cap` 48; 5 texts | texts shorter than, as long as and longer than the length field holds, with NULs on both sides of that length; content at and over `Cap`; every number of positional arguments the binding tells apart, with each name |
| writes, processes, names, faults, restarts (`PluginDelivery`) | 3; 2 or 3; 3; 1 where there are faults; 2 | two changes within one delay and one after; a process that starts during a reload while another is reloaded; one failure anywhere; a name that is lost and a second one lost again |
| messages, loggers, requests, capacity, errors (`PluginMessage`) | 3, 3, 2, 1, 2 | the queue full, the thread ended with a message behind it, two `setLogger` at a time and one after |

`CHECK_DEADLOCK FALSE` is in every configuration: requests, calls and launches
are bounded, and a program that is not called stops.

### Fairness

- `RpcChannel`: weak fairness of each thread inside a call (`Step`): threads of
  the interpreter are scheduled. That a thread calls again is not assumed.
  `EveryCallEnds` does not assume that the server answers: the socket's timeout ends the wait.
- `PluginAgent`: weak fairness of the main thread only; Android runs it.
- `RollingLogger`: weak fairness of the writer thread and of calls in progress.
- `LaunchIntercept`: weak fairness of every thread inside a call and of the
  activity manager for a process that attaches; none for `launch` being called,
  for processes started elsewhere, or for the subscriber coming back.
- `PluginDelivery`: weak fairness of the watcher's thread and of time passing; none
  for the developer, the app or the program's main thread.
- `PluginMessage`: weak fairness of the sender's thread.
- `DeviceSession`: weak fairness of each thread inside an operation (`Step`), the
  monitor and the loops included. A loop that waits in `recv` comes back: the
  socket has a timeout of 20 seconds. None for properties being read, nor for losses.

## 4. What is proved

TLAPS checks the theorems below for every value of the constants that satisfies the
assumption named in the component's module: any number of threads, calls,
packages, processes, plugins and so on, any widths and any bounds. The assumptions
only give the constants their types (and, where the code relies on it, say that a
set is not empty or that two names differ); TLC evaluates each of them on its
run. Two results about the channel have further hypotheses, which are settings of the
model and stated with the theorem.

A proof is an inductive invariant, which holds initially and is preserved by every
action, and the consequence by PTL. What a theorem's property says, section 3 tells;
here is why its invariant has to say more.

### RpcChannelProofs

- `TypeCorrect` (`TypeOK`). `TypeInv` adds what the types of the history need: a
  thread is in a call exactly when it is not idle, and the counter never exceeds the
  number of calls begun, so that writes to `outcome[cur[t]]` stay in the functions' domains.
- `LockExcludes`: with `~LockMayTimeOut`, at most one thread is in its exchange
  (`MutualExclusion`). `LockInv` says that a thread past `AcquireLock` and before
  `Release` is the holder, which mere exclusion does not imply.
- `RepliesAreOwn`: with neither wait timing out, `OwnReply`. The invariant
  `OwnReplyInv` describes the stream: while the socket is open there is at most one
  request that wants a reply (`RequestInv`), or what the server still has to write and the
  reader to read of the reply to it, and it belongs to the thread that waits; if nobody
  waits the stream is quiet (`StreamInv`). So the bytes read as a header are one, and
  `mistaken` stays false. This is why duplicate and wrapped identifiers do no harm: a reply never
  meets any other call.
- `ChannelImplementsService`: under the same two hypotheses the channel
  implements `RpcCallService` (`ImplementsService`), step by step. It needs, beyond
  `OwnReplyInv`, that each request on the wire is of a call not carried out yet and is the
  only one of its call, and that whatever was replied was carried out (`ServedInv`);
  that excludes a call carried out twice, or answered before.
- `RepliesAreDealtOnce` (`StraysAreLeftOver`), wherever in a reply a receive times out, until a
  thread goes on without the lock. `ChainInv` says that what is left on the stream is the end of
  one reply and whole replies after it, each cell followed by its next. A reader that began at
  the beginning
  of a header has the next cell before it (`PairInv`). One that began anywhere else
  holds no reply, and ends in an exception or with `mistaken`; either takes
  cells from the front of the stream only, so that replies behind it are still whole or
  have lost their beginning, and nobody can hold them any more (`HeldOnce`). `WholeInv` and
  `AnsweredOnce` follow a reply to its caller, until `mistaken`; `LeftInv` says that a call in its
  exchange waits for something nobody else has a byte of. Until some call gives up `OwnReplyInv`
  holds, which is where the first sentence of the property comes from. A stronger property of
  earlier versions, that only replies of calls that gave
  up stray, is false, and the attempt to prove it showed the chain of section 3.
- `SoleCallerIsSafe` (`SoleCallerGetsOwnReply`), wherever in a reply a receive times out. As long as
  one thread has the client to itself and its identifiers have not wrapped, identifiers on the
  wire order the calls (`NumberInv`, `IdentifierInv`), so the test `<` of line 98 is exact. What
  an abandoned call left costs later calls exceptions, and perhaps their own headers; it
  becomes a result only when bytes that are no header are taken for one (`mistaken`), which
  nothing in the code rules out.
- `TimeoutLeftByAbruptCall` (`OwnTimeoutOutlivesOnlyAbruptCalls`): while the socket
  carries a call's own timeout, such a call has ended abruptly or is under way past line 83.

### DeviceSessionProofs

- `OneClientAtATime` (`NeverReplaced`), of server and system clients; the subscriber's cache has
  a second writer (section 2). The property speaks of one step; `LockInv` has to speak of every
  thread that computes a value: it holds
  the property's lock and the cache has been empty since it looked, or some
  wait for the lock timed out. Other threads only drop (`OthersKeepLockInv`).
- `SessionTypes` (`TypeOK`). `TypeInv` and `NameInv` say who a client is: the owner of
  its first connection, of which every later one, every `callbacks` entry and what a
  thread has in hand (`Knows`) are connections.
- All later proofs split a step by what it does, not by the 40 actions: `StepIsOneOf`
  proves that every step is one of 18 kinds, from `Alone` to `Loses`, or changes nothing.
- `DeadClientsLeave` (`DeadClientIsDropped`). The cached client's listeners are
  set unless it was excused before it was cached (`HeardInv`), and a client whose
  `sock` is gone is past its time, or a thread is on its way to drop it (`GoneInv`,
  `TakenInv`). Two facts make this last: a client in the making is known to its caller only
  (`Apart`, `Unknown`), and once past, a client never gets into the cache again (`Past`).
- `MonitorStaysAlive` (`MonitorSurvives`): without a subscription no loop ever runs, so nobody
  clears listeners under the monitor, and it can only meet a client whose
  constructor has not finished (`SingleInv`, `SurviveInv`).
- `ConnectedStaysWatched` (`ConnectedIsWatched`). Only the newest socket of a file number can be open
  (`NumbersInv`), a new socket is known to nobody but its thread (`FreshInv`), a
  client's socket is open and about to be closed by nobody (`SockInv`), and its entry stays
  unless the number was used before or the loss was missed (`WatchInv`).
- `LossClosesNoOther` (`OnlyLostAreClosed`). Without a subscription an open socket is its client's,
  one just made, or the lost one the monitor is about to close (`OneAtATime`). With
  one, a client's first connection is closed before it has a second (`FirstOnly`), and a thread
  that handles a client whose first connection still works does not have that in hand (`SparesInv`).

### LaunchInterceptProofs

- `LaunchTypes` (`TypeOK`). Its core is which of a process's states go with the
  activity manager's lock being held and the host being asked (`ProcInv`).
- `CountsKeepTheBudget` (`InjectionsWithinBudget`). The two threads read,
  write and reset a counter without a lock. `BudgetInv` adds, for each uid, what the handler has
  counted but not injected, and what the current count still allows, to the injections
  made: the sum never exceeds the limit times the resets. A lost increment is
  covered because a reset pays for it.
- `TableSaysWhatWasAsked` (`TableIsExact`). `ExactInv` says for each entry that it
  holds its own items and those of names related to them, so that `contains` and
  `replace` on strings act as set operations wherever no related name is present.
- `LaunchedGetsItsPlugin` (`LaunchedIsInjected`). `AwaitedInv`: at most one
  process is waited for, and only after `launch` has started the activity.
  `QuietInv` follows a launch nothing came in between of: the entry is set, then the
  record is this launch's, then the count is 0, and what has been written stays until
  the process has been served.

### PluginAgentProofs

- `AgentTypes` (`TypeOK`), `ConfigIsCurrent` (`NeverStaleConfig`),
  `PluginsCanBeUnloaded` (`CachedPluginsCanBeUnloaded`): each is inductive, given
  the types and that an `append` under way works on a plugin it has cached.
- `PluginsAreCalledInOrder` (`CallsInOrder`). The flags of the hooks and the position of
  the main thread bound the last callback each plugin may have had (`Limit`), for
  apps that go through both hooks and for those that bypass one (`BothInv`,
  `StraightInv`); a plugin that joins a settled app is followed by the request that adds it
  (`Settled`). `PhaseInv` says where the two threads can be at once.

### PluginDeliveryProofs

- `DeliveryTypes` (`TypeOK`), with the number of file events bounded by the writes.
- `RulesAreFoundAgain` (`RulesKeepTheirName`): without pending updates the
  configuration in memory is the one on disk, and every rule that is not loose has its name.
- `ChangeReplacesEveryCopy` (`NothingOldKeepsRunning`): the property is about
  the end of a reload; `ReloadInv` is about its course: a process that is not to be visited
  any more runs what is on the device, and `KnownInv` that whatever is loaded anywhere is
  under the name in use or a forgotten one. An earlier version without forgotten
  names could not be proved: a restart before the name is saved leaves a
  second copy that no reload finds.

### PluginMessageProofs

- `UndisturbedCallsAreKept` (`LostOnlyWhileSwitching`). A closed logger is in place only until the
  `setLogger` that closed it clears the field (`ClosedInv`); while one is under way
  every pending call counts as overlapped (`OverlapInv`); a test that found a
  logger still finds it at the write, or the call was overlapped (`TestedInv`).

### RollingLoggerProofs

- `LoggerTypes` (`TypeOK`). `NameInv` adds that the numbered files of a day are numbered without
  a gap, so that `NextIndex` exists and is the next number (`NextIndexIsNext`, by counting the files).
- `NothingIsLostQuietly` (`LostOnlyInTrouble`). `KeptInv`: without trouble the writer always
  has a stream when it writes, so no batch is given up and what it has gone past is on
  disk; once it has taken its last look at the queue a line counts only if it is in the batch or on disk,
  and it ends with an empty batch.
- `FilesKeepTheOrder` (`FilesReadInOrder`), with failed file operations included. `OrderInv`: the files,
  the rest of the batch and the queue, one after the other, hold the lines in order. A written line goes
  to the end because the file in use is the last one, and a batch that is kept to be written again has
  no line on disk, since nothing takes the stream away in the middle of it (`LastInv`).
- `FilesStayWithinLimit` (`FilesWithinLimit`): given that a rollover ends in a new file, the property is
  inductive by itself. The length of a file is a sum over its lines, so what a line
  adds to it is shown by induction (`NatSets`, below).

### ApiClientProofs

These theorems are about what the bytes say, so most of the proof is lemmas about `RpcCodec`.
`CodecAssumption` (a byte has at least two values, a frame holds at least one
byte) and `ApiAssumption` are what they assume: samples are of their types, the defaults are of
the last arguments, the table has every declared method, and no member of an enumeration is
one of the three error codes. TLC evaluates the second on all that the clients declare.

- Induction. The induction theorems of the library take operators, which the provers
  cannot instantiate; `NatSets` says the same of sets (a set with 0 and every
  successor has all of `Nat`) and follows from `<` being well-founded. `WrittenExists` and
  `WasReadExists` use it to show that the recursive functions in `Encode` and `Decode` are
  what they say, and `RoundTrip` to show, argument by argument, that the one undoes the other.
- `ReadPut` is the round trip of one value. A text of `Marker` bytes or more
  ends at the first NUL after its first `Marker` bytes, which is the one put behind it
  only if the text is `Delimited`.
- `BindIsPython`: wherever `Accepts` and `PythonAccepts` hold, `Bind` gives each position
  `PythonArgument`.
- `ClientTypes` (`TypeOK`). `SentInv` says of a call on its way that its data encode what was
  bound, its header holds the number the attribute was made with and the length, and
  that its reply is one the method may give. From it, with `HeaderReads` (the word with
  command and length reads back if the content is shorter than `Cap`), `CalledIsReached`
  (`CallsReachTheirMethod`) and `ArgumentsAsInPython` (`ArgumentsArrive`).
- `ResultsAsMeant` (`ResultsArrive`): `ReplyParsed`, by cases on the type of the result.
- `AnswersUnderstood` (`BroadcastsUnderstood`): inductive by itself; the command is signed
  (`NegativeReads`), so neither -120 nor the broadcast's own number reads as -1.

### What is only model-checked

- Liveness under fairness is out of this prover's reach: `EveryCallEnds`,
  `EarlyPluginsServed`, `AcceptedIsWritten`, `NobodyWaitsForever`, `LossIsNoticed`,
  `LastChangeArrives`, `QueuedIsSent`. So is `ENABLED`.
- The three runs that find a violation: the counterexample is the result.

## 5. Plan and limits

Several properties name exceptions. Each is something the code does and TLC reaches, listed among
the hazards of PROJECT.json with a note, and the property is about everything else:
replies after other bytes were read as a header, and all of the channel once a thread goes on without the
lock; methods kept from another server's table, content of 2^24 bytes; clients lost
before they were cached or connected a second time, reused file numbers, and much of the subscriber;
overlapping writes of the intercept table and related names; changes within the delay, failed
pushes, names lost in a restart, paths no event passes; plugins that throw while they are unloaded, or
join while the app starts; a close() that gave up waiting, failed file operations.

Modelled: all modules of section 2. Every invariant and every action property of
the passing runs, and the refinement, is proved. What could still be proved, in this order:

1. The part of the liveness properties that is safety: that what a waiting thread waits for
   has a thread on its way to it (as `LaunchTypes` has for the activity manager's lock).
2. The refinement of `RpcCallService` when receives time out, with `EndWithout` for the
   calls that give up, for a thread that has the client to itself.

Not modelled:

- `adb` wrappers and shell parsing in `device.py` and `common.py`: text
  processing without state, whose behaviour is the device's.
- `try_connect`, `create_subscriber` and the kqueue and select branches of the monitor.
- Two writes of a client's cache: the subscriber that `auto_subscribe_system_server` puts there, by
  default and without that property's lock, and the client `connect_callback` is shown. What
  section 3 says of subscribers is of those that their own property made.
- Requests that are sent in part, and broadcasts broken off in the middle.
- `reload_plugin` of a plugin that was not registered.
- `StackManager`: its table is double-checked outside the lock, but nothing depends on
  which of two labels of one stack stays.
- The launch listeners of `albatross_client.py`, called from a list others may append
  to: only scripts of users register any.
- The counter across reconnects: `get_apis` packs it without the mask, and raises on
  a client that has made 65536 calls.
- `plugin.py`, permission and activity getters of the system_server agent, reflection
  stubs, the demo plugin, tests and build files: no state, or no behaviour
  beyond assignment.
- The native binaries, except for what the code relies on.
