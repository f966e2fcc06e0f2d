# RhIO in TLA+

RhIO lets a robot program expose a tree of *values*, *commands*, *streams* and
*frames*, and lets shells on other machines read, set, watch, tune, log, save
and load them.  These modules model the parts of it in which threads, processes,
messages and crashes meet, model-check them with TLC, and prove with TLAPS, for every
value of their constants, the safety of most of them: of the queue everything else rests
on, with its refinement of an abstract channel, of the updates of a value, publishing and
streams, watcher counts, the shell's threads, start and stop, the tree of nodes, saving and loading, and of the requests, bindings and shells.

Source paths below are relative to the repository; `V:` is
`Server/src/ValueNode.cpp`.

    tlc -workers 2 -config MCTree.cfg MCTree      # one run; PROJECT.json lists them all
    tlapm ValueNodeProofs.tla                     # the proofs of one module

## 1. Inventory

### The robot program (server)

| Part | State it keeps | Operations | Hard behaviour |
|---|---|---|---|
| **LockFreeDoubleQueue** (`Common/include/rhio_common`) | two buffers with a length and a writer count each, an atomic pointer | `appendFromWriter` by any thread; `swapBufferFromReader`, `getBuffer/SizeFromReader` by one reader | lock-free: every atomic operation interleaves; the active wait; the capacity |
| **ServerPub** | a double queue per value type and for streams, a double list of frames with a mutex | `publish*` by setters, `sendToClient` by its thread every 20 ms | swaps one after the other; the frame list is walked without the mutex |
| **ServerLog** | a double queue per type, name-to-id mappings, clamped history | `log*` by setters, `tick` every 50 ms, `writeLogsToFile` by any thread | a log is written while values are on their way; clamping by time; name ids |
| **ValueNode** (a node's values) | type maps, a mutex per node, per value: value, bounds, timestamp, callback, watcher count, persisted copy | `new*`, `get*`, `set*`, `setRT*`, `addRT*`, `subRT*`, `toggleRT*`, callbacks, enable/disable/check streaming, `saveValues`, `loadValues` | locking and lock-free updates of one value; callbacks that throw; the watcher count |
| **IONode** (the tree) | children, a mutex per node | `child`, `childExist`, `newChild`, `save`, `load`, path forwarding for all four kinds of content | lookups and creations under different mutexes; traversals that hold many of them |
| **StreamNode, FrameNode, CommandNode** | per stream: its ostream, buffer and watcher count; per frame: watcher count; per command: its function | `newX`, stream output and `sync`, `framePush`, `call` | a stream's buffer is shared without a mutex; watchers as for values; a command runs under its node's mutex |
| **ServerRep** | the REP socket | one handler per request type: listings, get/set, metadata, streaming, commands, save/load, log | one request at a time; errors become error replies; another exception holds the thread |
| **RhIO.cpp** | global pointers to the servers, `serverStarting`, `initServerCount`, over flags, three threads | `start`, `stop`, `started`, `writeLogs`, `Root` | starting and stopping against calls through the pointers; a thread that throws |
| **Bind, Wrapper** | containers of bindings of program variables to values, by type; a wrapper's node and value | `bindNew` and its builder, `bind`, `bindFunc`, `pull`, `push`; `Wrapper::bind`, `set` | read and write back against other threads; narrowing; partial failure |
| **Filesystem** | none | directory calls | none of its own |

### The shell (client)

| Part | State | Operations | Hard behaviour |
|---|---|---|---|
| **ClientReq** | one REQ socket, no receive timeout | one function per request | shared by threads; a lost reply blocks for ever |
| **ClientSub** | a subscriber thread and handlers | start and end, receive | UDP: messages may be lost |
| **StreamManager, NodePool** | the pools on display, a mutex, a worker thread | `addPool`, `removePool`, `update`, the handlers | three threads, one mutex, one socket, pools on other threads' stacks |
| **watch, tune** (`WatchCommand`, `TuneCommand`, `Curse`) | the command's pool | fetch, add, edit, send, remove | edits against streamed values |
| **Node** (the shell's tree) | a cached copy of the server's tree, downloaded node by node | constructor, `getChild`, `Shell::sync`, `getNode`, `getNodeValue`, `getPool`, `updateCommands` | many requests for one node; stale against a growing or restarted server |
| **cat, view** (`CatCommand`, `ViewCommand`) | the handler in the manager, the output file | enable, set and remove the handler, disable | the handler is called by the subscriber's thread while it is removed |
| **Shell, commands, plots, joystick** | user interface | parsing and drawing | sequential |

### How they interact

Setters of any thread call `ServerPub::publish*` (if somebody watches) and
`ServerLog::log*` through the global pointers that `start` and `stop` manage;
both append to LockFreeDoubleQueues that the server threads swap.  Shells send
requests over REQ/REP to ServerRep, which calls the nodes; ServerPub sends to
all shells over UDP radio/dish.  The watcher count of a value, changed by
requests of many shells, decides whether it is published.  Files connect one
run of the program with the next.

### What would make each part correct

* queue: nothing accepted is lost, doubled, mixed or reordered, within a stated
  exception; the reader always gets its turn.
* publishing: what waits goes out within one period; frames are never touched by
  two threads at once; the newest frame gets through.
* streams: a text written alone is not lost before it is published; a cat leaves nothing behind.
* logging: a log read back by name is what was logged, nothing recent missing,
  nothing old left.
* values: what is streamed and logged was stored; the last thing streamed is the
  current value; locking updates keep their order.
* watchers: the count is the number of shells that watch, and after a restart or a
  kill neither streams for ever nor starves a live shell.
* tree: nodes and values are made once; calls do not wait for each other in
  circles; saves and loads miss nothing; lookups find what is there, wherever nobody is changing the map they read.
* persistence: a file is a picture of one moment; a load gives back what was saved.
* life cycle: `start` returns with servers up, `stop` leaves none, calls in
  between are safe.
* requests: each takes effect at one moment, and its answer is true of that moment;
  a call ends unless it was lost with the program.
* bindings: a push changes nothing it has no reason to; a binding that failed
  disturbs no round of the others more than it must.
* shell: the screen shows the server's value; replies reach who asked; a downloaded
  node is all that was there; no answer of a living program kills the shell, but for the refusal of a name that is there.

## 2. Modules

| Module | Models | Depends on |
|---|---|---|
| `LockFreeDoubleQueue` | the queue, one action per atomic operation | |
| `BoundedDelivery` | the abstract promise of the queue to its users | |
| `QueueDelivery` | the queue carrying numbered values; refines `BoundedDelivery` | extends `LockFreeDoubleQueue` |
| `ServerPub` | publishing and frames | abstracts the queue to its promise |
| `Streams` | a stream that several threads write to, and the shells that show it | extends `ServerPub` |
| `ServerLog` | logging, clamping, writing and reading back | as above |
| `ValueNode` | updates of one value by several threads | |
| `StreamWatchers` | the watcher count, shells, restarts, kills | |
| `Tree` | nodes, mutexes, creation, lookup, save and load as traversals | |
| `Persistence` | what save and load write and read, across crashes | |
| `Lifecycle` | start, stop, the server threads, the global pointers | |
| `StreamManager` | a shell's threads, its socket, UDP, and one server value | |
| `RemoteCalls` | the abstract promise of a request | |
| `Requests` | the request server and its clients; refines `RemoteCalls` | `RemoteCalls` |
| `ShellTree` | a shell's copy of the tree and its commands, as requests | extends `Requests` |
| `Bind` | the program's bindings, a wrapper and a command | extends `Requests` |
| `Robot` | the composition: program, server, shells, clients, restarts | `ShellTree`, `Bind` |
| `LockFreeDoubleQueueProofs` | the queue's safety, and the refinement of `BoundedDelivery` | `QueueDelivery` |
| `StreamsProofs` | publishing, streams and cat | `Streams` |
| `ValueNodeProofs` | the updates of a value, and the count of its watchers | `ValueNode`, `StreamWatchers` |
| `StreamManagerProofs` | the shell's threads | `StreamManager` |
| `ServersProofs` | start and stop, and the history of the logging server | `Lifecycle`, `ServerLog` |
| `TreeProofs` | the tree of nodes | `Tree` |
| `PersistenceProofs` | saving and loading | `Persistence` |
| `RobotProofs` | requests, shells and bindings, and the refinement of `RemoteCalls` | `Robot` |

`MC*` modules give TLC its constants.  `PROJECT.json` maps each definition to the
lines it stands for.

### Correspondence

* **LockFreeDoubleQueue.**  `statePtr`, `stillWriting`, `length` and `buffer` are
  the members of the class and of `State_t`; `wpc` and `rpc` say between which two
  atomic operations a thread is.  `LoadState`, `TakeLock`, `ClaimIndex`,
  `BeginCopy`, `EndCopy`, `Unlock` are lines 110-122; a copy takes two steps, so
  that it can be read half done (a cell is a *set* of values: the one it holds or
  those it mixes).  `length` saturates at `MaxSize + 1`, which the code cannot
  tell from a larger number.  `late` and `covered` are histories.
* **ServerPub.**  `step` walks `sendToClient`: odd and even steps are the swaps and
  the sends of one type after another, the last ones the frame list.
  `framePush` is three steps around the mutex, or one that does nothing: nobody watches the frame, its size is
  not that of its picture, or its name is unknown.
* **Streams.**  `text` is the `std::stringbuf`; a use of the stream is a write in two
  steps, so that another thread's may fall between, and `sync`: `Sync` reads the count, the pointer to the server
  (`hasServer`) and the buffer, `PublishStream` hands it over, `ClearBuffer` empties it.  `cat` is where the user's thread
  is in `CatCommand::process`; `handling` where the subscriber's thread is: it looks
  at the handler (`Hear`) and calls it (`CallHandler`).  A call of an empty
  function ends the shell (`terminated`).
* **ServerLog.**  `tick` swaps the buffers of all types, then moves one value after the
  other to the history (`Transfer`), then pops one front after the other (`Clamp`), all under
  `_mutex`; `step` counts the types in each of the three.  `writeLogs` needs the mutex too.  The newest of the
  times at the back of the histories (`Newest`) is looked up at each pop, which pops never change.
  `NameOf` is the map from ids to names that `RhIOReadBinaryLog` makes.  A value is logged with a timestamp that
  lies up to `MaxLag` behind the clock, since the setters take theirs, by a default argument, before the
  mutex, the callback and the append; so timestamps are out of order in a queue and between types.  A log that
  cannot be opened leaves the file that was there.
* **ValueNode.**  One value, one action per step of a setter between two points
  where another thread may see a difference; `set*` take the node's mutex,
  `setRT*`, `addRT*` do not.  Every setter is Begin, (Lock), Store, Stamp,
  (Callback), Publish, Log.  `setStr` stores, then bounds the field, and publishes
  its argument (V:318).
* **StreamWatchers.**  `link` is a shell's request or reply; the server answers one
  at a time; a restart makes replies late or lost.
* **Tree.**  `Path` gives the nodes from the root to each; a `call` is at a node with
  the rest of its path to go.  `Create`, `Insert` are the critical section of
  `createBranch` and the end of `newChild`; `LookUp` and `Descend` are the two
  critical sections of the other branch, under the mutex of the *base* of the
  call; `Answers` is what a map that is being changed may answer.
  `CheckType`, `CreateValue` are the two of `newBool` and its siblings.
  `save` and `load` keep the mutexes from the base down and go through the children in the order of
  the map (`Rank`, `First`).  `Visit` begins either at a node: a load is then there (`LoadChild` makes the nodes that
  have a directory, `VisitChild` goes on to the next child, `Leave` goes back); a save first asks
  `isNeededSave`, which goes down with a chain of mutexes of its own (`LookDown`, `LookBack`) until it finds a value
  (`LookFound`), gives all of them back and only then takes the node's mutex again (`SaveNode`).  Under it the save
  compares children and directories (`SaveThrows`), asks about each child that has no directory (`AskFolder`), saves the values
  (`SaveValues`) and goes on to the children.
* **Persistence.**  The content of the files.  `Open` truncates, `Emit` and `Mark`
  are the two reads of a value (V:958, V:962), `Close` writes; `Crash` may fall
  between any two.  A file holds texts: `Written` makes them, of a float (`Fixed`) one of 15 fixed decimals (V:966-975)
  that many floats share, or `nan` or `inf`; `Guess` is the sequence of conversions of
  `loadValues`, to an integer (`Numerals`), to a double (`Decimals`) and to a string (V:1028-1104); `Parsed` is the value that is made
  of a text, of a decimal text the double next to it (`Double`).  `Kept` is what a value is after a save and a load.
* **Lifecycle.**  `thread` is where each server thread is; `pointer` and `object`
  say which start made what a pointer refers to; 0 is null or destroyed.
* **StreamManager.**  `socket` is the REQ socket: a second send while a reply is
  awaited throws, which the worker swallows and the tuner does not.  `HandleValue` makes of what was streamed what the
  handlers' arguments hold of it (`Narrow`): `intHandler` takes an `int` for an `int64_t`
  (`StreamManager.cpp:70`), `floatHandler` a `float` for a `double` (line 87).
* **RemoteCalls.**  A call is begun, performed at one moment, and done; the robot may
  change the tree at any time, but takes no name away; a restart empties the tree and may lose
  the calls under way.  Two things are not of one moment: the list of all commands is begun and ended (`BeginAll`,
  `EndAll`), with all that were there at the first and nothing that is not there at the second; and a name that is
  there may be refused (`MayMiss`) while a child is being put into a node on its path that is neither the first nor the last.
* **Requests.**  `line` is a client's REQ socket with what is on its way; `serving` is how
  far the server's thread is.  `Begin` takes a message and looks its name up
  (`getNode`, `getValueType`); `List`, `Details`, `GetValue`, `SetValue`,
  `CallResult` are the handlers, that act on the tree in a second step and answer, `Refuse` is `error`.
  Between the two steps the program goes on.  `EndCall` is a step of its own: a
  command takes time and keeps the mutex of its node.  The four handlers of the four
  types differ in the type asked for only, which here belongs to the name.  `content` is the
  tree: 0 for what has no datum.  `Path` gives the nodes on the way to each name, to any depth.  A lookup reads the
  maps of the root and of the last node under their own mutexes, those between under that of the root
  (`IONode.cpp:402-409`): `inserting` is a child that is being put into its parent's map, which keeps out those who take that
  mutex (`CanLookUp`) and lets a lookup that does not miss a name that is there (`Torn`), at the first lookup
  (`Begin`) or at the second (`Refuse`).  `misled` is a history: the clients to whom that has happened, or whose server was started
  again.  `ListAll`, `ListCommands`, `ListChildren`, `ListedAll` are `listAllCommands`, which goes from node to
  node with two lists for each and nothing locked between them (`walk`); a listing of one kind in one node is one critical section.
* **ShellTree.**  `Sync`, `ChangePath`, `GetOrSet`, `Pool`, `Remote` are what is typed;
  each goes on (`GoOn`) as far as it can without a request, and `OnReply` continues it
  (`Told`, `Completed`, `Failed`).  `Load` is the constructor of `Node`: it asks for each kind
  in turn, and for the details of each name it was told.  `Shell::getNode` goes down from the root, and the nearest node
  that is missing (`Missing`) is downloaded if its parent knows it (`Has`); if not, `Lacking` is what becomes of
  the command.  `NotLoaded` is a null pointer,
  and for the root a deleted one; `Crashed` is its use, or an exception that
  leaves `main`.
* **Bind.**  `Construct`, `BindNew`, `DefaultValue`, `BindExisting`, `NewFunction` declare, one
  binding after the other; `Pull`, `Compute`, `Push` are the rounds, one step per binding,
  since the mutex of the node is given back between any two.  `touched` and `moved` are histories: what the program
  changed in its variables, and others in the values, since the last transfer.  Other code of the
  program makes nodes (`BeginInsert`, `EndInsert`) and names (`Declare`) anywhere in the tree.
* **Robot.**  Each action of one module leaves the variables of the others alone, except that
  a set by a request is noticed (`moved`) and a command changes variables (`FunctionRuns`).

## 3. Runs

| Run | Asks | Properties |
|---|---|---|
| `queue` | two writers that append without end, any number of swaps | `TypeOK`, `LockCount`, `ReaderOwns`, `ClaimedOnce`, `SwapTerminates` |
| `delivery` | bounded numbered values through the queue | `KeepsPromise` (refinement), `LossBoundedByRaces` |
| `queue_loss` | *violation:* true is returned for a value that is lost | `TrueMeansDelivered` |
| `watchers` | three shells, two restarts, a kill | `CountFollowsShells`, `StreamingResumes` |
| `value` | three threads, four kinds of setters, callbacks that throw | `CarriesWhatItStored`, `QuietIsCurrent`, `InStoreOrder` |
| `log` | values of two types and names with late timestamps, ticks, log files | `FileReadsBack`, `FileKeepsRecent`, `FileClamped` |
| `manager` | a user who watches and tunes, handlers that narrow, a lossy network | `DrawnWhileAlive`, `ReplyBelongsToWaiter`, `EventuallyShown` |
| `lifecycle` | two starts and stops, threads that throw, a caller | `ServersFollowCalls`, `CallsSafeUntilStop`, `StartAndStopEnd` |
| `publish` | two types, two frames, a sender; two threads and a cat on a stream | `ListsApart`, `SentInOnePeriod`, `FrameFlows`, `LostOnlyIfRaced`, `CatLeavesNothing` |
| `persistence` | two nodes, values of all four types, two crashes | `FileIsSnapshot`, `DiffIsHonest`, `LoadRestores` |
| `tree` | two threads, three calls of any kind on five nodes | `CreatedOnce`, `NoDeadlock`, `VisitsAll`, `FoundUnlessTorn` |
| `robot` | a program that binds, other code of it that makes nodes, a shell that browses, a client that sets, one server thread | `TypeOK`, `ShellSurvives`, `RoundsThrowOnlyPoisoned`, `BrowseComplete`, `CommandsEnd`, `NoStaleOverwrite`, `ServedAsPromised` (refinement) |

Every property has a mutant in `PROJECT.json`, a plausible bug in one definition
that makes TLC report it; the mutated operators stand next to the ones they
replace.  `TypeOK` is checked where it says more than the types (`queue`: the reader's
index, `robot`: one request in the server's thread); the other modules keep theirs as a
description of the state, and as the first part of their inductive invariants.

### Bounds, and why they are enough

* `queue`: two writers, one value, two cells: the smallest with a second writer to
  race, a full buffer, and a value to tell from none.  The number of appends and
  swaps is *not* bounded.  The safety properties are proved for all constants.
* `delivery`: two writers with two calls and with one, two cells: the order of one
  writer's values matters, three values overflow the buffer, and a late writer
  needs one swap to become late and one more for the loss to show.
* `watchers`: three shells so that one can enable, one leave and one starve at
  once; one kill; two restarts, the second to meet what the first left behind.
* `value`: three calls of three threads and values that the bounds clamp or do
  not: every pairwise race, and a third thread between the two.
* `log`: a capacity of two and three entries over two types reach a full queue, a
  clamp that removes something and one that leaves a single value.  `MaxLag = 1` with a length of 1 and a
  clock up to 4: a late timestamp at the front, behind a young one and at the back, and one that keeps an older value in
  the history.
* `manager`: three changes over three values and one loss; both commands.  The largest value does not fit into
  what the handlers take, and comes out as the smallest.
* `lifecycle`: two starts, the second meeting the remains of the first.
* `publish`: capacity one and two frames: a full queue, and a frame that takes
  another one's place.  Two families of initial states: values and frames are published
  and nobody uses the stream, or two threads write a text each, or one of them two, to the
  stream while a shell enters cat once and nothing else is published.  Two texts
  reach a text kept in the buffer, one that is cleared before it is read, and one shown late after
  another.
* `persistence`: a root with an integer, a boolean and a float and a child with a string, two changes, two crashes.
  The float is zero or below the 15th decimal, and both are written alike; the integer is also set by real-time setters.
* `tree`: three levels, so that there is a node below a child of the base, with a
  sibling whose insertion changes the same map; every subtree may exist at the
  beginning; three calls of two threads put a creation and a save before or
  against a third call.  Some nodes were saved by an earlier program, and are
  missing from the tree.  One value, in the deepest node, that may be there at the beginning or be made: so a save goes through
  nodes that have nothing to save themselves, or finds nothing to do, and the answer may change while a look is on its way.
  237 324 states.
* `robot`: four families of initial states, each with what it needs, since their
  product says nothing more.  *Looping*: the program declares, with or without a type clash, and
  then pulls and pushes for ever, against a client, a wrapper and a command; nobody
  browses.  *Browsing*: the program declares, one value with a clash, while a shell types
  anything at any time, and may be started again once, at any moment: a copy of
  before it, or a sync in the middle of it, meets the new program; the client
  hangs already, and cannot hide what the shell waits for.  *Extending*: the program is through with its
  bindings, and other code of it makes a node on the second level and a command in it, while a shell browses a tree
  of three levels: a lookup of what is in the sibling of that node may be torn at its parent, and the walk of all commands meets a tree that
  grows in front of it and behind it.  One insertion of a child at a time: two at once tear no more lookups than one does.
  *Competing*: everything is declared, a shell and a
  client have requests under way together, so that one waits while the other is served.  330 203 states.  Two bound
  values: one that is pulled only and may clash, and one behind it that is pulled and
  pushed, whose callback may throw, with three data of which two fit the variable.

### Fairness

* Threads that are inside a call are scheduled again (weak fairness of their
  steps): the code's loops end in no sleep that needs somebody else.
* `SwapTerminates` needs nothing more: writers that keep appending go to the other
  buffer.
* The shell's mutex is an ordinary `std::mutex`: strong fairness on taking it,
  justified because every holder gives it back and the worker sleeps between
  rounds (`StreamManager.cpp:195-200`).
* ZeroMQ's REP socket takes its clients in turn: strong fairness of
  `ServerTakes(c)` for each client.  The request that is taken is served, and its command ends, by
  weak fairness of the server's thread; an insertion of a child, which a lookup may wait for, ends; a shell goes on with what was answered.
* Users, robot programs and crashes promise nothing: no fairness on their actions.
  The properties speak of what happens when they stop.
* `NoDeadlock` is stated by the guards of the code and not by `ENABLED`: `Needs(t)` is the node
  whose mutex the next step of a thread takes, if it takes one, and the thread waits while that is held.  That this
  is what the actions ask for is checked as well: the run has TLC's own deadlock check on, and a state in which calls
  are under way and nobody can go on would be reported (`Over` is the one stop that is meant, when all calls
  have returned).

## 4. Proofs

What is proved holds for every value of the constants: any sets of threads, writers,
shells, nodes, types, any capacities and bounds on the number of calls.  The assumptions
say no more than what the constants are, and TLC evaluates them in every run: writers, shells, frames and the threads at the tree
are finite sets, capacities and bounds are numbers, a mark of absence ("nobody", `NoThread`) is
none of what it stands beside, the types are distinct, the items of the delivery are values.
Each proof has one step, or one lemma, per action.

### The queue: `LockFreeDoubleQueueProofs`

| Theorem | States |
|---|---|
| `TypeCorrect` | `Spec => []TypeOK`; with it, that the reader never indexes past the capacity |
| `LockCountInvariant` | `Spec => []LockCount`: `stillWriting` is exact through any number of swaps |
| `ReaderOwnsInvariant` | `Spec => []ReaderOwns`: only a call that raced a swap can be in the reader's buffer |
| `ClaimedOnceInvariant` | `Spec => []ClaimedOnce`: cells are claimed once, unless a call raced a swap |
| `Promise` | `DeliverySpec => KeepsPromise`: the queue implements `BoundedDelivery` |
| `WriterOrder` | `DeliverySpec => []InWriterOrder`: until a call races a swap, one value after the other is copied out, none twice, those of a writer in the order it appended them |
| `RaceCost` | `DeliverySpec => []LossBoundedByRaces`: a call that raced a swap costs two values at most |
| `SwapWaits` | `Spec => []WaitsForCalls /\ [][WaitShrinks]_vars`: the wait of a swap is for at most five operations of each call that had loaded the pointer before |

The argument has three layers.  `CountInv == TypeOK /\ LockCount` is inductive by
itself: each step moves at most one writer into or out of one set of holders, and
the lemmas on `Cardinality` follow the counter.  `ReaderOwns` needs it: the swap
goes on when `stillWriting = 0`, and only `LockCount` turns that zero into "nobody
holds this buffer".  `ClaimedOnce` is not inductive: that a fresh claim differs
from all earlier ones needs `ClaimedBelowLength`, that every claim by a call that
did not race lies below the length, and that the length is reset only when
nobody but late calls hold the buffer, which is `ReaderOwns`.  So
`SafetyInv == CountInv /\ ReaderOwns /\ ClaimedBelowLength /\ ClaimedOnce`.

`Promise` needs to know where each item is.  `ItemsOK` has the bookkeeping of the histories.
`Exact`, which holds as long as no call raced a swap, says that the cells that are still to be read
(`Live`) and the items that were accepted and not delivered are the same thing: every such cell
holds one such item, or the writer that claimed it is about to copy it (`Filled`), every item
has such a cell (`Placed`), those of one writer in the order of its calls (`Ordered`), with
the ones it has still to append behind them (`Behind`), no cell keeps anything of what it held before
(`Covering`), and what was returned before a swap is in the buffer that is handed over
(`DueKept`).  `DeliveryInv == SafetyInv /\ ItemsOK /\ (racers = {} => Exact)` is inductive, and each
step then is one of the abstract channel: a claim with room is `Accept`, the end of a call
that got a cell is `Return`, the read of the size is `HandOver` of what the buffer holds, the read
of a cell is `Deliver`, and most of the others stutter.  After a race the promise of
`BoundedDelivery` is the weak one (`raced`), which `ItemsOK` gives.

`WriterOrder` is what a reader sees of all this.  It is more than the promise, which does not say in which
order items are accepted.  `Passed` adds it: what was delivered was appended before all that its writer
has still to get through.  A claim keeps this, as the item of a call is the newest of its writer, and so does a
read, as the first cell that is left holds the oldest item of its writer (`ReadOldest`, from `Placed` and
`Ordered`).

`SwapWaits` counts, for each call that has the pointer to the buffer that is waited for, the operations it has left
(`Ahead`).  That is what the wait is for: a step of the call makes it less, and nothing makes it more, since a
call that starts loads the other pointer.  That the counter is not zero for any other reason is `LockCount`.

`RaceCost` says what the weak promise leaves open: how much is lost.  A call that raced sits in a
cell it claimed before the reader reset the length, and threatens the call that will be given that
cell in the next filling of the buffer (`Threat`).  `RaceInv` keeps two sets that no history variable
records: the victims `V`, and the racers `C` that were charged with one, of which there are at least as
many (`Charged`).  A claim in time that meets a threat adds one to each, and that racer threatens nobody
any more, because the length has passed its cell and is not reset before the racer is gone
(`Threats`); a racer may threaten only one cell, and no two of them the same one.  All other calls have
their cell to themselves (`AllClear`), so that what was returned, and is neither a racer's nor a victim's, is
alone in a cell that is still to be read and that nobody writes (`Sits`), or was delivered alone
(`ReturnedSafe`); what was returned before the last swap is in the buffer that swap handed
over (`DueSafe`), and when it has been read, only racers and victims can be missing.

### Publishing and streams: `StreamsProofs`

| Theorem | States |
|---|---|
| `Apart` | `StreamsSpec => []ListsApart`: no pusher changes the list of frames the sender walks |
| `OnePeriod` | `StreamsSpec => []SentInOnePeriod` |
| `Written` | `StreamsSpec => []LostOnlyIfRaced` |
| `Leaving` | `StreamsSpec => []CatLeavesNothing` |
| `Bounds` | `StreamsSpec => []Bounded`: no queue above its capacity, no list of frames with more than the newest |
| `Flow` | `StreamsSpec => []SenderGoesOn /\ [][FramesFlow /\ SenderAdvances]_streamsVars`: a frame stays until it is sent or replaced, and the sender waits for nothing but a call that can go on |
| `TypeCorrect` | `StreamsSpec => []StreamsTypeOK` |

Three invariants of three groups of variables.  `PubIInv`: a pusher that has
emptied a list has the mutex and is at the list that is written to, so that `SwapFrames`, which needs the mutex,
never hands it over (`ListsOK`); and each message that was waiting when `sendToClient` began is on its
way (`OnItsWay`, in `DueOK`): sent, in a queue or list whose swap is still to come, or in
one that is being read and whose send is still to come.  `TextIInv`: while a thread writes, what it
read of the buffer is what is in it, up to texts that are `Gone` (raced, flushed, or in a
message on its way, `SeenOK`); the buffer may be emptied once a thread is about to (`BufferOK`); two uses
at a time mark each other as raced (`RacesOK`).  `CatIInv`: the handler is set exactly while the user
watches, and the count is the number of shells between enable and disable.

### The updates of a value: `ValueNodeProofs`

| Theorem | States |
|---|---|
| `Carrying` | `Spec => []CarriesWhatItStored` |
| `Settling` | `Spec => []QuietIsCurrent` |
| `Ordering` | `Spec => InStoreOrder` (an action property) |
| `TypeCorrect` | `Spec => []TypeOK`: the mutex of the value is held by exactly one call |

A call that has stored knows what it stored (`Faithful`), which is enough for `Carrying`.  `Ordering`
rests on the mutex: no other call has the same number (`Numbered`), and after the store of a call
with the mutex no other setter that locks has stored (`InOrder`).  `Settling` is about the newest store: if it
raced nobody, its call is the only one that is between store and end, and still has to stamp and publish
what it has not (`Alone`); that nobody else is there is what `raced` records, and that it stays so while
others begin is the induction.

### The watcher count: `ValueNodeProofs`

`Counts` (`WatchersSpec => []CountFollowsShells`).  The property is nearly inductive.  It needs that a
server that has not created its value again counts nobody (`NotReady`), so that a disable it
refuses does no harm, that a shell asks exactly when it enables, checks or disables (`Asking`), and
that replies are lost only by a restart (`FirstServer`), for the exact count.  A step moves one
shell, so that the set the count stands for gains or loses that shell at most
(`OneMoves`).  `WatchersTyped` has the types.

`Resuming` (`WatchersSpec => []NeverForgotten /\ [][Closer /\ CheckRestores]_watchersVars`): a
shell that starves, since it watches and the server counts nobody, always has a step of its own to take
or is one of the requests the server has still to answer (`NeverForgotten`); while it starves, each step
leaves it where it is or brings it further round the check it makes each second (`Closer`); and the answer of a server that has
the value starts the streaming again (`CheckRestores`).

### The shell's threads: `StreamManagerProofs`

`Drawing` (`Spec => []DrawnWhileAlive`) and `Replies` (`Spec => []ReplyBelongsToWaiter`).  Neither the
mutex nor the socket alone says who waits, since the tuner sends without the mutex.
`SocketOwned` does: the socket belongs to exactly the thread that waits.  `Registered` says that the pool
is in the list from the end of `addPool` to the end of `removePool`, and that the worker redraws
only what is there.  `TypeCorrect` (`Spec => []TypeOK`) has that the mutex is held by who is between its lock and
its unlock.

`NoCircle` (`Spec => []NobodyStuck`): command, worker and subscriber never wait for each other in a
circle, although two of them wait for the server while they have the mutex: who has it waits for
an answer to its own request, and for nothing else.  `Screen` (`Spec => []OnItsWay`) is what the user is
promised: while a command that watches shows neither what the server has nor what an `int` or a `float` keeps
of it (`Forms`), for any function the handlers' arguments may apply (`Narrow`), what the server has is the
last message on the network, or is in the pool and marked for the worker, unless its message was lost or came
too early (`missed`).  `ScreenInv` follows the newest value from
the server to the screen; the tuner, which writes the pool without the mutex, can delay it and not lose it.

### Start and stop, and the log: `ServersProofs`

`Following` (`Spec => []ServersFollowCalls`) and `Calling` (`Spec => []CallsSafeUntilStop`).
Where the main thread is bounds where each server thread may be (`Stage`), and that says what its object and
its pointer are (`Places`).  The counter is the number of threads between their increment
and decrement (`CountOK`), so that three means all.  `CallsOK` follows a call from the look at the
pointer to its use; that a log is safe only if `start` had returned is the difference
between `writeLogs`, which does not look, and the setters, which do.  `TypeCorrect` has the types, and that the
counter is never below zero nor above the number of servers.

`Returning` (`Spec => []NeverStuck /\ [][Advance]_vars`): unless a server throws, somebody that the main
thread waits for can go on whenever it waits (`NeverStuck`), and no step takes a server thread
back in its life (`Advance`), which has five steps at most.

For any types, names, capacities and numbers of logged values, and with the types of `LogTyped`:

| Theorem | States |
|---|---|
| `Reading` | `LogSpec => []FileReadsBack` |
| `Keeping` | `LogSpec => []FileKeepsRecent`, if the length asked for, in microseconds, fits in an unsigned int |
| `Clamping` | `LogSpec => []FileClamped`, however late timestamps are (up to `MaxLag`, of which twice is allowed for: `Late`), if the length that is computed is not zero |

The hypotheses are those without which TLC finds the properties violated (`Wrap`, in section 5); a length of
zero never clamps (`ServerLog.cpp:149`).  `LogInv` says of each history that the ids of its type tell the
names apart (`IdsOK`: they are given in turn and lie below the size of the mapping), that its points are
the end of what was moved, translated (`Translates`), that what was cut was older, by more than the
length, than something that was moved (`CutIsOld`), and that what waits in the history, the buffer and the
queue is in the order of its time, one after the other, but for `MaxLag` (`OrderOK`).  A tick that has come past a type
has left its front young enough for the newest of *all* types (`ClampOK`), which the pops of the types
behind it do not change, as the last point of a type always stays.  Where timestamps are out of order the clamp
looks at the front only: what it keeps behind it is older than the front by `MaxLag` at most, and the last point, which
stands for the newest, is older than the newest by no more; hence twice `MaxLag`.  A file has all this (`FileOK`), since it
is written between two ticks.

### The tree of nodes: `TreeProofs`

For any tree, any values in it, any number of threads and calls:

| Theorem | States |
|---|---|
| `Creation` | `Spec => []CreatedOnce` |
| `Visiting` | `Spec => VisitsAll` (an action property) |
| `Finding` | `Spec => FoundUnlessTorn` (an action property) |
| `LockOrder` | `Spec => []WaitsDown`: mutexes are waited for downwards |
| `NobodyStuck` | `Spec => []NoDeadlock`: while somebody is inside a call, somebody inside a call can go on |
| `Ending` | `Spec => [][StepsOnward]_vars`: each step of a call brings it nearer to its end |
| `TypeCorrect` | `Spec => []TypeOK`: a mutex is held by exactly the thread that is inserting at its node, or saving or loading there or below |

The constant `Path` is the tree; all that is assumed of it is that every beginning of a path is the path of the
node it leads to, which makes `Below` an order (`BelowOrder`) in which every node but the root has one
parent (`Parents`) and the way down from a node is unique (`NextOnWay`); and of `Rank`, that the children of one node have
different places.  `IInv` has for each thread
that what is left of its path leads from the node it is at to the one it looks for (`Walks`, by `Leads`), so
that what it makes is a child of that node; that it holds exactly the mutexes of `Held` (`Holds`), so that
two threads never insert in one map and what is found missing is still missing when it is made; that the look of a
save stays below the node it was asked about (`Asks`); and that a
traversal has been to all it owes at and below the nodes it is done with (`Finished`): those above the one it has
come to (`Stop`), and those below the children that come before it in the maps on the way (`Cleared`).  By the time it
leaves its base that is everything.  A look that finds nothing may skip a subtree, since a node that owed a visit had
its value when the save began, and the look would have found it.  A node is there with all those above it (`Closed`), so that what was
there is met on the way down.  For the values, `ValuesOK` says that of several threads about to
create one all but one know that they overlap.  `Finding` rests on two of these: the answer to a lookup is wrong only if somebody
inserts in that map, and whoever inserts in the map of the base holds the mutex the lookup has taken.

`LockOrder`: who waits in a save or a load waits for the first child to come, in the order of the map, or to take the
mutex of its own node again; `Reach` is the depth of the node it waits for, and who holds a mutex is inserting, and
waits for nothing, or has a greater `Reach` (`WaitsDown`), whether it saves, looks or loads; the others hold nothing while they wait.
`NobodyStuck` makes of it that
there is no circle, with any finite number of threads.  Suppose that all that are inside a call wait.  Whoever holds a mutex
somebody waits for is a save or a load (`WaitedFor`); of
these there is one that reaches deepest, by the least element of a set of numbers (`Smallest`); what it
waits for is held by a save or a load that reaches deeper still.

`Ending`: a walk has fewer names left of its path, or the same and a later `Stage`; a save or a load has less of the
tree left to go to (`ToVisit`: what comes after the node `VisitAt` in the order of the maps), or the same and is at a later `Phase` of what it does at one
node, or has there one directory less to ask about (`bare`), less of the tree to look at (`ToAsk`), or has made one more of
the children it needs.  `Further` is a set of nodes of the tree, there or not, so that what others create does
not add to what is left; and nothing goes away.

### Saving and loading: `PersistenceProofs`

| Theorem | States |
|---|---|
| `Snapshots` | `Spec => []FileIsSnapshot` |
| `Comparing` | `Spec => [](Unambiguous => DiffIsHonest)` |
| `Restoring` | `Unambiguous` gives `Spec => LoadRestores` (an action property) |
| `Ending` | `Spec => [][JobOnward]_vars`: a save or a load comes back to no node and to no value of it |
| `TypeCorrect` | `Spec => []TypeOK` |

While the mutex of a node is held, what was emitted (`out`) and what is left to emit (`todo`) make up the
picture of the node that was taken when its file was opened, up to what `setRT*` changed
(`SavingOK`); so the file that is closed is that picture, and a crash in between leaves the file
empty and never a part.  `StoredOK` says that a whole file holds what was stored last, also after a crash, and
`SyncedOK` that a node that was saved or loaded is compared with what its file holds.

A file tells no types: `loadValues` guesses them from the text.  `Unambiguous` says that it guesses the
type of each value from every text that is written for what the value can hold.  `Snapshots` does not need it; the other
two are false without it, as section 5 shows with a string that looks like a number.  The texts of
the run satisfy it, and booleans, integers, floats other than `nan` and `inf`, and strings that look like none of these do.
A float is not restored as it was but to the 15 decimals of its text (`Kept` in `LoadRestores`), and is compared as it is written
(`DiffIsHonest`).  `FloatAssumption` is what `Comparing` and `Restoring` need of the rounding: a float that was
saved and loaded is written with the same text again.

`Ending` has no fairness and needs none: whatever a setter changes while a node is saved, each step of the job leaves
less to emit in its node or fewer nodes to go to, or ends it (`Whereabouts` says where it may be).

### Requests, shells and bindings: `RobotProofs`

For any number of clients and shells, any
tree of nodes of any depth, any data, any list of bindings of any widths and policies, and any number of
restarts:

| Theorem | States |
|---|---|
| `RobotProofs!Poisoned` | `Spec => []RoundsThrowOnlyPoisoned`: a pull or push throws only at a binding whose `bindNew` threw |
| `RobotProofs!Promised` | `Spec => ServedAsPromised`: the robot implements `RemoteCalls` |
| `RobotProofs!Survival` | `Spec => []ShellSurvives`: no shell dies unless its program was started again, or a torn lookup refused it a name that is there |
| `RobotProofs!Overwriting` | `Spec => NoStaleOverwrite`: a push changes a value only for one of the reasons the property lists |
| `RobotProofs!Browsing` | `Spec => BrowseComplete`: a download has all that was there when it began |
| `RobotProofs!TypeCorrect` | `Spec => []TypeOK`: the server has at most one request, and what a shell shows is where it shows it |
| `RobotProofs!Ending` | `Spec => [](BusyWaits /\ ServerGoesOn) /\ [][Progress]_vars`: what was typed comes nearer to its end with each step that changes it |

The assumptions (`RequestsAssumption`, `ShellAssumption`,
`BindAssumption`): names are finitely many, each has a kind, a node and the path that leads there from the root
(`PathAssumption`), a datum is no mark of absence, the bindings are a non-empty sequence of distinct values of the program's node, and what fits
a variable is a datum.

* `IInv == RequestsOK /\ ShellsOK /\ QuietOK /\ ProgramOK` is inductive.  `RequestsOK` has the content
  of the lines, `ServingOK`: one request is taken at a time, and the name
  found when it was taken is there when it is answered, whatever the second lookup says, and the shape of the walk.  `ProgramOK` has `Kept`: whatever is
  registered and did not fail is there, with its type.  Both hang on one fact, proved for each
  action on the way: `Remains`, that no step but a restart takes a name away.  `Kept` gives `Poisoned`.
* `Promised` maps each step: `Send` and `Receive` start and end a call, the handler's second step
  performs it, a look-up that fails performs the requests it refuses, which are unknown or `Torn` (`Refusable`),
  a restart is one there too, and all else
  stutters or changes the tree as the robot may.  The list of all commands is begun (`BeginAll`) when it passes the
  look-up and ended (`EndAll`) when it is answered.  `WalkInv` says that every command that was there at the beginning
  is found, or is below a node that is still to be explored (`ToExplore`); that the list of the children of a node has the next node on the way to
  it needs that whatever is there, or is just being made, is in nodes that are there (`HomeOK`).
* `Survival` needs to know what a shell may ask for.  `SurvivalInv` says of each shell that is not `misled`, by a restart
  or by a refusal of what is there, that it is `Safe`: it
  asks only for what is there, since it only asks for what it was told and
  all of it remains; so an error answers sets and calls alone, and never a download.  Its copy is a tree (`Shape`), in which each node on the way
  to the one the shell is at is a child of the one before (`OnWay`).  Such a
  node vanishes from the new tree only if the list of children misses it: while
  its parent is downloaded, that list is still to be asked for (`WillFind`), is under way, has this node in its answer, or has been put
  in the tree (`FindsPath`).
* `Overwriting` needs what the pulls before a push have left behind.  `PulledOK`: every binding of
  both directions that the pulls have been at, or would have been at, is `Fresh` (variable
  and value are equal, one was changed since, or the value does not fit), unless the
  pulls were cut off before it (`Cut`) by a binding whose `bindNew` threw.  `PushedOK`: a binding that cuts the
  pulls cuts the pushes too, unless it is only pulled; that is the case `Unpulled` of the
  property, the only way in which a sound binding is pushed without having been pulled.
* `Browsing` follows each name that was there when a download began (`before`): it is found,
  or the list of its kind is among the requests still to send, or that request is under
  way, or its answer has the name, or the answer is an error and the download is given up (`Coming`).
  The list is made when the request is served, after `before` was taken, and nothing
  goes away but in a restart (`Remains`), so that the answer has the name; and what is
  found was in an answer, so that it is still there.  `DownloadInv` also has `since <= restarts`: a restart
  leaves every download that is under way behind it, and the promise with it.
* `TypeCorrect` needs `TidyInv`: an answer is a set of names, and a shell that reads it puts it where it is
  loading, or among the commands when it loads nothing.  So every request a shell has sent or will send must
  suit what it is loading (`Suiting`), and the answer to each is of what it asked for.  A
  restart makes some of them lost, and none unsuitable.

* `Ending` has the order in which a command goes down (`Nearer`): the node it is downloading is there, or there are
  fewer lists to ask for (`Ahead`, the list of all commands among them), or as many and fewer requests, or all is as it was and the request that is under way is
  further (`Stage`: asked, taken, answered).  That needs that no list is asked for twice (`Single`) and that
  what is downloaded is what is missing (`Sought`).  A step of another client or of the
  program changes none of it (`Progress`).  `BusyWaits` says that a shell at work always has a
  request somewhere, or one that a restart has lost, and `ServerGoesOn` that
  the server always has the next step of what it took, also when callbacks or commands throw, or waits
  for a child that is being put into its node.  How long the walk of all commands is depends on how the tree grows under
  it, and is left to TLC.

### What is only model-checked

The six liveness properties: `SwapTerminates`, `StreamingResumes`, `EventuallyShown`,
`StartAndStopEnd`, `FrameFlows` and `CommandsEnd`.  Of each the part that is not fairness is proved:
that somebody can always go on, as far as the guards tell, and that each step brings the end nearer and none takes it further away.

| Property | Its safety half |
|---|---|
| `SwapTerminates` | `SwapWaits` |
| `StreamingResumes` | `Resuming` |
| `EventuallyShown` | `Screen`, `NoCircle` |
| `StartAndStopEnd` | `Returning` |
| `FrameFlows` | `Flow` |
| `CommandsEnd` | `RobotProofs!Ending` |

What is left is that an action whose guard stays true is taken.  It needs weak or strong fairness, which is defined by
`ENABLED`, and an induction along a well-founded order; both are out of the prover's reach, and TLC checks the properties
themselves.  (An argument by the least element of a set of numbers, as in `NobodyStuck`, is
within reach; one over what a recursive definition computes is not.)

What holds of real strings, frames or numbers beyond what the constants say of them is neither proved nor checked:
see section 6.

## 5. Disagreements between the code and what it says

One is kept as a run that must find it: in `queue_loss` a value accepted by
`appendFromWriter` is lost, or mixed with another one, if its writer sleeps between line
110 and line 112 of `LockFreeDoubleQueue.hpp` across a whole swap wait, against the
comments of lines 43, 61-62 and 102-104.  `delivery` shows how much the race can
cost: two values.

The others are seen by changing a constant or weakening a property, and the
kept properties exclude exactly them:

* `tree`: a lookup below its base reads a `std::map` another thread inserts into
  (`IONode.cpp:402` and 408 lock the base's mutex, insertions the node's own).  A
  lookup gets the answers "not found" for any child and "found" for the one being
  inserted; the build may also crash.  `FoundUnlessTorn` excludes it.
* `robot` without a restart: such a lookup (`Torn`) refuses a request for a name that the shell was told of, against
  `IONode.hpp:78`, where only a name that does not exist throws; if it was the
  reading of a value that is downloaded, the exception leaves `main` (`Shell.cpp:961`) and the
  shell ends.  `ShellSurvives` excludes it (`misled`).
* `robot`: the list of all commands (`ServerRep.cpp:824-853`) may be that of no moment, since the tree grows behind and in front of
  the walk.  `RemoteCalls` promises no more than that it misses none that was there at its beginning, and has
  none that is not there at its end.
* `robot` with a restart: `Shell::sync` deletes its tree before it has the new one
  (`Shell.cpp:110-113`), the current node may become a null pointer that a pool uses
  (`Shell.cpp:1233`), and the exception of a download for the reading of a value leaves
  `main` (`Shell.cpp:961`).  `ShellSurvives` excludes it (`misled`).
* `robot`: a set whose callback throws is answered by an error although the value is
  set (`Answers` of `RemoteCalls`); a binding whose `bindNew` threw makes every pull or push
  throw (`failed`), and stops what is bound behind it (`Unpulled`); a value that
  does not fit the variable is narrowed by a pull and written back by the push.

* `log` with `LogLengthSecs = 9`: the length in microseconds is an unsigned int
  (`RhIO.cpp:183`) and wraps above 4294 s; `FileKeepsRecent` is violated, against
  `RhIO.hpp:40-41`.  (`Wrap` and `Second` stand for 2^32 and 10^6.)
* `log` without the allowance (`Late == 0`): the clamp stops at the first young value
  (`ServerLog.cpp:147`), and one with a late timestamp keeps older ones behind it;
  `FileClamped` is violated with `MaxLag = 1`.  Timestamps are taken before the mutex
  (`ValueNode.hpp:78`), so the order is not guaranteed.
* `persistence` with texts that look like numbers (`Texts <- AnyText`):
  `loadValues` tries an integer first (V:1028) and a string such as "12" is not restored;
  `LoadRestores` is violated (and `DiffIsHonest`, of the string), against `Docs/api.md:83` and 94.
  So it is for a string such as "0x1F", of which the load of the node fails, being an integer and no double (V:1039).
* `persistence`: a float is written with 15 fixed decimals (V:969), so that what is below
  them is lost, and `nan` and `inf` are read as strings, as no conversion to a number
  accepts them in this form; `LoadRestores` promises `Kept` and not the value.
* `persistence` without the exclusion of `RealTime`: the value written and the value
  remembered as saved differ (V:958, 962; `FileIsSnapshot`, `DiffIsHonest`), and `diff` is silent (`Docs/shell.md:115`).
* `value`: a locking and a real-time setter that race leave a timestamp of
  the other update (`Value.hpp:42`), or stream an old value last; `setStr` streams
  the string before it is bounded.
* `manager`: the pool is fetched before streaming is enabled, and a change in
  between is not shown (`missed`; `Docs/shell.md:72`); an edit may be overwritten by a
  streamed value before it is sent (`Docs/shell.md:158`); a key press while the worker
  awaits a reply ends the tuner (`Docs/shell.md:154`); a streamed `int64_t` is narrowed to an `int` and a
  `double` to a `float` (`StreamManager.cpp:70`, 87), so that the screen may show another value than the server has, with nothing
  on its way, and the tuner writes it back.  `EventuallyShown` accepts both forms.
* `watchers`: after a restart, the disable of one shell takes the count of
  another to zero, which starves it until its next check (`Docs/how_does_it_works.md:11`).
* `lifecycle`: the pointers dangle after `stop()`, `started()` stays true
  (`RhIO.hpp:56`), and `writeLogs` has no test for null (`RhIO.cpp:266`).
* `publish`: texts that several threads write to one stream are lost or published twice
  (`raced`), and leaving a cat may end the shell (`terminated`).  A frame empties the list of the frames of all other nodes
  (`ServerPub.hpp:51`).

## 6. Abstractions

* Values are a few integers or texts; names are model values; message layouts,
  YAML and the binary log's bytes are left out.
* Only sequentially consistent interleavings: the atomics are used with the
  default order.
* `ServerPub` and `ServerLog` treat a queue as its exact promise (no late writer);
  `QueueDelivery` is where the race is.
* Getters of strings return a reference after unlocking, `assignRTInt` goes
  through a double: not modelled.
* In `Lifecycle` a thread that throws is held (`raiseSignalAndHold` in a program
  that catches the signal), its object destroyed; `stop()` then waits for ever.  The
  writes of the over flags and the joins are single steps.
* In `Persistence` values are declared only while nothing is saved or loaded;
  there is one level of children; loading neither bounds nor publishes.
* In `Tree` a value is persisted from its creation on, so that a node has something to save exactly when it has a
  value; a value's `getValueType` finds an
  existing value, and a base is a node that is in the tree; a torn lookup that
  crashes the program ends the behaviour.  A save makes the directories of a node at once, and lists those in it as it
  takes the mutex: two saves that race in making one are left out.  The values a load creates are left to
  `Persistence`.  Removal of nodes does not exist in the code.
* In `Streams` the data race on the buffer has the outcomes of a lost or a repeated
  text; the build may also crash, which ends the behaviour.  One stream, no restart (a cat is
  not resumed after one: the shell never sends `checkStreamingStream`), and a text that reaches a
  shell is shown whole.  All shells hear all streams, as UDP is sent to a group.
* In `StreamWatchers` shells ignore error replies, as `StreamManager` does; a
  killed shell disables nothing; a lost reply hangs its shell.
* In `Requests`, `ShellTree` and `Bind` values have no bounds, a set is one step,
  the lookup of the host's name in `sync` is left out, and a
  client's program asks for any name of the tree.  One child at a time is inserted, and only the maps of children
  tear: those of values and commands are read under the mutex of their node.  A torn lookup that crashes the program is not modelled.  What
  is bound is in one node on the first level (`Prefix`; a `Bind` may be given a longer prefix); other code of the program makes nodes and names anywhere.  A hanging client is not
  started again.  `FunctionRuns` changes one variable.  In the restarted program
  the same values clash.
* Remote commands are known to the shell by their last name
  (`Shell.cpp:998`), so that two of one name shadow each other, and `currentCommand` is
  not reset by an exception (`Shell.cpp:955`): not modelled.  Nor are `reset()`, which
  destroys the tree wrappers and bindings point into (`RhIO.cpp:253`), and the precision of
  `WrapperInt::get`, which returns a double.

## 7. Not modelled, and the plan

Modelled in this order: the queue, its promise and its proofs; the users of the
queue; watchers and values; the shell's threads; life cycle; persistence; the tree;
requests, the shell's tree, bindings and their composition.  Next:

1. Save, load and log as requests: a save holds the mutexes from its base down while it
   runs in the server's thread.
2. A command that calls another command of its node (`CommandNode.cpp:36`).
3. A load against setters of one value (`ValueNode.cpp:992`).

Outside the scope: parsing of what is typed, completion, drawing, plotting, joystick and image
windows of the shell (sequential, no state other parts read); byte layouts
(`Protocol`, `DataBuffer`); examples and tests, read as documentation.
