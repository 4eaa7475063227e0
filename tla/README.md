# A verification development for aiotc

aiotc connects cameras ("objects") to a cluster of machines. One machine is the
*master*: operators configure the cluster through its REST interface, it keeps the
configuration in a database, and it shares the objects out among the *slave*
machines, moving them when a slave fails. On every machine a small `main` process
supervises worker processes, which share one shared-memory segment, and the workers
pull video, take snapshots, make previews and publish messages.

This directory holds TLA+ modules translated from that code, TLC configurations that
check them on small instances, and proofs checked by TLAPS that hold for every value
of the constants. `PROJECT.json` lists the runs, the definition-to-source map, the
mutants that show that each property can fail, the hazards, the findings and the
theorems.

## Inventory

Own code is in `src/src`, `src/inc` and `src/work/share`; everything else (ffmpeg,
libevent, mongo and rabbitmq clients, slab, cjson, rtsp, nginx) is vendored.

| component | state it keeps | operations | correct when |
|---|---|---|---|
| master process, `master.cpp`, `misc.cpp` | `slaveQueue` of `slaveParam` (online, offline, systemInit, load), `mobjQueue` of `objParam` (slave, attachSlave, task flags, originaldata), `sysOrgData`, two semaphores | poll slaves, detach, wait, redirect; REST requests; load from the database | objects run somewhere; none is stuck on a dead slave; pointers are to live nodes; database and memory agree |
| slave's REST process, `rest.cpp`, `misc.cpp` | `objQueue`, `systemInit`, `load` | `/system/init`, `/system/slave`, `/obj/add`, `/obj/del`, task start and stop | does what the master takes it to have done |
| database, `db.cpp` | tables systemInit, slave, obj | write (delete, then insert), update, delete, traverse | a restart finds what the operators asked for |
| process supervision, `pids.cpp`, `main.cpp` | `pidQueue` of `pidOps`, one `pobjQueue` each, the template table `g_pid_ops` | fork, restart from the SIGCHLD handler, choose or create a process for an object | a dead process is restarted, every live one is in the queue once |
| message keys, `pids.cpp` | `keyCache` | `getMsgKey`, `delMsgKey` | two processes never have the same key; a free key is found |
| object tasks, `rtsp`, `gat1400`, `preview`, `pids.cpp`, `main.cpp` | two beats per task and object | beat threads, task start, stop on request, restart after a beat time-out | an enabled task runs in one process and a disabled one in none |
| video buffers, `shm.cpp` | buffers with users, slots with locks | allocate, release, copy in, copy out | a reader gets whole frames; a buffer has one owner |
| shared-memory queues, `share.cpp` | linked list, length | put, get, delete, search, traverse, free | a bounded FIFO |
| message output, `work.cpp`, `mq.cpp` | a bounded queue | put, send, reconnect | what is sent was queued, in order |
| process messages, `msg.cpp` | pending acknowledgements | send and wait, receive | an answer reaches its sender or nobody |
| algorithm tasks, `master.cpp`, `rest.cpp`, `misc.cpp` | `algQueue` of every object at the master and at its slave, `task.alg` in its row | `/task/start`, `/task/stop` | the three agree (no process reads them at this commit) |

They interact through shared memory (all processes of a machine), signals (SIGCHLD to
`main`), HTTP (operators to master, master to slaves) and the database (the master).
The hard behaviours are the lock order of the master's threads, what a thread reads
before taking or after releasing a lock, HTTP calls made with a lock held, machines
and processes that stop and come back at any moment, and the SIGCHLD handler.

## Modules

| module | models |
|---|---|
| `SlaveRest` | the part of a slave's REST process that the master drives, as operators from a machine state to the next |
| `LowestLoad` | what `getLowestLoadSlave` is to return |
| `LowestScan` | `_getlowestLoadSlave`, one node per step, shown to return that |
| `Master` | the master process, its slaves, the database, crashes and lost messages |
| `MasterRestart` | crashes of the master process and reboots of its machine, at any step of a request, of loading the rows or of the manager |
| `AlgTask` | starting and stopping algorithms: master, row and slave |
| `Supervisor` | `main` of a machine: creating processes, the SIGCHLD handler, restarts |
| `MsgKeys` | `getMsgKey` slot by slot, interrupted by the SIGCHLD handler |
| `ObjTask` | object manager thread, processes and their beat threads |
| `Preview` | preview threads, video buffers, and the callback of the live stream that fills them |
| `MqOut` | message output to a RabbitMQ broker, implements `MsgStream` |
| `MsgStream` | a bounded stream in order that may lose messages (abstract) |
| `ShmQueue` | the linked list behind every queue, on addresses, implements `Fifo` |
| `Fifo` | a bounded queue (abstract) |
| `MCMaster`, `MCSupervisor`, `MCShmQueue` | model values and table contents for TLC |
| `MasterProofs`, `MasterRestartProofs`, `AlgTaskProofs`, `SupervisorProofs`, `MqOutProofs`, `ShmQueueProofs` | theorems about the module they are named after; `MasterProofs` also about `LowestScan` |
| `TaskProofs` | theorems about `ObjTask` |
| `SharedProofs` | theorems about `MsgKeys` and `Preview` |

Three levels meet in the list: `ShmQueue` shows that the list is a sequence,
which is how every other module has its queues; `Master` has polling,
initialising and choosing slaves in detail, with clock, loads and pointers, and one
step for a database call that does not fail; `MasterRestart` and `AlgTask` let the
master itself die at any step, split the call and let it fail, and keep of a slave
what the master takes it for (`node`, `nodes`) and what it is (`slv`, `slaveUp`). On a slave machine `Supervisor` has the processes, `ObjTask` what
they are given to do, `Preview` and `MqOut` what two kinds of them do with it.

### Master

`slaveQueue` is the sequence of node addresses linked in the queue and `sp` what the
nodes contain, because objects keep *pointers* to nodes: a node may be freed and used
again while an object points to it. `mobjQueue` is the sequence of `objParam` values.
`lpc`, `lTodo`, `lAck` are the place of `slave_load_thread`, the nodes its traversal
has left and the reply in hand; `mpc`, `mIdx`, `mPick` the same for
`master_objmanager_thread`; `job` is the database call the REST thread has still to
make. `slv` holds the machines, `db` the rows.

An action is a stretch of one thread between points at which somebody else matters:

* `slave_load_thread`: `LoadLock` (sem_wait), then for each slave `LoadPoll` (the GET)
  and one of `LoadOffline` + `LoadDetach`, `LoadStillOffline`, `LoadOnline` (+
  `LoadInit`, the POST), `LoadInited`; `LoadUnlock`. `LoadOffline` and `LoadDetach` are
  separate since `detachSlave` waits for `mutex_mobj` in between; `LoadOnline` and
  `LoadInit` since the POST lies between `offline = 0` and `systemInit = 1`.
* `master_objmanager_thread`: `ManagerLock`, then for each object `ManagerSkip`, or
  `slaveIsNormal` and what follows from its verdict (`ManagerKeep`, `ManagerDrop`), or
  `getLowestLoadSlave` and `ManagerAttach`; `ManagerPost` after an attachment;
  `ManagerUnlock`. A verdict and its consequence are separate because the old slave's
  fields are read without `mutex_slave`.
* `master_restapi_thread`: one action per handler for its work in memory and `RestDb`
  for the database call that follows it. The eight start/stop handlers are one action
  with the task and the value as parameters.
* `SlaveCrash`, `RestRestart` (a slave's `main` restarts its rest process, which forgets
  `systemInit` and keeps the objects), `SlaveBoot`, `Tick` are the environment.

Reads through a pointer to a freed node are not undefined in the model but arbitrary:
`slaveIsNormal` may return any verdict, `LoadDetach` may or may not detach, a POST may
go nowhere. Data is abstracted as follows: a task is a flag (the preview type string
counts as on or off), an object's JSON body is the set of its tasks, time since
`offline` is counted in ticks up to the 120 s limit, loads are computed as the slave
does. `originaldata` is kept apart from the flags (`orig`, `tasks`), since the code
changes one and posts the other.

### MsgKeys

`keyCache`, the locals `i`, `j`, `empty` of `getMsgKey`, and `pidQueue` reduced to the key of
every entry. A step of the thread in `createProcess` looks at one slot; `delOpsByPid` is
one step of the signal handler at any point in between. The handler only turns the slot of
its own key into a hole (-1), so its own loop needs no smaller steps. `createProcess` has
one caller at a time: `createTasks` ends before `slave_objmanager_thread` starts. `spare`
records which keys were free at the call.

### Supervisor

`pidQueue` is the set of `pidOps` entries, `proc` and `role` the children as the kernel
has them, `sig` the one pending SIGCHLD (signals of one kind are not queued). Two threads
of `main` create processes: the main thread in `createTasks`, the object manager when
no process has room; a third waits for messages, of which there are none, and may take a
signal like the others. `createProcess` is `fork` and then `put2PidQueue`, two steps, with
`mutex_pid` taken and released around the second. A child looks itself up in the queue
(`getRealOps`) under the same semaphore before it sets `running`. The handler may start in
any thread at any step, one on top of each, waits for one child, looks its entry up,
deletes or restarts it; the thread below does not go on meanwhile. `Deaths` says which
crashes there are: two at a time, before `running` is set, with `mutex_pid` held, or while
a thread of `main` is between two steps. `recent` stands for the 300 s within which a process
is not restarted again.

### ObjTask

Time is what the code compares it with: `late` is a beat older than 20 s, `tbeat` the beat
of the task itself, `zero`, `fresh` or `late` by 30 s. The manager walks the objects with
`mutex_obj` (every request takes it too), asks every process in the order of `pidQueue`
whether it has the object or room, and puts the object into its queue; a process answers
when `mutex_pobj` is free. A beat thread's walk over its queue is one step per object.
`playing` is the stream in a life of a process, `args` the heap pointer `liveArgs` that
the code keeps in shared memory. `Live` chooses between live streams, which restart
after 30 s, and captures and previews, which do not. `main` restarts a process once (twice
within 300 s it does not).

### Preview

`usedd`, `useMax` and `queue` are the fields of a video buffer, `mem` the frames at their
addresses; a frame has the user count the code gives it. `getFreeShm` is a step that
finds a buffer and a later one that marks it; a reader takes a frame and gives it up in two
steps, the callback allocates, checks the buffer and puts in two. `hls.cpp` and
`httpflv.cpp` have the same threads but for the output format and are one model; the
reads of `previewInit` are part of the loop. `Faults` selects what a run has: concurrent
allocation, a restart while the last thread still runs, a stop before `running` is set, a
failing `previewInit` (whose double free of `hlsParams` is left out).

### MqOut

A message is its block of shared memory. `copyToMqQueue` is allocating, waiting for
`mutex_out`, queueing and, if refused, freeing; `output_thread` is opening (`mqOpen` reads the
body of `/system/init` in steps of its own, against `systemInits` freeing and writing it),
getting, publishing, freeing. The broker and its connection are the environment: a
connection whose broker died swallows one publish before it fails. Crashed processes
are started again at once; what they held is lost and counted in `leaked`. The code reads only
the first server of the list. Closing at shutdown is left out.

### MasterRestart

`rows` is the table of objects and `mobjQueue` the queue, each with the slave it names; `job`
is the `addObj` or `delObj` under way (a user's, or `initMasterFromDB`'s for a row), `mgr` the
manager thread, `load` the thread that polls. `node` is what `slaveQueue` says of a slave, `slv` its
machine, `held` the objects in its queue. Locks are taken where the code takes them:

* `initMasterFromDB` first adds the slaves, for which it needs `mutex_slave` (`slaveInitCB`), then
  one object after another (`objInitCB`, `JobLock`, `addObj`), before the threads start (`mstartTask`).
* `slave_load_thread` polls all slaves with `mutex_slave` (`LoadLock` to `LoadUnlock`) and waits for
  `mutex_mobj` in between when it finds one gone (`LoadOffline`, `LoadDetach`).
* `master_objmanager_thread` goes through the queue with `mutex_mobj`, waits for `mutex_slave` when
  an object has no slave (`NewSlave`), updates the row and posts the object.
* a request is `addObj`, then `dbWrite` as a delete and an insert, or `delObj`.

There are five kinds of fault, and each may come at any step: `CrashMaster` keeps everything
in shared memory, the semaphores (held or not) and the queues included, and the new process
adds every row to what is there; `Reboot` keeps only the rows; `SlaveGone` is the death of a
slave's machine, which the next poll notices or, if it is back by then, does not; a call
of the database fails (`traverseFailed`, `dbWriteFailed`, `dbUpdateFailed`); a POST of an object
is lost and nobody notices (`httpPostLost`).

`want` is what a user was told is there. `missed` and `unaware` are histories that properties
need to name what the code gives up: objects without a row, or with one that was not read, when
the machine started, and objects whose slave does not know it has them. `Watched` are the
objects `Starts` is about: objects are alike, so one is enough. The code drops a request without
`id` and replies success, although the API lets the master choose one (`restAPI.h:211`);
requests in the model have an id.

### AlgTask

`algQueue` at the master, `slaveAlgs` at the slave, `rowAlgs` in the database. Elements of one name
are alike, so a list is the number of elements of every name, and `Full` counts them all. `nodes` has
the `attachSlave` of every node of an object, in order, since an object that is added again, or
read again by a restarted master, is in the queue twice and `addAlg` and `delAlg` find the first.
A request is three steps, between which the master may die: `dbExsit` and the list, the POST to
the slave (with `mutex_mobj` from the list on), and the row. A POST is received, or times out
and may be read by the slave later (`late`), after whatever comes next; a call of the
database may fail, and then `dbExsit` finds nothing (`StartAgain`) and an update does nothing
(`dbUpdateFailed`). `CrashMaster` leaves the queue and the semaphore; if it was held the master
hangs (`stuck`), else every object gets one more node. `Reboot` leaves the rows. The slave may
die and come back, or be taken for dead because a poll was not answered (`Glitch`).

The three lists do differ after that, so the properties say by how much. Three histories count
what accounts for it: `unwritten` entries of the queue that the row does not stand for,
`lapsed` rows that the queue does not have any more, and `ahead`, what the slave may have
beyond the master. They are written by the steps that cause the difference and by no other, and
go down again with the stop, the deletion or the death that ends it.

### ShmQueue

A call is one step per node looked at, because `traverseQueue` calls back and the callbacks
delete and free the node they are given while the traversal goes on. `mem` is what is at
every address, `held` what was unlinked and not yet freed. Callers hold the queue's lock, so
two calls do not overlap otherwise.

### Runs

Twelve runs, one for each part of the system, with all its invariants and temporal
properties in one state space.

| run | question | bounds |
|---|---|---|
| `failover` | is an object always attached to a slave that is fit or about to be detached from, does its row name that slave, and does it run again after the slave crashed? | 2 slaves, 1 object, 1 crash, wait of 2 ticks |
| `fresh` | do locks and pointers stay consistent, and do database and memory agree, in a cluster set up from nothing, removal of slaves included? | 1 slave ip, 2 nodes, 2 object ids, room for 1 object, 4 requests, 1 crash, 1 lost message, 2.9 million states |
| `deadlock` | are the objects of a dead slave reassigned? (no, see below) | 2 slaves, 2 objects |
| `lowest` | does the scan find the first of the least loaded usable slaves? | queues of up to 3, loads 0, 50, 89, 90 |
| `restart` | does a running master have every object a user was told is there, and do these come to run, whatever fails at whichever step? | 2 objects, 1 slave, 2 requests to add (also again) or delete, 2 faults out of crash, reboot, slave gone, failed call, lost POST, 0.34 million states |
| `alg` | by how much may queue, row and slave differ, and does nothing else add up? | 2 objects, 2 algorithms, room for 2, 3 requests, 2 faults out of crash, reboot, slave dead, unanswered poll, POST timed out, failed call, 1.2 million states |
| `supervisor` | is no child forked twice, no entry lost under a handler, no `wait()` blocking, and does a process that died run again? | 2 kinds of process, 5 pids, 3 deaths of every kind, three threads, room for 1 or 2 entries |
| `msg_keys` | are keys unique, does the table keep its end, is a free key found, wherever the handler interrupts? | 3 keys, 4 slots, 4 children |
| `obj_task` | is no object served twice, does no stream run without who will stop it, does an enabled task run and a disabled one stop? | 2 objects, 2 processes with room for 1, 3 requests, 1 crash anywhere |
| `preview` | does `useMax` count the threads on a buffer, is a frame in one place, does a preview get frames, and end when it is off? | 2 objects and 2 threads on 1 buffer of 1 frame, 2 addresses, 3 requests, all faults |
| `mq_out` | has every block one owner, do messages arrive in order, how many are lost in a row, do they get through again and again? | 1 producer, 3 blocks, room for 2, 1 crash, 1 broker that goes and comes at will |
| `shm_queue` | are the pointers a bounded FIFO? | 4 addresses, limit 3, 2 users |

Two nodes suffice for a freed address to be handed out again, two slaves for a choice
and a move, two objects for one to be walked past while another is worked on; a wait of
two ticks tells "just offline", "waiting" and "expired" apart. One crash is a whole
cycle of mark, detach, wait, boot, initialise and post; a second starts from a state
that is reached without it. Three places in a list have a head, an inner node and a tail;
the fourth address is there to be handed out again. Room for one object in a process
makes it full, two blocks in a queue of three make one refuse. `room` of `Supervisor` is 1
or 2 from the start: with 1 the second child gets no entry, gives up and exits; the code
has room for `slaveObjMax * 3`, which it would take more than five pids to fill. Where a
bound is on requests or crashes it is large enough for a request, the fault in the middle
of it, and its repetition. `alg` also holds with one object, five requests and four faults.

`fresh` switches the deadlock check off because the code has the deadlock described
below, and the runs with deaths of processes because one that dies with a semaphore
stops the others; elsewhere bounded requests end. `failover` has the check on, with a
single object that makes the deadlock impossible (the manager waits for `mutex_slave`
only for an object without slave, the load thread for `mutex_mobj` only for a slave that
answered before), and so has `mq_out`.

Some properties cannot hold for every fault, since the code does lose things. They say
what holds up to that fault, in the same run that has it:

| property | holds until | after that |
|---|---|---|
| `KeptAlive`, `HandlerNotStuck` | a child dies together with another, before it has set `running`, or while `main` is at work (history variable `calm`) | its signal or entry may be lost, or the handler waits for `mutex_pid` held by the thread below it |
| `Started`, `StoppedForGood` | a process dies with `mutex_pobj`, or for the second time within 300 s (`Lame`) | its objects are found in its queue for ever, or the manager waits for the semaphore |
| `FramesOwned` | two threads use one buffer (`wrong` has "shared") | one of them frees what the other reads |
| `PreviewRuns` | anything goes wrong (`wrong`) | a preview whose thread ended by itself is not started again |
| `PreviewEnds` | no buffer is free, or a stop or restart comes too early (`wrong`) | `running = 0` is overwritten, the parameters belong to the wrong thread |
| `Delivers` | a process dies with `mutex_out` (`Orphaned`) | everybody else waits for it |
| `Starts` | a master dies with `mutex_mobj` or `mutex_slave` (`Orphaned`) | its successor waits for it, in `addSlave` already |
| | load thread and manager wait for each other (`Deadlocked`) | see `deadlock` below |
| | the POST of the object was lost, or its slave booted between two polls (`Mistaken`) | the master takes the object for attached and does not post it again |
| | the machine of the master was rebooted and no slave is accepted (`Unknown`) | slaves that went on running answer `systemInit` 1, and only 0 brings one online (`master.cpp:641`) |
| `Starts`, `Complete` | the object had no row when the machine started, or it could not be read (`missed`) | the user was told of success, and the object is gone |
| `QueueInRow` | a start is cut off before its `$push`, or let in although the row has the algorithm (`unwritten`) | one entry more for each |
| `RowsMatch` | a stop is cut off before its `$pull`; the object was deleted or the machine rebooted (`lapsed`) | the row has what the queue has not |
| `SlaveSubset` | a stop times out, is cut off or comes while the object is detached; the object was deleted or the machine rebooted (`ahead`) | one entry more for each at the slave, until it dies |

`wrong`, `calm`, `missed`, `unaware`, `unwritten`, `lapsed` and `ahead` are histories: properties read
them, and actions only to go on writing them. The exceptions of `Starts` are states, not
histories of a fault: a reboot of the machine ends the first two, and its property asks for the
object to run again after any number of crashes, reboots and losses that lead to none of the five.

### What the code does not do

`deadlock` is the one run that expects a violation: `slave_load_thread` takes
`mutex_slave` then `mutex_mobj`, `master_objmanager_thread` the other way round. Each waits
for the other when a slave goes offline while an object has no slave, and no object is
reassigned any more.

The other configurations in this directory are not runs. Each checks one property that a
comment, the README or the API document suggests and the code does not have, and TLC
shows the execution that refutes it, in a few seconds
(`tlc -config MCMasterGlitch.cfg MCMaster`, and so on with the module in the second column).

| configuration | module | refutes | what happens |
|---|---|---|---|
| `MCMasterFastReboot` | `MCMaster` | `TasksFollow` | a machine that reboots between two polls is initialised again, but its objects are not posted to it again |
| `MCMasterStaleBody` | `MCMaster` | `TasksFollow` | objects are posted with the body of the original request, so tasks started later are lost when the slave comes back |
| `MCMasterInitWindow` | `MCMaster` | `DropOnlyAfterWait` | between `offline = 0` and `systemInit = 1` the manager judges a slave that is back in time as unfit and drops it at once |
| `MCMasterGlitch` | `MCMaster` | `UpSlaveOnline` | after one lost reply an initialised slave is never online again for the master, because only a reply with `systemInit` 0 clears the mark |
| `MCMasterRowRace` | `MCMaster` | `DbKnowsSlave` | the manager attaches a new object before its row is written, and the update of the row's slave is lost |
| `MCMasterSlaveDel` | `MCMaster` | `NoDanglingSlave` | removing a slave leaves objects with a pointer to the freed node |
| `MCRestartTwice` | `MasterRestart` | `RunsOnce` | a restarted master adds every row to a queue that is still there, and the two nodes of an object get a slave each |
| `MCRestartRow` | `MasterRestart` | `Kept` | with objects that are added again, a master that dies between the delete and the insert of `dbWrite` loses the row it was replacing |
| `MCRestartGhost` | `MasterRestart` | `NoGhost` | a deleted object keeps its row and is in the queue again after a reboot |
| `MCRestartStops` | `MasterRestart` | `Stops` | a deleted object runs on at its slave |
| `MCRestartReturn` | `MasterRestart` | `SlavesReturn` | a rebooted master never uses the slaves that went on running |
| `MCAlgOther` | `AlgTask` | `IgnoredIsThere` | an algorithm that one object has is not started for another |
| `MCAlgEarly` | `AlgTask` | `AlgRuns` | a start while the object has no slave never reaches one |
| `MCObjTaskTwice` | `ObjTask` | `AssignedOnce` | a start that takes longer than the beat holds the beat up, and a second process gets the object |
| `MCObjTaskDel` | `ObjTask` | `NoDanglingTask` | an object is freed while a process has it |
| `MCObjTaskArgs` | `ObjTask` | `ArgsOwn` | a restarted process uses a pointer into the heap of the one before |
| `MCPreviewAlloc` | `Preview` | `BufferOne` | two objects get one buffer |
| `MCPreviewWrong` | `Preview` | `OwnFrames` | a preview shows another camera |
| `MCPreviewFlush` | `Preview` | `FrameValid` | the frame one reads is freed when another reader leaves |
| `MCPreviewArgs` | `Preview` | `ArgsValid` | a restarted preview loses its parameters to the thread before it |
| `MCMqOutRead` | `MqOut` | `ParamsValid` | parameters are read while they are freed and written |

Three more differences need only other lines in a configuration: with `Live = FALSE` (captures and previews)
`Started` fails in `ObjTask`, since these are not started again in a restarted process; with
`MasterObjMax = 1` `Starts` and `Complete` fail in `MasterRestart`, since an object that does not fit is
dropped and the reply says success; with `Server = {s1, s2}` under `FairSpec`, `ParamsFollow` fails in
`MqOut`, since a server set later is never used.

### Fairness

No `Spec` has any. In `Master` liveness is checked under `TimedSpec`: each thread goes on
when it can (weak fairness), gets a semaphore that is free again and again (strong
fairness on the two `sem_wait` at the top of the loops), the clock ticks, and a pending
database call ends. `Sleep` says that a manager thread that has just released a
semaphore does not take it again before a thread that already waits for it: both
threads sleep 5 s with the semaphore free, and `sem_post` wakes a waiter. No fairness
makes a machine boot, a request arrive or a message get lost; `MaxLost` bounds the
losses, so that they end.

The other modules use the same two kinds in `FairSpec`: weak fairness for the steps of a
thread, strong fairness for what needs a semaphore, since the holders sleep between two
rounds. In `ObjTask` the strong fairness of a process is stated for each kind
of process and each object, not for each pid: a process that has died does not go on,
whoever is forked for it does. `Supervisor` does the same for children, and for the threads of
`main` and their handlers asks only that one of those that can go on does, which is less. Beyond that `MasterRestart` assumes that a slave machine
comes back, because a request can be served by nobody else, weak fairness for the steps of its threads and
strong for the four waits on `mutex_mobj` and `mutex_slave` (`JobLock`, `ManagerLock`, `LoadDetach`,
`NewSlave`); `ObjTask` that time passes,
so that beats become late, and that a camera that is asked again and again answers
(`Connected`); `Preview` that the camera sends frames, of which some find room
(`copyToShm`); `MqOut` that processes go on producing messages. None assumes that crashes,
requests or brokers that fail stop: bounds or the form of the property (`<>[]...`) do.

## Proofs

Every invariant of the passing runs is proved for every value of the constants that
satisfies the module's assumption, and so are the two refinements `Refines` and `InOrder`.
A theorem with a hypothesis says so; a run shows each time what happens without it, or
the code gives the bound.

### Master (`MasterProofs`)

* `TypeSafe`, `Spec => []TypeOK`. Not inductive alone: that `mobjQueue[mIdx]` is an
  object and `mPick` a node depends on where the threads are.
* `ControlSafe`, `Spec => []ControlInv`, the strengthening: a thread past its sem_wait
  holds the semaphore (value 0), so nobody shortens the queue below the index the
  manager stands at, and the node or slave it works on exists.
* `AttachedSafe`, `Spec => []AttachedHealthy` if no request removes a slave. The
  inductive invariant is `AttachedInv == ControlInv /\ NodesInv /\ GrantInv`. The attachment
  is protected by neither lock alone: the mark is made under `mutex_slave`, the
  attachment under `mutex_mobj`. What saves it is in `GrantInv`: a slave *about to be*
  attached is healthy or the load thread is already in `detachSlave` for it, where it
  must wait for the `mutex_mobj` that the manager holds, so the detaching comes after the
  attachment and sees it. `NodesInv` adds that an initialised slave is not offline, which
  makes an initialised slave healthy, and that all pointers are to linked nodes. The
  hypothesis is needed: see `MCMasterSlaveDel`.
* `DbTasksSafe`, `Spec => []DbTasksMatch` if no object is added twice. Between the change of
  `taskParams` and the write, the two differ; `TasksInv` says that the write the REST
  thread has pending is just the one that makes them agree again (`Promised`), and that ids
  are unique in the queue, so that the node found is the one the row is about.
* `DbSlaveSafe`, `Spec => []DbKnowsSlave` if objects are not added and slaves not removed while
  the master runs (those it starts with may be in the database, at any slave). `NamedInv`
  is stronger than the property: the row names the slave of every object that has a
  slave *pointer*, attached or not, since `detachSlave` keeps the pointer and a slave that
  returns within 120 s gets its objects back with no write. It includes `AttachedInv`, for
  the pointers must be to linked nodes. `MCMasterRowRace` shows why adding is
  excluded, `MCMasterSlaveDel` what removing a slave does to pointers.
* `ScanSafe`, `ScanSpec => []ScanCorrect` for `LowestScan`, from `ScanInv`, although the second
  branch of the callback does not compare with the limit: a slave in hand is below it.

There is one lemma per action and part of the invariant, and small lemmas on the typing
of node and object updates that the solvers need in isolation.

### Master across restarts (`MasterRestartProofs`)

* `CompleteSafe`, `Spec /\ []Room => []Complete`: as long as the queue has room, for `addObj` frees
  an object that finds none; adding twice and every kind of fault at every step are
  included. `CompleteInv` follows an object through a start of the master: what was there before
  is in the queue that survived, or it has a row that is in hand or among those still to be
  read, or it is in `missed`; what is being written is in the queue first.

### Algorithms (`AlgTaskProofs`)

For every number of objects, algorithms, requests and faults of all kinds, without further
hypothesis:

* `QueueInRowSafe` and `RowsMatchSafe`, from `CountInv`. Neither inequality is inductive, because
  entries of one name are alike and a stop takes one of them and the whole entry of the row.
  `Counted` is the exact balance: what is in the queue, with what a pending stop has taken, is
  what the row stands for (`Live`), what is `unwritten`, and what a pending start has
  put. `Missing` adds that a stop that found nothing was for a row that stands for nothing.
* `SlaveSubsetSafe`, from `SlaveInv`, which adds the slave: what it has *or may still read from a
  request that timed out* is no more than the master's and `ahead`, corrected by the request
  that holds `mutex_mobj` (`OnSlave`, `Within`). Counting only what the slave has is not inductive,
  since a late start raises it when the master may have dropped the entry.

### Processes (`SupervisorProofs`)

For every number of processes and deaths, with a table `Static` that names no role twice:

* `ProcessSafe` and `EntrySafe`, `Spec => []OneProcess` and `Spec => []HandlerEntry`, from the
  inductive invariant `Core`. Pids are handed out in order, so of the processes of a role
  all but the last were waited for (`Order`): a role is forked anew only by a handler that
  waited for the last one. An entry names the last process of its role unless a handler
  is just about to store the new pid (`Entries`), two handlers never have the same dead
  process (`Handlers`), and a thread that creates a role is the only one that does so (`Jobs`,
  `Roles`): `createTasks` goes through its list once and the object manager starts after it.
* `LockSafe`, `Spec => []LockInv`: who is between wait and post of `mutex_pid`, and who died there.
* `WaitSafe`, `Spec => []WaitNeverBlocks`, by counting: a signal and the handlers before
  their `wait` are never more than the processes that died and were not waited for.
  Signals that merge make the signals fewer, never the dead.
* `HandlerSafe`, `Spec => []HandlerNotStuck`, with `Calm`: after deaths that come one by one, when
  `createTasks` is done and no thread is at work, only the main thread takes the signal and
  it is idle, so the handler finds `mutex_pid` with nobody it interrupted.

### Objects on a slave (`TaskProofs`)

Both theorems assume that starting or stopping a stream is faster than a beat takes to
be late (`~Slow`); `MCObjTaskTwice` shows what happens otherwise.

* `AssignedSafe`, `Spec => []AssignedOnce`, although the object manager goes by the beat alone.
  `Assigned` distinguishes the processes that will never serve their queue again (`Gone`: died
  holding `mutex_pobj`, or died a second time) and says that only their objects become late, so the object
  in the manager's hand is with nobody else (`Owners`, `Timely`). `Search` follows the
  object through the search for room: a dead process that has it was full when the
  manager looked and stays so, or never gets anything.
* `StreamSafe`, `Spec => []OneStream`: where a stream runs the process is up, has the object
  in its queue and allocated the parameters itself (`Streams`), so by `Owners` it is the only one.

### Message keys (`SharedProofs`)

For every `MsgKeyMax` and set of children, from the inductive invariant `KeysInv`:

* `UniqueKeysSafe`, `KeysSpec => []UniqueKeys`: the used slots are a prefix of the table, a key
  is in at most one of them, and the key of every process is in one; when the scan of key
  `i` meets the end, `i` is in no slot before it and none after it is used.
* `TableEndsSafe`, `KeysSpec => []TableEnds`: the table grows only if the scan met no hole, and
  holes made behind the scan are the danger. `ReadDistinct` says that the keys *read* are
  pairwise distinct and different from `i`, although some are freed meanwhile; by the
  pigeonhole principle there are at least two fewer of them than slots, so the slot
  after the new one is still the end.
* `FreeKeyFoundSafe`, `KeysSpec => []FreeKeyFound`, which needs the table's end: without one
  the loop takes every key for used.

### Video buffers (`SharedProofs`)

For finitely many previewing threads and any number of buffers, frames and objects:

* `UserCountSafe`, `Spec => []UserCount`: `joinShm` and `leaveShm` are the only steps that
  change who uses a buffer and how many it counts. `PreviewShape` adds that a thread has a
  buffer from `findUnuseShm` to `freeShm`, in `videoShm` first and in its own hands later.
* `FramesOwnedSafe`, `Spec => []FramesOwned`, which speaks of the time until two objects share
  a buffer. Until then (`Unshared`) a buffer has one user, a queue holds no frame twice, and
  an allocated frame is in exactly one place, a queue, a reader's hand or the writer's, a free
  one in none (`Owned`). `MCPreviewFlush` shows what happens after.

### Shared-memory queues (`ShmQueueProofs`)

For every set of addresses and payloads and every limit:

* `QueueSafe`, `ChainSafe`, `OwnershipSafe`, `TraversalSafe`. The inductive invariant is
  `QueueInv`: the history variable `list` is what the pointers spell from `head` to `tail`
  (`Chain`), every allocated address is linked or held by one caller (`Ownership`), a loop
  stands at a node of the list with its predecessor (`Walking`), the node `traverseQueue`
  will visit next is still linked although a callback may have freed the current one
  (`TraversalExact`, `InCallback`), and freeing has the rest of the list in hand (`Freeing`).
* `RefinesFifo`, `Spec => Refines`: mapped by `list` and its payloads every step is a step of `Fifo` or
  none; deletion is one at the step that unlinks.

### Message output (`MqOutProofs`)

For every number of processes, blocks and crashes:

* `BlocksSafe`, `Spec => []BlocksOwned`, with `StepsInv`, which says what is in hand at which step.
* `StreamRefined`, `Spec => InOrder`: mapped by `Waiting` (the queue, and before it what the
  thread is about to publish) every step is one of `MsgStream`: something is put at the end,
  the first is delivered or the first is lost.
* `LossSafe`, `Spec => []LossBounded`: `MayLose` is what the state of the connection can still cost,
  three messages with a dead connection nobody has noticed, two after the broker's reset,
  one before the next connection is opened; `lost + MayLose <= 3` is inductive (`LossInv`).

### Only model-checked

Liveness (`Failover`, `Starts`, `KeptAlive`, `Started`, `StoppedForGood`,
`PreviewRuns`, `PreviewEnds`, `Delivers`), which is out of the proof system's reach, and the
violation. The inductive invariants are proved and are not in the runs, which check what
follows from them.

## Not modelled

* The database fails only in `MasterRestart` and `AlgTask`. There a failed call has no effect; one
  that takes effect and reports a failure, a delete that fails before an insert that succeeds (two
  rows of one object) and a failed read of the tables of slaves and parameters are left out.
* `AlgTask` has one slave, which fails as a machine, and no limit on the number of objects;
  what a full queue of objects loses is in `MasterRestart`. A crash of only the rest process of a
  slave is in `Master`.
* `Master` has no crash of the master process; `MasterRestart` has no clock, loads or
  removal of slaves.
* Process messages, `msg.cpp`: the threads that receive run, but nothing calls `msgSend` at
  this commit, so no behaviour depends on them.
* The slave's `/obj/del` and the task requests an operator sends to a slave
  directly are in `ObjTask` as requests, not in `SlaveRest`.
* Login, logout, record play and algorithm support reply and keep no state. Recording,
  the algorithm, ftp and stream processes and the platform protocols are stubs.
* The slab allocator, libevent, the database and broker clients, ffmpeg and the protocol
  libraries are vendored; modules have what the code relies on, marked external.
* Configuration and JSON reading has no state of its own.
* `/record`'s beats are those of captures and are not a model of their own.

Most of the tree is headers of vendored libraries. The project's own code is about
9000 lines, and much of that is stubs, formatting, JSON fields and calls of libraries,
which a model abstracts; that is why only a small share of all lines is mapped.

What would come next: action properties that are now only implied by the invariants, such
as that a row is written only by the handler that changed the object, and proofs that
weaken hypotheses, `DbKnowsSlave` with objects added while none of their requests overlaps
the manager's first.
