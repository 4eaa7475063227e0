------------------------------- MODULE MqOut -------------------------------
(***************************************************************************)
(* Message output of a slave machine (work.cpp, mq.cpp).  Processes that   *)
(* capture copy their messages to shared memory and queue them under       *)
(* mutex_out; one thread of the work process takes them and publishes them *)
(* to a RabbitMQ broker, connecting to it when it has to.  A message is    *)
(* known by the block of shared memory that holds it.  Processes crash and *)
(* are restarted, the broker goes and comes, the parameters are set while  *)
(* the thread runs.                                                        *)
(***************************************************************************)
EXTENDS Naturals, Sequences, FiniteSets

CONSTANTS Message,   \* blocks of shared memory
          Producer,  \* processes that capture
          Server,    \* brokers
          NoMsg, NoServer, Nobody,
          NoData, Freed,
          OutMax,    \* limit given to putToShmQueue
          CrashMax,  \* bound on crashes
          InitMax    \* bound on calls of /system/init

\* The limit is that of work.cpp:171; the null values are no messages.
ASSUME MqAssumption ==
    /\ NoMsg \notin Message /\ NoServer \notin Server
    /\ NoData \notin Server \cup {NoServer, Freed}
    /\ Freed \notin Server \cup {NoServer}
    /\ OutMax \in Nat /\ CrashMax \in Nat /\ InitMax \in Nat

VARIABLES pOutQueue, mutex_out,   \* outParams, in shared memory
          host,        \* mqOutParams: the server, NoServer while port is 0
          sysOrgData,  \* systemParams: the first server in msgOutParams
          blocks,      \* blocks of shared memory in use
          leaked,      \* history: blocks whose owner has crashed
          at, arg,     \* step and block of every producer
          pc, p,       \* step of output_thread and the message it has taken
          mq_conn,     \* its connection
          up,          \* brokers that run
          received,    \* the last message a broker got, with a bit that flips
          lost,        \* history: messages lost in a row though the broker runs
          crashes, inits

outer == <<at, arg, blocks>>
params == <<host, sysOrgData, inits>>
thread == <<pc, p, mq_conn>>
seen == <<received, lost>>
vars == <<pOutQueue, mutex_out, params, outer, leaked, thread, up, seen, crashes>>

Out == "output_thread"

Init ==
    /\ pOutQueue = <<>> /\ mutex_out = Nobody
    /\ host = NoServer /\ sysOrgData = NoData /\ inits = 0
    /\ at = [c \in Producer |-> "idle"] /\ arg = [c \in Producer |-> NoMsg]
    /\ blocks = {} /\ leaked = {}
    /\ pc = "open" /\ p = NoMsg /\ mq_conn = "none"
    /\ up = Server
    /\ received = [msg |-> NoMsg, odd |-> FALSE] /\ lost = 0
    /\ crashes = 0

-----------------------------------------------------------------------------
(* copyToMqQueue, in a process that captures *)

copyToMqQueue(c) ==
    /\ at[c] = "idle"
    /\ \E m \in Message \ blocks :
          blocks' = blocks \cup {m} /\ arg' = [arg EXCEPT ![c] = m]
    /\ at' = [at EXCEPT ![c] = "wait"]
    /\ UNCHANGED <<pOutQueue, mutex_out, params, leaked, thread, up, seen, crashes>>

WaitOut(c) ==
    /\ at[c] = "wait" /\ mutex_out = Nobody
    /\ mutex_out' = c
    /\ at' = [at EXCEPT ![c] = "put"]
    /\ UNCHANGED <<pOutQueue, params, arg, blocks, leaked, thread, up, seen, crashes>>

putToShmQueue(c) ==
    /\ at[c] = "put" /\ Len(pOutQueue) < OutMax
    /\ pOutQueue' = Append(pOutQueue, arg[c])
    /\ mutex_out' = Nobody
    /\ at' = [at EXCEPT ![c] = "idle"]
    /\ arg' = [arg EXCEPT ![c] = NoMsg]
    /\ UNCHANGED <<params, blocks, leaked, thread, up, seen, crashes>>

\* The queue is full, or there is no memory for the node.
putRefused(c) ==
    /\ at[c] = "put"
    /\ mutex_out' = Nobody
    /\ at' = [at EXCEPT ![c] = "refused"]
    /\ UNCHANGED <<pOutQueue, params, arg, blocks, leaked, thread, up, seen, crashes>>

\* Mutant: a refused message is not freed.
RefusedKept(c) == blocks

Refused(c) == blocks \ {arg[c]}

FreeRefused(c) ==
    /\ at[c] = "refused"
    /\ blocks' = Refused(c)
    /\ at' = [at EXCEPT ![c] = "idle"]
    /\ arg' = [arg EXCEPT ![c] = NoMsg]
    /\ UNCHANGED <<pOutQueue, mutex_out, params, leaked, thread, up, seen, crashes>>

-----------------------------------------------------------------------------
(* mqOpen, called when output_thread starts and for a message that finds no *)
(* connection.                                                              *)

\* Back in output_thread: at its start it goes to the loop, with a message in
\* hand it frees that.
Opened == pc' = IF p = NoMsg THEN "loop" ELSE "free"

\* sysOrgData is NULL for ten seconds, or there is a port already.
mqOpen ==
    /\ pc = "open"
    /\ \/ host = NoServer /\ sysOrgData = NoData /\ Opened
       \/ host = NoServer /\ sysOrgData # NoData /\ pc' = "read"
       \/ host # NoServer /\ pc' = "connect"
    /\ UNCHANGED <<pOutQueue, mutex_out, params, outer, leaked, p, mq_conn, up, seen, crashes>>

\* What initMqParams may find: anything while the body is freed or not written.
Found == IF sysOrgData = Freed THEN Server \cup {NoServer} ELSE {sysOrgData}

initMqParams ==
    /\ pc = "read"
    /\ host' \in Found
    /\ IF host' = NoServer THEN Opened ELSE pc' = "connect"
    /\ UNCHANGED <<pOutQueue, mutex_out, sysOrgData, inits, outer, leaked, p, mq_conn, up, seen, crashes>>

mqOpenConnect ==
    /\ pc = "connect"
    /\ mq_conn' = IF host \in up THEN "open" ELSE "none"
    /\ Opened
    /\ UNCHANGED <<pOutQueue, mutex_out, params, outer, leaked, p, up, seen, crashes>>

-----------------------------------------------------------------------------
(* The loop of output_thread *)

WaitQueue ==
    /\ pc = "loop" /\ mutex_out = Nobody
    /\ mutex_out' = Out /\ pc' = "get"
    /\ UNCHANGED <<pOutQueue, params, outer, leaked, p, mq_conn, up, seen, crashes>>

\* Mutant: the node is read but not taken out.
RestKept == pOutQueue

Rest == Tail(pOutQueue)

getFromQueue ==
    /\ pc = "get"
    /\ IF pOutQueue = <<>>
       THEN pc' = "loop" /\ UNCHANGED <<pOutQueue, p>>
       ELSE /\ p' = Head(pOutQueue) /\ pOutQueue' = Rest
            /\ pc' = "send"
    /\ mutex_out' = Nobody
    /\ UNCHANGED <<params, outer, leaked, mq_conn, up, seen, crashes>>

\* A broker runs where the thread looks for one.
Reachable ==
    IF host = NoServer THEN sysOrgData \in up ELSE host \in up

LostCap == 4   \* bound on the counter

Lost == /\ lost' = IF ~Reachable THEN 0
                   ELSE IF lost < LostCap THEN lost + 1 ELSE lost
        /\ UNCHANGED received

\* No connection: the message is given up for opening one.
Reopen ==
    /\ pc = "send" /\ mq_conn = "none"
    /\ pc' = "open" /\ Lost
    /\ UNCHANGED <<pOutQueue, mutex_out, params, outer, leaked, p, mq_conn, up, crashes>>

\* Mutant: the connection is not closed after an error.
AfterPublishKept ==
    IF mq_conn = "open" THEN {"open"} ELSE {"reset"}

\* amqp_basic_publish: what is written to a socket whose peer is gone may be
\* lost without an error once; after that the socket refuses.  On an error the
\* connection is closed.
AfterPublish ==
    CASE mq_conn = "open"   -> {"open"}
      [] mq_conn = "broken" -> {"reset", "none"}
      [] OTHER              -> {"none"}

sendMsg2Mq ==
    /\ pc = "send" /\ mq_conn # "none"
    /\ IF mq_conn = "open"
       THEN received' = [msg |-> p, odd |-> ~received.odd] /\ lost' = 0
       ELSE Lost
    /\ mq_conn' \in AfterPublish
    /\ pc' = "free"
    /\ UNCHANGED <<pOutQueue, mutex_out, params, outer, leaked, p, up, crashes>>

\* shmFree of the message and of its node.
FreeSent ==
    /\ pc = "free"
    /\ blocks' = blocks \ {p}
    /\ pc' = "loop" /\ p' = NoMsg
    /\ UNCHANGED <<pOutQueue, mutex_out, params, at, arg, leaked, mq_conn, up, seen, crashes>>

-----------------------------------------------------------------------------
(* /system/init, which frees the body and writes a new one, and crashes *)

systemInits ==
    /\ sysOrgData # Freed /\ inits < InitMax
    /\ sysOrgData' = Freed /\ inits' = inits + 1 /\ lost' = 0
    /\ UNCHANGED <<pOutQueue, mutex_out, host, outer, leaked, thread, up, received, crashes>>

\* The new body may have no msgOutParams.
SystemInitsEnd ==
    /\ sysOrgData = Freed
    /\ sysOrgData' \in Server \cup {NoServer}
    /\ UNCHANGED <<pOutQueue, mutex_out, host, inits, outer, leaked, thread, up, seen, crashes>>

\* A process that captures dies and is restarted: its block stays allocated,
\* and if it has mutex_out nobody gets that again.
CrashProducer(c) ==
    /\ crashes < CrashMax /\ crashes' = crashes + 1
    /\ at' = [at EXCEPT ![c] = "idle"]
    /\ arg' = [arg EXCEPT ![c] = NoMsg]
    /\ leaked' = leaked \cup ({arg[c]} \ {NoMsg})
    /\ UNCHANGED <<pOutQueue, mutex_out, params, blocks, thread, up, seen>>

\* The work process dies and is restarted: the queue stays.
CrashWork ==
    /\ crashes < CrashMax /\ crashes' = crashes + 1
    /\ pc' = "open" /\ p' = NoMsg /\ mq_conn' = "none" /\ lost' = 0
    /\ leaked' = leaked \cup ({p} \ {NoMsg})
    /\ UNCHANGED <<pOutQueue, mutex_out, params, outer, up, received>>

BrokerDown(s) ==
    /\ s \in up /\ up' = up \ {s}
    /\ mq_conn' = IF mq_conn = "open" /\ host = s THEN "broken" ELSE mq_conn
    /\ lost' = 0
    /\ UNCHANGED <<pOutQueue, mutex_out, params, outer, leaked, pc, p, received, crashes>>

BrokerUp(s) ==
    /\ s \notin up /\ up' = up \cup {s} /\ lost' = 0
    /\ UNCHANGED <<pOutQueue, mutex_out, params, outer, leaked, thread, received, crashes>>

-----------------------------------------------------------------------------
Put(c) == putToShmQueue(c) \/ putRefused(c) \/ FreeRefused(c)
Thread == \/ mqOpen \/ initMqParams \/ mqOpenConnect
          \/ getFromQueue \/ Reopen \/ sendMsg2Mq \/ FreeSent

Next == \/ \E c \in Producer : \/ copyToMqQueue(c) \/ WaitOut(c) \/ Put(c)
                              \/ CrashProducer(c)
        \/ Thread \/ WaitQueue
        \/ systemInits \/ SystemInitsEnd
        \/ CrashWork
        \/ \E s \in Server : BrokerDown(s) \/ BrokerUp(s)

Spec == Init /\ [][Next]_vars

\* Processes run, sem_wait is not passed over for ever, memory for a node is
\* not refused for ever; a camera goes on capturing.
Fairness ==
    /\ \A c \in Producer : /\ WF_vars(copyToMqQueue(c) \/ Put(c))
                          /\ SF_vars(WaitOut(c)) /\ SF_vars(putToShmQueue(c))
    /\ WF_vars(Thread) /\ SF_vars(WaitQueue)
    /\ WF_vars(SystemInitsEnd)

FairSpec == Spec /\ Fairness

-----------------------------------------------------------------------------
(* Properties *)

TypeOK ==
    /\ pOutQueue \in Seq(Message)
    /\ mutex_out \in Producer \cup {Out, Nobody}
    /\ host \in Server \cup {NoServer}
    /\ sysOrgData \in Server \cup {NoServer, NoData, Freed}
    /\ blocks \subseteq Message /\ leaked \subseteq Message
    /\ at \in [Producer -> {"idle", "wait", "put", "refused"}]
    /\ arg \in [Producer -> Message \cup {NoMsg}]
    /\ pc \in {"open", "read", "connect", "loop", "get", "send", "free"}
    /\ p \in Message \cup {NoMsg}
    /\ mq_conn \in {"none", "open", "broken", "reset"}
    /\ up \subseteq Server
    /\ received \in [msg : Message \cup {NoMsg}, odd : BOOLEAN]
    /\ lost \in Nat /\ crashes \in Nat /\ inits \in Nat

\* Where the steps stand and what they hold.
StepsInv ==
    /\ \A c \in Producer : at[c] = "idle" <=> arg[c] = NoMsg
    /\ pc \in {"loop", "get"} => p = NoMsg
    /\ pc \in {"send", "free"} => p # NoMsg
    /\ pc = "read" => sysOrgData # NoData

InQueue == {pOutQueue[i] : i \in DOMAIN pOutQueue}
InHand == {arg[c] : c \in Producer} \ {NoMsg}
Taken == {p} \ {NoMsg}

\* Every block in use has exactly one owner: the queue once, one producer, the
\* thread that publishes, or a process that crashed; so no message is freed
\* twice, queued twice or leaked but by a crash (work.cpp:155, work.cpp:264).
BlocksOwned ==
    /\ blocks = InQueue \cup InHand \cup Taken \cup leaked
    /\ \A i, j \in DOMAIN pOutQueue : pOutQueue[i] = pOutQueue[j] => i = j
    /\ \A c, d \in Producer : arg[c] = arg[d] /\ arg[c] # NoMsg => c = d
    /\ InQueue \cap (InHand \cup Taken \cup leaked) = {}
    /\ InHand \cap (Taken \cup leaked) = {}
    /\ Taken \cap leaked = {}

\* The messages the thread has still to publish, oldest first.
Waiting == IF pc = "send" THEN <<p>> \o pOutQueue ELSE pOutQueue

Stream == INSTANCE MsgStream WITH waiting <- Waiting, MaxWaiting <- OutMax + 1

\* Messages reach the broker in the order they were queued and at most once,
\* whatever is lost by crashes, broken connections and reconnecting
\* (work.cpp:247).
InOrder == Stream!Spec

\* While the broker runs and the parameters are there the thread loses at most
\* three messages in a row: one that the dead connection swallows, one that
\* finds it closed and one that is given up for connecting (mq.cpp:141,
\* work.cpp:258).
LossBounded == lost <= 3

\* A process has died with mutex_out, which nobody gets any more.
Orphaned == \/ \E c \in Producer : mutex_out = c /\ at[c] # "put"
            \/ mutex_out = Out /\ pc # "get"

\* If the broker stays up messages get through again and again, whatever
\* happened before (work.cpp:258), unless a process died with mutex_out.
Delivers == <>[](Reachable /\ ~Orphaned) => []<><<received' # received>>_vars

\* mqOpen never reads a body that systemInits has freed or not yet written
\* (work.cpp:198 against misc.cpp:104).
ParamsValid == pc = "read" => sysOrgData # Freed

\* A server set by /system/init is the one messages are sent to (work.cpp:186).
ParamsFollow ==
    \A s \in Server : <>[](sysOrgData = s) => <>[](host \in {s, NoServer})
=============================================================================
