------------------------------- MODULE Preview -------------------------------
(***************************************************************************)
(* Previews and the shared video buffers (hls.cpp, httpflv.cpp,            *)
(* ffmpeg.cpp, shm.cpp): TaskBeat of the preview process starts and stops  *)
(* a thread for each object, which takes a buffer, reads the frames that   *)
(* the callback of the object's live stream puts there, in another         *)
(* process, and gives the buffer back.                                     *)
(***************************************************************************)
EXTENDS Integers, Sequences, FiniteSets, SequencesExt

CONSTANTS Object,      \* object ids
          Shm,         \* video buffers, searched in ascending order
          Thread,      \* preview threads that may run at a time
          Node,        \* addresses for frames
          VideoQueLen, \* room in the queue of a buffer
          MaxRequest,  \* bound on requests
          Faults       \* what goes wrong, see MayStart, MayStop, FreeShm and
                       \* previewInitFailed

ASSUME PreviewAssumption ==
    /\ Shm \subseteq Nat /\ VideoQueLen \in Nat \ {0} /\ MaxRequest \in Nat
    /\ Faults \subseteq {"alloc", "restart", "stop", "init"}
    /\ IsFiniteSet(Thread) /\ {0} \cap (Object \cup Node) = {}   \* NULL is none of them

VARIABLES on,        \* taskParams.preview is set
          beat,      \* previewTaskBeat is above 0
          args,      \* previewArgs is allocated
          running, streamOk,  \* its fields
          videoShm,  \* cameraParams.videoShm
          usedd, useMax, queue,  \* fields of each buffer
          mem,       \* what is at each address: a frame or NoFrame
          pc, obj, shm, own,  \* a preview thread: its place, object and buffer,
                     \* and if pPreviewParams is the object's present previewArgs
          hand, most,  \* the frame it reads and useMax when it took it
          wnode, wshm,  \* the callback of an object's stream: the frame it is
                     \* about to put and the buffer
          wargs,     \* and the previewArgs it has read: none, the object's
                     \* present ones, or some that were freed since
          requests,
          wrong      \* history: what has gone wrong

task == <<on, beat, args, running, streamOk, videoShm>>
buffers == <<usedd, useMax, queue, mem>>
threads == <<pc, obj, shm, own, hand, most>>
writers == <<wnode, wshm, wargs>>
vars == <<task, buffers, threads, writers, requests, wrong>>

NULL == 0
NoFrame == [obj |-> NULL, val |-> 0, used |-> 0]
Of(o) == {t \in Thread : pc[t] # "none" /\ obj[t] = o}
Uses(t, b) == pc[t] \in {"run", "init", "loop", "leave"} /\ shm[t] = b
Early == {"begin", "mark", "user", "run"}   \* before running = 1

Init ==
    /\ on = [o \in Object |-> FALSE] /\ beat = [o \in Object |-> FALSE]
    /\ args = [o \in Object |-> FALSE] /\ running = [o \in Object |-> FALSE]
    /\ streamOk = [o \in Object |-> FALSE] /\ videoShm = [o \in Object |-> NULL]
    /\ usedd = [b \in Shm |-> FALSE] /\ useMax = [b \in Shm |-> 0]
    /\ queue = [b \in Shm |-> <<>>] /\ mem = [n \in Node |-> NoFrame]
    /\ pc = [t \in Thread |-> "none"] /\ obj = [t \in Thread |-> NULL]
    /\ shm = [t \in Thread |-> NULL] /\ own = [t \in Thread |-> FALSE]
    /\ hand = [t \in Thread |-> NULL] /\ most = [t \in Thread |-> 0]
    /\ wnode = [o \in Object |-> NULL] /\ wshm = [o \in Object |-> NULL]
    /\ wargs = [o \in Object |-> "none"]
    /\ requests = 0 /\ wrong = {}

-----------------------------------------------------------------------------
(* Requests and TaskBeat *)

request_preview(o) ==
    /\ requests < MaxRequest /\ requests' = requests + 1
    /\ on' = [on EXCEPT ![o] = ~@]
    /\ UNCHANGED <<beat, args, running, streamOk, videoShm, buffers, threads, writers, wrong>>

Noted(what, when) == wrong' = IF when THEN wrong \cup {what} ELSE wrong

\* An object is started again while its last thread still runs.
MayStart(o) == Of(o) = {} \/ "restart" \in Faults

\* initPreviewOps clears the previewArgs it finds; then the thread is created.
preview_start(o) ==
    /\ on[o] /\ ~beat[o] /\ MayStart(o)
    /\ beat' = [beat EXCEPT ![o] = TRUE] /\ args' = [args EXCEPT ![o] = TRUE]
    /\ running' = [running EXCEPT ![o] = FALSE]
    /\ streamOk' = [streamOk EXCEPT ![o] = FALSE]
    /\ \E t \in Thread : /\ pc[t] = "none"
                         /\ pc' = [pc EXCEPT ![t] = "begin"]
                         /\ obj' = [obj EXCEPT ![t] = o]
    /\ Noted("restart", Of(o) # {})
    /\ UNCHANGED <<on, videoShm, buffers, shm, own, hand, most, writers, requests>>

\* TaskBeat, which sleeps a second, overtakes a thread that has just started.
MayStop(o) == (\A t \in Of(o) : pc[t] \notin Early) \/ "stop" \in Faults

\* Mutant: stop finds no function to call.
StoppedNot(o) == running

Stopped(o) == IF args[o] THEN [running EXCEPT ![o] = FALSE] ELSE running

preview_stop(o) ==
    /\ ~on[o] /\ beat[o] /\ MayStop(o)
    /\ beat' = [beat EXCEPT ![o] = FALSE]
    /\ running' = Stopped(o)
    /\ Noted("stop", \E t \in Of(o) : pc[t] \in Early)
    /\ UNCHANGED <<on, args, streamOk, videoShm, buffers, threads, writers, requests>>

-----------------------------------------------------------------------------
(* The preview thread, hls_thread and httpflv_thread *)

Go(t, place) == pc' = [pc EXCEPT ![t] = place]
Gone(t) == /\ pc' = [pc EXCEPT ![t] = "none"] /\ obj' = [obj EXCEPT ![t] = NULL]
           /\ shm' = [shm EXCEPT ![t] = NULL] /\ own' = [own EXCEPT ![t] = FALSE]

\* Mutant: the frames are unlinked and not freed.
FlushedKept(b) == mem

\* freeShmQueue frees what is in the queue, not what a reader has taken off it.
Flushed(b) == [n \in Node |-> IF Contains(queue[b], n) THEN NoFrame ELSE mem[n]]

\* The first free buffer; of two threads both may find it.
FreeShm == {b \in Shm : ~usedd[b] /\ \A c \in Shm : c < b => usedd[c]}
           \ (IF "alloc" \in Faults THEN {} ELSE {shm[t] : t \in {u \in Thread : pc[u] = "mark"}})

allocVideoShm(t) == LET o == obj[t] IN
    /\ pc[t] = "begin"
    /\ own' = [own EXCEPT ![t] = args[o]]
    /\ \/ videoShm[o] # NULL /\ Go(t, "user") /\ UNCHANGED <<obj, shm>>
       \/ /\ videoShm[o] = NULL /\ \E b \in FreeShm : shm' = [shm EXCEPT ![t] = b]
          /\ Go(t, "mark") /\ UNCHANGED obj
    /\ UNCHANGED <<task, buffers, hand, most, writers, requests, wrong>>

\* No buffer is free: the thread returns, previewArgs and previewTaskBeat stay.
allocFailed(t) ==
    /\ pc[t] = "begin" /\ videoShm[obj[t]] = NULL /\ \A b \in Shm : usedd[b]
    /\ Gone(t)
    /\ Noted("full", TRUE)
    /\ UNCHANGED <<task, buffers, hand, most, writers, requests>>

getFreeShm(t) ==
    /\ pc[t] = "mark"
    /\ usedd' = [usedd EXCEPT ![shm[t]] = TRUE]
    /\ videoShm' = [videoShm EXCEPT ![obj[t]] = shm[t]]
    /\ Go(t, "user")
    /\ UNCHANGED <<on, beat, args, running, streamOk, useMax, queue, mem, obj, shm, own,
                   hand, most, writers, requests, wrong>>

\* Mutant: the value is not looked at.
CountedUp(b, n) == useMax[b] + 1

Counted(b, n) == IF useMax[b] + n < 0 THEN 0 ELSE useMax[b] + n

setShmUser(b, n) ==
    /\ useMax' = [useMax EXCEPT ![b] = Counted(b, n)]
    /\ mem' = Flushed(b) /\ queue' = [queue EXCEPT ![b] = <<>>]

JoinShm(t) ==
    /\ pc[t] = "user"
    /\ shm' = [shm EXCEPT ![t] = videoShm[obj[t]]]
    /\ setShmUser(videoShm[obj[t]], 1)
    /\ Go(t, "run")
    /\ Noted("shared", \E u \in Thread : Uses(u, videoShm[obj[t]]))
    /\ UNCHANGED <<task, usedd, obj, own, hand, most, writers, requests>>

\* pPreviewParams->field = value, which goes elsewhere if that block was freed.
Written(field, t, value) == IF own[t] THEN [field EXCEPT ![obj[t]] = value] ELSE field

Run(t) ==
    /\ pc[t] = "run"
    /\ running' = Written(running, t, TRUE)
    /\ Go(t, "init")
    /\ UNCHANGED <<on, beat, args, streamOk, videoShm, buffers, obj, shm, own, hand,
                   most, writers, requests, wrong>>

\* What is read through pPreviewParams.
Runs(t) == IF own[t] THEN {running[obj[t]]} ELSE BOOLEAN

\* Waiting for the stream; what comes after it reads frames as the loop does.
previewInit(t) ==
    /\ pc[t] = "init"
    /\ \/ TRUE \in Runs(t) /\ (own[t] => streamOk[obj[t]])
          /\ Go(t, "loop") /\ UNCHANGED running
       \/ FALSE \in Runs(t)
          /\ Go(t, "leave") /\ running' = Written(running, t, FALSE)
    /\ UNCHANGED <<on, beat, args, streamOk, videoShm, buffers, obj, shm, own, hand,
                   most, writers, requests, wrong>>

\* The stream cannot be opened or the output not written.
previewInitFailed(t) ==
    /\ "init" \in Faults
    /\ pc[t] = "loop" /\ hand[t] = NULL
    /\ Go(t, "leave") /\ running' = Written(running, t, FALSE)
    /\ Noted("init", TRUE)
    /\ UNCHANGED <<on, beat, args, streamOk, videoShm, buffers, obj, shm, own, hand,
                   most, writers, requests>>

Taken(n) == mem[n].val + 1

\* delFromQueueByUser: frameId is 0 for ever, so it is the first frame, which
\* stays in the queue until it was taken useMax times.
copyFromShmWithUser(t) == LET b == shm[t] IN
    /\ pc[t] = "loop" /\ hand[t] = NULL /\ queue[b] # <<>>
    /\ LET n == Head(queue[b])
       IN  /\ hand' = [hand EXCEPT ![t] = n]
           /\ mem' = [mem EXCEPT ![n].val = Taken(n)]
           /\ queue' = IF Taken(n) >= useMax[b] THEN [queue EXCEPT ![b] = Tail(@)] ELSE queue
    /\ most' = [most EXCEPT ![t] = useMax[b]]
    /\ UNCHANGED <<task, usedd, useMax, pc, obj, shm, own, writers, requests, wrong>>

\* The last of those that took the frame frees it.
LastUse(t) == mem[hand[t]].used + 1 >= most[t]

\* It has copied the frame; of a freed one it counts in what is not there.
read_video_packet(t) ==
    /\ pc[t] = "loop" /\ hand[t] # NULL
    /\ mem' = IF mem[hand[t]] = NoFrame THEN mem
              ELSE IF LastUse(t) THEN [mem EXCEPT ![hand[t]] = NoFrame]
              ELSE [mem EXCEPT ![hand[t]].used = @ + 1]
    /\ hand' = [hand EXCEPT ![t] = NULL] /\ most' = [most EXCEPT ![t] = 0]
    /\ UNCHANGED <<task, usedd, useMax, queue, pc, obj, shm, own, writers, requests, wrong>>

previewLoopEnd(t) ==
    /\ pc[t] = "loop" /\ hand[t] = NULL /\ FALSE \in Runs(t)
    /\ Go(t, "leave")
    /\ UNCHANGED <<task, buffers, obj, shm, own, hand, most, writers, requests, wrong>>

LeaveShm(t) ==
    /\ pc[t] = "leave"
    /\ setShmUser(shm[t], -1)
    /\ Go(t, "release")
    /\ UNCHANGED <<task, usedd, obj, shm, own, hand, most, writers, requests, wrong>>

Unused(t) ==
    /\ pc[t] = "release"
    /\ Go(t, IF useMax[shm[t]] = 0 THEN "clear" ELSE "free")
    /\ UNCHANGED <<task, buffers, obj, shm, own, hand, most, writers, requests, wrong>>

\* The buffer is free again; videoShm of the object still points to it.
releaseShm(t) == LET b == shm[t] IN
    /\ pc[t] = "clear"
    /\ mem' = Flushed(b) /\ queue' = [queue EXCEPT ![b] = <<>>]
    /\ usedd' = [usedd EXCEPT ![b] = FALSE]
    /\ Go(t, "free")
    /\ UNCHANGED <<task, useMax, obj, shm, own, hand, most, writers, requests, wrong>>

\* shmFree(previewArgs): other threads of the object are left without.
freeArgs(t) == LET o == obj[t] IN
    /\ pc[t] = "free"
    /\ args' = [args EXCEPT ![o] = FALSE]
    /\ pc' = [pc EXCEPT ![t] = "none"] /\ obj' = [obj EXCEPT ![t] = NULL]
    /\ shm' = [shm EXCEPT ![t] = NULL]
    /\ own' = [u \in Thread |-> own[u] /\ obj[u] # o]
    /\ wargs' = IF wargs[o] = "present" THEN [wargs EXCEPT ![o] = "freed"] ELSE wargs
    /\ UNCHANGED <<on, beat, running, streamOk, videoShm, buffers, hand, most, wnode, wshm,
                   requests, wrong>>

-----------------------------------------------------------------------------
(* rtsp_callback, in the process of the live stream *)

\* Mutant: a preview that waits for the stream is not told of it.
StreamOkNot(o) == streamOk

StreamOk(o) == [streamOk EXCEPT ![o] = TRUE]

\* pPreviewParams->streamOk = 1 through what was read at the start of the callback.
\* If that was freed, the object's new previewArgs may be in its place.
Streams(o, ptr) == \/ ptr = "none" /\ UNCHANGED streamOk
                   \/ ptr = "present" /\ streamOk' = StreamOk(o)
                   \/ ptr = "freed" /\ UNCHANGED streamOk
                   \/ ptr = "freed" /\ args[o] /\ streamOk' = StreamOk(o)

Read(o) == IF args[o] THEN "present" ELSE "none"

Wanted(o) == videoShm[o] # NULL /\ useMax[videoShm[o]] > 0

\* A frame for a buffer somebody uses: copyToShm up to the memcpy.
copyToShm(o) == LET b == videoShm[o] IN
    /\ wnode[o] = NULL /\ Wanted(o)
    /\ \E n \in Node : /\ mem[n] = NoFrame
                       /\ mem' = [mem EXCEPT ![n] = [obj |-> o, val |-> 0, used |-> 0]]
                       /\ wnode' = [wnode EXCEPT ![o] = n]
    /\ wshm' = [wshm EXCEPT ![o] = b] /\ wargs' = [wargs EXCEPT ![o] = Read(o)]
    /\ UNCHANGED <<task, usedd, useMax, queue, threads, requests, wrong>>

putToShmQueue(o) == LET b == wshm[o] IN
    /\ wnode[o] # NULL
    /\ IF Len(queue[b]) < VideoQueLen
       THEN queue' = [queue EXCEPT ![b] = Append(@, wnode[o])] /\ UNCHANGED mem
       ELSE mem' = [mem EXCEPT ![wnode[o]] = NoFrame] /\ UNCHANGED queue
    /\ wnode' = [wnode EXCEPT ![o] = NULL] /\ wshm' = [wshm EXCEPT ![o] = NULL]
    /\ wargs' = [wargs EXCEPT ![o] = "none"]
    /\ Streams(o, wargs[o])
    /\ UNCHANGED <<on, beat, args, running, videoShm, usedd, useMax, threads, requests, wrong>>

\* A frame nobody wants, or for which there is no memory.
rtsp_callback(o) ==
    /\ wnode[o] = NULL
    /\ ~Wanted(o) \/ \A n \in Node : mem[n] # NoFrame
    /\ Streams(o, Read(o))
    /\ UNCHANGED <<on, beat, args, running, videoShm, buffers, threads, writers, requests, wrong>>

-----------------------------------------------------------------------------
ThreadStep(t) == \/ allocVideoShm(t) \/ allocFailed(t) \/ getFreeShm(t) \/ JoinShm(t)
                 \/ Run(t) \/ previewInit(t) \/ copyFromShmWithUser(t)
                 \/ read_video_packet(t) \/ LeaveShm(t) \/ Unused(t)
                 \/ releaseShm(t) \/ freeArgs(t)

BeatStep(o) == preview_start(o) \/ preview_stop(o)
CallbackStep(o) == copyToShm(o) \/ putToShmQueue(o) \/ rtsp_callback(o)

Next == \/ \E o \in Object : request_preview(o) \/ BeatStep(o) \/ CallbackStep(o)
        \/ \E t \in Thread : ThreadStep(t) \/ previewLoopEnd(t) \/ previewInitFailed(t)

Spec == Init /\ [][Next]_vars

\* The threads go on and the camera sends frames; a reader with frames in its
\* buffer looks at running again and again.
FairSpec ==
    /\ Spec
    /\ \A o \in Object : /\ WF_vars(BeatStep(o)) /\ WF_vars(CallbackStep(o))
                         /\ SF_vars(copyToShm(o))
    /\ \A t \in Thread : WF_vars(ThreadStep(t)) /\ SF_vars(previewLoopEnd(t))

-----------------------------------------------------------------------------
(* Properties *)
\* useMax counts the threads that use a buffer, whichever of them come and go
\* at the same time and whoever owns the buffer.
UserCount == \A b \in Shm : useMax[b] = Cardinality({t \in Thread : Uses(t, b)})

Places(n) == {<<"queue", b>> : b \in {c \in Shm : Contains(queue[c], n)}}
             \cup {<<"hand", t>> : t \in {u \in Thread : hand[u] = n}}
             \cup {<<"writer", o>> : o \in {p \in Object : wnode[p] = n}}

\* A frame is in one place, a queue, a reader or the callback, and its memory is
\* free if it is in none: nothing is leaked, freed twice or read after it was
\* freed, at every start and stop while the camera goes on sending, until two
\* threads use a buffer, one of which frees what the other reads.
FramesOwned == "shared" \notin wrong =>
    /\ \A n \in Node : Cardinality(Places(n)) = IF mem[n] = NoFrame THEN 0 ELSE 1
    /\ \A b \in Shm : IsInjective(queue[b])

\* The buffer a preview gets was free ("get free shm success", misc.cpp:469): no
\* other object uses it.
BufferOne == \A t, u \in Thread, b \in Shm :
    Uses(t, b) /\ Uses(u, b) => obj[t] = obj[u]

\* The users of a buffer are what synchronises a dynamic stop (pids.cpp:43): a
\* frame somebody reads is not freed.
FrameValid == \A t \in Thread : hand[t] # NULL => mem[hand[t]] # NoFrame

\* A preview shows its own object: "start the preview of the video"
\* (restAPI.h:367).
OwnFrames == \A t \in Thread :
    hand[t] # NULL /\ mem[hand[t]] # NoFrame => mem[hand[t]].obj = obj[t]

\* A preview thread does not use previewArgs that were freed.
ArgsValid == \A t \in Thread :
    pc[t] \in {"run", "init", "loop", "leave", "release", "clear", "free"} => own[t]

\* A preview that stays on gets frames again and again, however previews were
\* started and stopped before, if nothing went wrong: nobody starts a thread
\* again that has ended by itself.
PreviewRuns == \A o \in Object :
    <>[](on[o] /\ wrong = {}) => []<>(\E t \in Of(o) : hand[t] # NULL)

\* A preview that stays off ends and frees its previewArgs, unless it found no
\* buffer, was stopped before its thread had set running, or was started again
\* before that had ended.
PreviewEnds == \A o \in Object :
    <>[](~on[o] /\ wrong \subseteq {"init", "shared"}) =>
        <>[](Of(o) = {} /\ ~args[o])
=============================================================================
