---------------------------- MODULE MessageQueue ----------------------------
(***************************************************************************)
(* MessageQueue and ShmRingBuffer (shm_broadcast.py): one writer hands     *)
(* messages to the readers of its machine through a ring of chunks in      *)
(* shared memory, without locks.                                           *)
(*                                                                         *)
(* Every load is a step of its own.  A store goes into the store buffer of *)
(* its process and reaches memory later, in the order of the stores        *)
(* (TotalStoreOrder) or, for different locations, in any order;            *)
(* memory_fence() waits until the buffer is empty.  A message that does    *)
(* not fit a chunk goes over a socket and the chunk only says so.  A       *)
(* reader that has been idle for long sleeps until the writer pings it.    *)
(* Message contents are the business of the module that extends this one.  *)
(***************************************************************************)
EXTENDS Integers, SequencesExt

CONSTANTS
    NumReaders,       \* n_reader
    MaxChunks,        \* max_chunks
    Messages,         \* what is sent
    Large,            \* the messages that do not fit a chunk
    Nothing,          \* no message
    Overflow,         \* a chunk that says that the message comes over the socket
    TotalStoreOrder   \* whether stores reach memory in program order

ASSUME QueueConstants ==
    /\ NumReaders \in Nat \ {0} /\ MaxChunks \in Nat \ {0}
    /\ Large \subseteq Messages
    /\ {Nothing, Overflow} \cap Messages = {} /\ Nothing # Overflow
    /\ TotalStoreOrder \in BOOLEAN

VARIABLES
    memory,    \* the shared memory, location by location
    stores,    \* stores[p]: the store buffer of process p (0 is the writer)
    index,     \* index[p]: current_idx
    at,        \* at[p]: where process p is in enqueue or dequeue
    message,   \* message[p]: the object being written, or read last
    flag,      \* flag[r]: the read flag that reader r has loaded
    socket,    \* socket[r]: local_socket, what reader r has not received yet
    pinged,    \* pinged[r]: a notification waits for reader r
    sent, received   \* history: what was published, what each reader got

ring == <<memory, stores, index>>
queue_vars == <<ring, at, message, flag, socket, pinged, sent, received>>

Readers == 1..NumReaders
Writer == 0
Processes == {Writer} \cup Readers
Chunks == 0..MaxChunks - 1

Written(c) == <<"written", c, 0>>
Data(c) == <<"data", c, 0>>
ReadFlag(c, r) == <<"read", c, r>>
Locations == {Written(c) : c \in Chunks} \cup {Data(c) : c \in Chunks}
             \cup {ReadFlag(c, r) : c \in Chunks, r \in Readers}

QueueInit ==
    /\ memory = [l \in Locations |-> IF l[1] = "data" THEN Nothing ELSE 0]
    /\ stores = [p \in Processes |-> << >>]
    /\ index = [p \in Processes |-> 0]
    /\ at = [p \in Processes |-> IF p = Writer THEN "ready" ELSE "flag"]
    /\ message = [p \in Processes |-> Nothing]
    /\ flag = [r \in Readers |-> 0]
    /\ socket = [r \in Readers |-> << >>]
    /\ pinged = [r \in Readers |-> FALSE]
    /\ sent = << >>
    /\ received = [r \in Readers |-> << >>]

-----------------------------------------------------------------------------
(* Memory *)

\* memory_fence().
Fence(p) == stores[p] = << >>

Store(p, writes) == stores' = [stores EXCEPT ![p] = @ \o writes]

\* One buffered store of process p reaches memory.
Drain(p) ==
    /\ \E i \in DOMAIN stores[p] :
        /\ TotalStoreOrder => i = 1
        /\ \A j \in 1..i - 1 : stores[p][j][1] # stores[p][i][1]
        /\ memory' = [memory EXCEPT ![stores[p][i][1]] = stores[p][i][2]]
        /\ stores' = [stores EXCEPT ![p] = RemoveAt(@, i)]
    /\ UNCHANGED <<index, at, message, flag, socket, pinged, sent, received>>

Goto(p, place) == at' = [at EXCEPT ![p] = place]
NextIndex(p) == index' = [index EXCEPT ![p] = (@ + 1) % MaxChunks]

-----------------------------------------------------------------------------
(* The writer *)

\* enqueue(m) is called.
Enqueue(m) ==
    /\ at[Writer] = "ready"
    /\ message' = [message EXCEPT ![Writer] = m]
    /\ Goto(Writer, "acquire")
    /\ UNCHANGED <<ring, flag, socket, pinged, sent, received>>

\* Mutant: one reader is enough.
BugCanWrite(c) == memory[Written(c)] = 0 \/ \E r \in Readers : memory[ReadFlag(c, r)] = 1

\* The chunk is not written, or every reader has read it.
CanWrite(c) == memory[Written(c)] = 0 \/ \A r \in Readers : memory[ReadFlag(c, r)] = 1

Contents(m) == IF m \in Large THEN Overflow ELSE m

\* Mutant: the read flags are reset while the chunk still counts as written.
BugChunkWrites(c) ==
    [r \in Readers |-> <<ReadFlag(c, r), 0>>]
    \o <<<<Written(c), 0>>, <<Data(c), Contents(message[Writer])>>>>

\* The written flag is taken away, the caller writes the message, and the read
\* flags are reset.
ChunkWrites(c) ==
    <<<<Written(c), 0>>, <<Data(c), Contents(message[Writer])>>>>
    \o [r \in Readers |-> <<ReadFlag(c, r), 0>>]

\* acquire_write up to its second fence.
AcquireWrite ==
    /\ at[Writer] = "acquire" /\ Fence(Writer)
    /\ CanWrite(index[Writer])
    /\ Store(Writer, ChunkWrites(index[Writer]))
    /\ Goto(Writer, "publish")
    /\ UNCHANGED <<memory, index, message, flag, socket, pinged, sent, received>>

\* The written flag is set.
Publish ==
    /\ at[Writer] = "publish" /\ Fence(Writer)
    /\ Store(Writer, <<<<Written(index[Writer]), 1>>>>)
    /\ sent' = Append(sent, message[Writer])
    /\ Goto(Writer, "release")
    /\ UNCHANGED <<memory, index, message, flag, socket, pinged, received>>

\* acquire_write returns; a large message is sent over the socket.
ReleaseWrite ==
    /\ at[Writer] = "release" /\ Fence(Writer)
    /\ NextIndex(Writer)
    /\ socket' = IF message[Writer] \in Large
                 THEN [r \in Readers |-> Append(socket[r], message[Writer])] ELSE socket
    /\ Goto(Writer, "notify")
    /\ UNCHANGED <<memory, stores, message, flag, pinged, sent, received>>

\* Mutant: the readers are not pinged.
BugNotified == pinged

\* The sockets keep one notification each.
Notified == [r \in Readers |-> TRUE]

\* The notification; enqueue returns.
Notify ==
    /\ at[Writer] = "notify"
    /\ pinged' = Notified
    /\ message' = [message EXCEPT ![Writer] = Nothing]
    /\ Goto(Writer, "ready")
    /\ UNCHANGED <<ring, flag, socket, sent, received>>

-----------------------------------------------------------------------------
(* A reader *)

\* The first load of acquire_read: the reader's own flag.
LoadReadFlag(r) ==
    /\ at[r] = "flag" /\ Fence(r)
    /\ flag' = [flag EXCEPT ![r] = memory[ReadFlag(index[r], r)]]
    /\ Goto(r, "written")
    /\ UNCHANGED <<ring, message, socket, pinged, sent, received>>

\* The second load: there is a new message, or the reader has to wait.
LoadWritten(r) ==
    /\ at[r] = "written"
    /\ LET ready == memory[Written(index[r])] = 1 /\ flag[r] = 0
       IN  \/ ready /\ Goto(r, "read")
           \/ ~ready /\ \E place \in {"flag", "asleep"} : Goto(r, place)
    /\ flag' = [flag EXCEPT ![r] = 0]
    /\ UNCHANGED <<ring, message, socket, pinged, sent, received>>

\* A sleeping reader gets a notification.
WakeUp(r) ==
    /\ at[r] = "asleep" /\ pinged[r]
    /\ pinged' = [pinged EXCEPT ![r] = FALSE]
    /\ Goto(r, "flag")
    /\ UNCHANGED <<ring, message, flag, socket, sent, received>>

\* The caller reads the chunk, and the read flag is set.
ReadChunk(r) ==
    /\ at[r] = "read"
    /\ message' = [message EXCEPT ![r] = memory[Data(index[r])]]
    /\ Store(r, <<<<ReadFlag(index[r], r), 1>>>>)
    /\ Goto(r, "release")
    /\ UNCHANGED <<memory, index, flag, socket, pinged, sent, received>>

\* acquire_read returns.  A message that is not in the chunk has to be received.
ReleaseRead(r) ==
    /\ at[r] = "release" /\ Fence(r)
    /\ NextIndex(r)
    /\ IF message[r] = Overflow
       THEN Goto(r, "receive") /\ UNCHANGED received
       ELSE /\ Goto(r, "returned")
            /\ received' = [received EXCEPT ![r] = Append(@, message[r])]
    /\ UNCHANGED <<memory, stores, message, flag, socket, pinged, sent>>

\* MessageQueue.recv of the local socket.
Receive(r) ==
    /\ at[r] = "receive" /\ socket[r] # << >>
    /\ message' = [message EXCEPT ![r] = Head(socket[r])]
    /\ socket' = [socket EXCEPT ![r] = Tail(@)]
    /\ received' = [received EXCEPT ![r] = Append(@, message'[r])]
    /\ Goto(r, "returned")
    /\ UNCHANGED <<ring, flag, pinged, sent>>

\* The next call of dequeue.
Dequeue(r) ==
    /\ at[r] = "returned"
    /\ Goto(r, "flag")
    /\ message' = [message EXCEPT ![r] = Nothing]
    /\ UNCHANGED <<ring, flag, socket, pinged, sent, received>>

\* The steps of a reader inside dequeue.
Reading(r) ==
    \/ LoadReadFlag(r) \/ LoadWritten(r) \/ WakeUp(r) \/ ReadChunk(r) \/ ReleaseRead(r)
    \/ Receive(r)

-----------------------------------------------------------------------------
(* Properties *)

\* What the documentation of ShmRingBuffer says of the flags: a chunk that a
\* reader is about to read is published, has not been read by that reader, and
\* stays as it is until the reader has marked it.
ChunkIsStable ==
    \A r \in Readers :
        at[r] = "read" =>
            /\ memory[Written(index[r])] = 1
            /\ memory[ReadFlag(index[r], r)] = 0
            /\ \A i \in DOMAIN stores[Writer] : stores[Writer][i][1][2] # index[r]

Channel == INSTANCE BroadcastChannel

\* Every reader gets every message, once and in order, however the loads and
\* stores of the processes interleave and whichever way the messages travel.
ImplementsBroadcastChannel == Channel!ChannelSpec
=============================================================================
