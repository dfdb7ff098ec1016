----------------------------- MODULE Transport -----------------------------
(***************************************************************************)
(* The server's connections (server.c): slots taken and freed, chunks of   *)
(* bytes cut into lines, messages queued and flushed.  What a line asks    *)
(* for and what the game announces is left open: a handler may send to     *)
(* anybody who has joined.                                                 *)
(*                                                                         *)
(* The server is one thread; a chunk is worked through byte by byte, with  *)
(* a handler called at every newline.  A send in the handler may free any  *)
(* slot, also the one whose chunk is being read.  task says where the      *)
(* thread is.                                                              *)
(***************************************************************************)
EXTENDS Integers, Sequences

CONSTANTS
    Slot,         \* indices of the client table
    NoSlot,       \* no slot
    MaxConn,      \* bound: connections that arrive in all
    Scripts,      \* what a peer may send: sequences of kinds of bytes
    MaxLine,      \* PROTOCOL_MAX_LINE_LEN
    OutputCap,    \* sizeof output_buffer
    MessageLen,   \* length of a message to a client
    ChunkSize,    \* SERVER_READ_CHUNK_SIZE
    MaxMessages   \* bound: messages queued for one connection

Kind == {"char", "newline", "invalid"}

ASSUME SizesAssumption ==
    /\ MaxConn \in Nat
    /\ MaxLine \in Nat
    /\ OutputCap \in Nat \ {0}
    /\ MessageLen \in Nat
    /\ ChunkSize \in Nat
    /\ MaxMessages \in Nat

ASSUME SlotAssumption == Slot \subseteq Nat

ASSUME ScriptsAssumption == Scripts \subseteq Seq(Kind)

\* A byte is known by its connection, its place in the peer's stream and its
\* kind.
Byte == [from : Nat, at : Nat, kind : Kind]

VARIABLES
    client,   \* the client table (server_client_t)
    peer,     \* slot -> the other end of its connection, and its history
    task,     \* where the server is
    arrivals  \* connections so far

vars == <<client, peer, task, arrivals>>

FreeClient == [active |-> FALSE, joined |-> FALSE, input |-> <<>>, output |-> <<>>]

\* wire: sent and not yet received.  received: what the peer's socket was
\* given.  As history: script, all the peer sends; inherited, what the input
\* buffer held when the connection came; handed, the lines handed to handlers
\* for it; queued, the number of bytes queued for it.
NoPeer ==
    [wire |-> <<>>, gone |-> FALSE, received |-> <<>>,
     script |-> <<>>, inherited |-> <<>>, handed |-> <<>>, queued |-> 0]

Idle == [mode |-> "select", slot |-> NoSlot, rest |-> <<>>, live |-> FALSE]

Stream(c, kinds) ==
    [i \in 1 .. Len(kinds) |-> [from |-> c, at |-> i, kind |-> kinds[i]]]

Init ==
    /\ client = [s \in Slot |-> FreeClient]
    /\ peer = [s \in Slot |-> NoPeer]
    /\ task = Idle
    /\ arrivals = 0

----------------------------------------------------------------------------
(* Connections.                                                            *)

\* server_remove_client resets the slot and closes the socket.  What it
\* announces is left to the Announce steps that follow.
Free(s) ==
    /\ client' = [client EXCEPT ![s] = FreeClient]
    /\ peer' = [peer EXCEPT ![s] = NoPeer]

\* The first free slot (server_find_free_slot).  Its input buffer is taken
\* over as it is.
Accept(s, kinds) ==
    /\ task = Idle /\ arrivals < MaxConn
    /\ ~client[s].active /\ \A t \in Slot : t < s => client[t].active
    /\ arrivals' = arrivals + 1
    /\ client' = [client EXCEPT ![s].active = TRUE]
    /\ peer' = [peer EXCEPT ![s] =
                  [NoPeer EXCEPT !.wire = Stream(arrivals', kinds),
                                 !.script = Stream(arrivals', kinds),
                                 !.inherited = client[s].input]]
    /\ UNCHANGED task

\* recv reports an end of file or an error.
HangUp(s) ==
    /\ task = Idle
    /\ client[s].active /\ peer[s].gone
    /\ Free(s)
    /\ UNCHANGED <<task, arrivals>>

\* The environment: a peer closes its end or is lost.
PeerGone(s) ==
    /\ client[s].active /\ ~peer[s].gone
    /\ peer' = [peer EXCEPT ![s].gone = TRUE]
    /\ UNCHANGED <<client, task, arrivals>>

----------------------------------------------------------------------------
(* Input.                                                                  *)

Recv(s, n) ==
    LET wire == peer[s].wire IN
    /\ task = Idle
    /\ client[s].active /\ n <= Len(wire)
    /\ task' = [mode |-> "bytes", slot |-> s,
                rest |-> SubSeq(wire, 1, n), live |-> TRUE]
    /\ peer' = [peer EXCEPT ![s].wire = SubSeq(wire, n + 1, Len(wire))]
    /\ UNCHANGED <<client, arrivals>>

me == task.slot

byte == Head(task.rest)

\* The next byte of the chunk cannot be taken.
Unacceptable ==
    byte.kind = "invalid" \/ Len(client[me].input) >= MaxLine

\* Mistake: an empty line is no line.
EndsFullLine == byte.kind = "newline" /\ client[me].input # <<>>

EndsLine == byte.kind = "newline"

DropByte ==
    /\ task.mode = "bytes" /\ task.rest # <<>>
    /\ Unacceptable
    /\ Free(me)
    /\ task' = Idle
    /\ UNCHANGED arrivals

StoreByte ==
    /\ task.mode = "bytes" /\ task.rest # <<>>
    /\ ~Unacceptable /\ ~EndsLine
    /\ client' = [client EXCEPT ![me].input = Append(@, byte)]
    /\ task' = [task EXCEPT !.rest = Tail(@)]
    /\ UNCHANGED <<peer, arrivals>>

\* Mistake: the buffer is not emptied when its line is handed on.
TakeLineKeeping(s) == UNCHANGED client

TakeLine(s) == client' = [client EXCEPT ![s].input = <<>>]

\* A newline: the line is complete, and the timers run before its handler.
\* The code does not ask whether the slot still has a client.
EndLine ==
    /\ task.mode = "bytes" /\ task.rest # <<>>
    /\ ~Unacceptable /\ EndsLine
    /\ peer' = IF client[me].active
               THEN [peer EXCEPT ![me].handed =
                       @ \o Append(client[me].input, byte)]
               ELSE peer
    /\ TakeLine(me)
    /\ task' = [task EXCEPT !.mode = "timers", !.rest = Tail(@)]
    /\ UNCHANGED arrivals

EndChunk ==
    /\ task.mode = "bytes" /\ task.rest = <<>>
    /\ task' = Idle
    /\ UNCHANGED <<client, peer, arrivals>>

----------------------------------------------------------------------------
(* Output.                                                                 *)

\* Mistake: a message may fill the buffer to its last byte.
FitsExactly(s) == MessageLen + Len(client[s].output) <= OutputCap

Fits(s) == MessageLen + Len(client[s].output) < OutputCap

\* Mistake: nobody looks whether there is a socket.
CanQueueAnywhere(s) == Fits(s)

CanQueue(s) == client[s].active /\ Fits(s)

\* Mistake: the last byte the socket took is sent once more.
UnsentAgain(buf, n) == SubSeq(buf, IF n = 0 THEN 1 ELSE n, Len(buf))

Unsent(buf, n) == SubSeq(buf, n + 1, Len(buf))

\* A message is appended to the output buffer, and the buffer flushed as far
\* as the socket takes it.  player says whether s has its player id by then.
Send(s, player) ==
    LET p == peer[s]
        buf == client[s].output \o [i \in 1 .. MessageLen |-> p.queued + i]
    IN
    /\ CanQueue(s)
    /\ p.queued < MaxMessages * MessageLen
    /\ \E n \in 0 .. Len(buf) :
         /\ client' = [client EXCEPT ![s].output = Unsent(buf, n),
                                     ![s].joined = player]
         /\ peer' = [peer EXCEPT ![s].received = @ \o SubSeq(buf, 1, n),
                                 ![s].queued = @ + MessageLen]

\* There is no socket, the buffer is full, or the socket reports an error.
SendFails(s) ==
    /\ ~CanQueue(s) \/ peer[s].gone
    /\ Free(s)

\* Mistake: a single byte does not count.
BackloggedAlmost(s) == Len(client[s].output) > 1

Backlogged(s) == client[s].output # <<>>

\* select reports a socket with something queued as writable.
Flush(s) ==
    LET buf == client[s].output IN
    \E n \in 1 .. Len(buf) :
        /\ client' = [client EXCEPT ![s].output = Unsent(buf, n)]
        /\ peer' = [peer EXCEPT ![s].received = @ \o SubSeq(buf, 1, n)]

Writable(s) ==
    /\ task = Idle
    /\ client[s].active /\ Backlogged(s)
    /\ Flush(s) \/ (peer[s].gone /\ Free(s))
    /\ UNCHANGED <<task, arrivals>>

----------------------------------------------------------------------------
(* Handlers.                                                               *)

\* The timers have run.  A handler that finds its slot without a client can
\* only fail.
BeginHandler ==
    /\ task.mode = "timers"
    /\ task' = [task EXCEPT !.mode = "handler", !.live = client[me].active]
    /\ UNCHANGED <<client, peer, arrivals>>

\* A broadcast reaches a player: from a timer, a handler or a removal.
Announce(s) ==
    /\ \/ task.mode \in {"select", "timers", "shutdown"}
       \/ task.mode = "handler" /\ task.live
    /\ client[s].joined
    /\ Send(s, TRUE) \/ SendFails(s)
    /\ UNCHANGED <<task, arrivals>>

\* A handler answers its own client.  If that fails it returns -1, and the
\* rest of the chunk is dropped.
Answer(player) ==
    /\ \/ Send(me, player) /\ UNCHANGED task
       \/ SendFails(me) /\ task' = Idle
    /\ UNCHANGED arrivals

Reply == task.mode = "handler" /\ Answer(client[me].joined)

\* The welcome, with the player id.
Join == task.mode = "handler" /\ ~client[me].joined /\ Answer(TRUE)

ErrorAndClose ==
    /\ task.mode = "handler"
    /\ Free(me)
    /\ task' = Idle
    /\ UNCHANGED arrivals

\* A handler that was given a client returns 0, and the rest of the chunk is
\* worked through, even if a broadcast has freed the slot meanwhile.
Return ==
    /\ task.mode = "handler" /\ task.live
    /\ task' = [task EXCEPT !.mode = "bytes"]
    /\ UNCHANGED <<client, peer, arrivals>>

----------------------------------------------------------------------------
(* Shutdown: the loop returns and every client is removed in turn.         *)

Shutdown ==
    /\ task = Idle
    /\ task' = [Idle EXCEPT !.mode = "shutdown"]
    /\ UNCHANGED <<client, peer, arrivals>>

CloseNext(s) ==
    /\ task.mode = "shutdown" /\ client[s].active
    /\ Free(s)
    /\ UNCHANGED <<task, arrivals>>

Step == DropByte \/ StoreByte \/ EndLine \/ EndChunk \/ BeginHandler

Next ==
    \/ Step \/ Reply \/ Join \/ ErrorAndClose \/ Return \/ Shutdown
    \/ \E s \in Slot :
         \/ HangUp(s) \/ PeerGone(s) \/ Writable(s) \/ Announce(s) \/ CloseNext(s)
         \/ \E kinds \in Scripts : Accept(s, kinds)
         \/ \E n \in 1 .. ChunkSize : Recv(s, n)

\* The thread goes on with its chunk, its handler or the shutdown.
Proceed == Step \/ Return \/ ErrorAndClose \/ \E s \in Slot : CloseNext(s)

\* The loop visits every ready slot in every turn, and the peers read what
\* they are sent.
Fairness == WF_vars(Proceed) /\ \A s \in Slot : WF_vars(Writable(s))

Spec == Init /\ [][Next]_vars

FairSpec == Spec /\ Fairness

----------------------------------------------------------------------------
(* Properties.                                                             *)

Client == [active : BOOLEAN, joined : BOOLEAN, input : Seq(Byte), output : Seq(Nat)]

Peer ==
    [wire : Seq(Byte), gone : BOOLEAN, received : Seq(Nat), script : Seq(Byte),
     inherited : Seq(Byte), handed : Seq(Byte), queued : Nat]

Task ==
    [mode : {"select", "bytes", "timers", "handler", "shutdown"},
     slot : Slot \cup {NoSlot}, rest : Seq(Byte), live : BOOLEAN]

TypeOK ==
    /\ client \in [Slot -> Client]
    /\ peer \in [Slot -> Peer]
    /\ task \in Task
    /\ task.mode \in {"bytes", "timers", "handler"} => task.slot \in Slot
    /\ arrivals \in Nat
    /\ \A s \in Slot :
         ~client[s].active =>
            ~client[s].joined /\ client[s].output = <<>> /\ peer[s] = NoPeer

\* The rest of the chunk that is being worked through, if it is s's.
Rest(s) == IF task.slot = s THEN task.rest ELSE <<>>

\* What has been read of the stream of s's client and what is still to come.
StreamOf(s) == peer[s].handed \o client[s].input \o Rest(s) \o peer[s].wire

\* server.c:5 promises "line-buffered client I/O": the lines handed on for a
\* connection are the beginning of what its peer sent, byte for byte, and
\* the buffer and the chunk hold what comes next.
StreamIntact == \A s \in Slot : client[s].active => StreamOf(s) = peer[s].script

\* Whatever is sent, freed and taken again in between, a connection's lines
\* are made of what its slot's buffer held when it came and of what its peer
\* sent, nothing lost, repeated or out of order.
StreamAccounted ==
    \A s \in Slot : client[s].active =>
        StreamOf(s) = peer[s].inherited \o peer[s].script

HoldsNoNewline(bytes) == \A i \in DOMAIN bytes : bytes[i].kind # "newline"

\* Lines are handed on whole: a handler's line ends in a newline and the
\* buffer never holds one, so what a slot inherits spoils one line at most.
LinesWhole ==
    \A s \in Slot :
        /\ LET h == peer[s].handed IN h # <<>> => h[Len(h)].kind = "newline"
        /\ HoldsNoNewline(client[s].input)
        /\ HoldsNoNewline(peer[s].inherited)

\* A client gets what was queued for it, in order, without a gap or a
\* repetition; the rest is in the output buffer.
OutputWhole ==
    \A s \in Slot :
        peer[s].received \o client[s].output = [i \in 1 .. peer[s].queued |-> i]

\* Both buffers have room for what they hold and a terminating NUL.
BuffersFit ==
    \A s \in Slot :
        Len(client[s].input) <= MaxLine /\ Len(client[s].output) < OutputCap

\* What is queued is sent, or the connection closed.
Drains == \A s \in Slot : client[s].output # <<>> ~> client[s].output = <<>>
============================================================================
