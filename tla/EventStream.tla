---------------------------- MODULE EventStream -----------------------------
(***************************************************************************)
(* Delivery of events: the publishers of replay_controller.py, EventBroker *)
(* of backend/app/services/event_broker.py and the WebSocket endpoint of   *)
(* backend/app/api/v1/endpoints/events.py.                                 *)
(*                                                                         *)
(* Threads publish into streams, a replay's or an operational one, under   *)
(* the controller's lock.  The broker keeps one bounded ring for all       *)
(* streams and a bounded queue per subscriber.  Each socket's coroutine    *)
(* drains its queue and sends; between two sends everything else may move. *)
(***************************************************************************)
EXTENDS Naturals, Sequences

CONSTANTS
    Replays,        \* streams of replays
    OpsStreams,     \* operational streams, which have no terminal event
    Publishers,     \* threads that publish: workers and request handlers
    Sockets,        \* client connections
    RingSize,       \* EVENT_RING_BUFFER_SIZE
    QueueSize,      \* SUBSCRIBER_QUEUE_SIZE
    MaxEvents,      \* bound: events of a stream
    MaxConnects,    \* bound: connections made
    Nil

Streams == Replays \cup OpsStreams

\* An envelope: its stream, its number there, and whether it ends a replay.
Events == [stream : Streams, nr : Nat, terminal : BOOLEAN]

ASSUME StreamAssumption ==
    /\ RingSize \in Nat \ {0} /\ QueueSize \in Nat \ {0}
    /\ MaxEvents \in Nat /\ MaxConnects \in Nat
    /\ Nil \notin Nat \cup Publishers \cup Streams \cup Events

VARIABLES
    lock,       \* the controller's lock
    sequence,   \* per stream: the next sequence number
    pending,    \* per publisher: the envelope it has built
    ended,      \* replays whose terminal event has been numbered
    ring,       \* _ring
    sub,        \* per socket: its Subscriber
    socket,     \* per socket: where the endpoint's coroutine is
    batch,      \* per socket: drained events not sent yet
    lagged,     \* per socket: the drained LAGGED flag
    got,        \* per socket: the sequence number the client got last
    noticed,    \* per socket: a gap notice came since then (history)
    owed,       \* per socket: its terminal event came while it listened, and it
                \* has not been told of a gap since (history)
    connects    \* connections so far

publishVars == <<lock, sequence, pending, ended>>
socketVars == <<socket, batch, lagged, got, noticed>>
streamVars == <<lock, sequence, pending, ended, ring, sub, socket, batch, lagged, got, noticed,
                owed, connects>>

NoSub == [on |-> FALSE, stream |-> Nil, queue |-> <<>>, state |-> "CLOSED"]

StreamInit ==
    /\ lock = Nil
    /\ sequence = [s \in Streams |-> 0]
    /\ pending = [p \in Publishers |-> Nil]
    /\ ended = {}
    /\ ring = <<>>
    /\ sub = [c \in Sockets |-> NoSub]
    /\ socket = [c \in Sockets |-> "closed"]
    /\ batch = [c \in Sockets |-> <<>>]
    /\ lagged = [c \in Sockets |-> FALSE]
    /\ got = [c \in Sockets |-> Nil]
    /\ noticed = [c \in Sockets |-> FALSE]
    /\ owed = [c \in Sockets |-> FALSE]
    /\ connects = 0

-----------------------------------------------------------------------------
(* Publishing. *)

\* Mutant: numbers are handed out without the lock.
LockFreeAlways(p) == TRUE

LockFree(p) == lock = Nil

\* _publish, _publish_operational_event: the lock, then a number.  A replay's
\* terminal event is published once; other threads may publish after it.
Number(p, s, terminal) ==
    /\ pending[p] = Nil /\ LockFree(p) /\ sequence[s] < MaxEvents
    /\ terminal => s \in Replays \ ended
    /\ lock' = p
    /\ pending' = [pending EXCEPT ![p] = [stream |-> s, nr |-> sequence[s], terminal |-> terminal]]
    /\ sequence' = [sequence EXCEPT ![s] = @ + 1]
    /\ ended' = IF terminal THEN ended \cup {s} ELSE ended
    /\ UNCHANGED <<ring, sub, socketVars, owed, connects>>

\* Mutant: what does not fit is dropped and nothing is said.
OfferSilently(u, e) ==
    IF ~ u.on \/ u.stream # e.stream \/ Len(u.queue) >= QueueSize THEN u
    ELSE [u EXCEPT !.queue = Append(@, e)]

\* What publish does to one subscriber.
Offer(u, e) ==
    IF ~ u.on \/ u.stream # e.stream THEN u
    ELSE IF Len(u.queue) >= QueueSize THEN [u EXCEPT !.state = "LAGGED"]
    ELSE [u EXCEPT !.queue = Append(@, e)]

\* A deque with maxlen n.
Bounded(s, n) == IF Len(s) > n THEN SubSeq(s, Len(s) - n + 1, Len(s)) ELSE s

\* EventBroker.publish, still under the controller's lock.
Publish(p) ==
    /\ pending[p] # Nil
    /\ ring' = Bounded(Append(ring, pending[p]), RingSize)
    /\ sub' = [c \in Sockets |-> Offer(sub[c], pending[p])]
    /\ owed' = [c \in Sockets |-> owed[c] \/
                  (sub[c].on /\ sub[c].stream = pending[p].stream /\ pending[p].terminal)]
    /\ pending' = [pending EXCEPT ![p] = Nil]
    /\ lock' = IF lock = p THEN Nil ELSE lock
    /\ UNCHANGED <<sequence, ended, socketVars, connects>>

-----------------------------------------------------------------------------
(* The endpoint. *)

\* own[i]: the events of stream s among the first i of the ring.
Own(s) ==
    LET own[i \in 0 .. Len(ring)] ==
            IF i = 0 THEN <<>>
            ELSE IF ring[i].stream = s THEN Append(own[i - 1], ring[i]) ELSE own[i - 1]
    IN  own[Len(ring)]

\* The events of the ring that subscribe copies: the stream's own, the newest
\* that fit the queue.
Recent(s) == Bounded(Own(s), QueueSize)

\* accept, subscribe, the first turn of the loop.
Connect(c, s) ==
    /\ socket[c] = "closed" /\ connects < MaxConnects
    /\ connects' = connects + 1
    /\ sub' = [sub EXCEPT ![c] = [on |-> TRUE, stream |-> s, queue |-> Recent(s),
                                  state |-> "ACTIVE"]]
    /\ socket' = [socket EXCEPT ![c] = "drain"]
    /\ batch' = [batch EXCEPT ![c] = <<>>]
    /\ lagged' = [lagged EXCEPT ![c] = FALSE]
    /\ got' = [got EXCEPT ![c] = Nil]
    /\ noticed' = [noticed EXCEPT ![c] = FALSE]
    /\ owed' = [owed EXCEPT ![c] = FALSE]
    /\ UNCHANGED <<publishVars, ring>>

\* drain: the queue and the flag, both reset.
Drain(c) ==
    /\ socket[c] = "drain"
    /\ batch' = [batch EXCEPT ![c] = sub[c].queue]
    /\ lagged' = [lagged EXCEPT ![c] = sub[c].state = "LAGGED"]
    /\ sub' = [sub EXCEPT ![c].queue = <<>>, ![c].state = "ACTIVE"]
    /\ socket' = [socket EXCEPT ![c] = "send"]
    /\ UNCHANGED <<publishVars, ring, got, noticed, owed, connects>>

Close(c) ==
    /\ socket' = [socket EXCEPT ![c] = "closed"]
    /\ sub' = [sub EXCEPT ![c] = NoSub]
    /\ batch' = [batch EXCEPT ![c] = <<>>]

\* Mutant: the socket stays open after the end of the replay.
ClosesNever(e) == FALSE

Closes(e) == e.terminal

\* One send_json; the terminal event closes the socket and ends the loop.
Send(c) ==
    /\ socket[c] = "send" /\ batch[c] # <<>>
    /\ LET e == Head(batch[c])
       IN /\ got' = [got EXCEPT ![c] = e.nr]
          /\ noticed' = [noticed EXCEPT ![c] = FALSE]
          /\ IF Closes(e) THEN Close(c)
             ELSE batch' = [batch EXCEPT ![c] = Tail(@)] /\ UNCHANGED <<socket, sub>>
    /\ UNCHANGED <<publishVars, ring, lagged, owed, connects>>

\* The gap notice, if the drain saw the flag; then the wait of receive_text
\* ends and the loop turns.
Notice(c) ==
    /\ socket[c] = "send" /\ batch[c] = <<>>
    /\ noticed' = [noticed EXCEPT ![c] = @ \/ lagged[c]]
    /\ owed' = [owed EXCEPT ![c] = @ /\ ~ lagged[c]]
    /\ socket' = [socket EXCEPT ![c] = "drain"]
    /\ UNCHANGED <<publishVars, ring, sub, batch, lagged, got, connects>>

\* The client goes away: some await raises, finally unsubscribes.
Disconnect(c) ==
    /\ socket[c] # "closed"
    /\ Close(c)
    /\ UNCHANGED <<publishVars, ring, lagged, got, noticed, owed, connects>>

StreamNext ==
    \/ \E p \in Publishers, s \in Streams, t \in BOOLEAN : Number(p, s, t)
    \/ \E p \in Publishers : Publish(p)
    \/ \E c \in Sockets, s \in Streams : Connect(c, s)
    \/ \E c \in Sockets : Drain(c) \/ Send(c) \/ Notice(c) \/ Disconnect(c)

\* The event loop runs every coroutine that can go on.
StreamSpec ==
    /\ StreamInit /\ [][StreamNext]_streamVars
    /\ \A c \in Sockets : WF_streamVars(Drain(c) \/ Send(c) \/ Notice(c))

-----------------------------------------------------------------------------
(* Properties. *)

StreamTypeOK ==
    /\ lock \in Publishers \cup {Nil}
    /\ sequence \in [Streams -> 0 .. MaxEvents]
    /\ pending \in [Publishers -> Events \cup {Nil}]
    /\ ended \subseteq Replays
    /\ ring \in Seq(Events) /\ Len(ring) <= RingSize
    /\ sub \in [Sockets -> [on : BOOLEAN, stream : Streams \cup {Nil}, queue : Seq(Events),
                            state : {"ACTIVE", "LAGGED", "CLOSED"}]]
    /\ socket \in [Sockets -> {"closed", "drain", "send"}]
    /\ batch \in [Sockets -> Seq(Events)]
    /\ got \in [Sockets -> Nat \cup {Nil}]
    /\ {lagged, noticed, owed} \subseteq [Sockets -> BOOLEAN]
    /\ connects \in 0 .. MaxConnects
    /\ \A c \in Sockets :
          /\ Len(sub[c].queue) <= QueueSize
          /\ sub[c].on <=> socket[c] # "closed"

\* What a client gets is in the order of publication, once each, and where an
\* event between two is missing a gap notice stands between them.
NoSilentGap ==
    [][\A c \in Sockets : (got[c] # Nil /\ got'[c] # got[c] /\ got'[c] # Nil) =>
          \/ got'[c] = got[c] + 1
          \/ got'[c] > got[c] /\ noticed[c]]_streamVars

\* A client that listens when its replay ends sees its socket closed, or is
\* told that it has missed something, however slow it is.
EndReachesTheClient ==
    \A c \in Sockets : owed[c] ~> (socket[c] = "closed" \/ ~ owed[c])

\* The ring is in the order of the sequence numbers, stream by stream, so that
\* oldest_available_sequence is the number of the stream's first event in it.
RingInOrder ==
    \A i, j \in 1 .. Len(ring) :
        (i < j /\ ring[i].stream = ring[j].stream) => ring[i].nr < ring[j].nr
=============================================================================
