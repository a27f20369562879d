----------------------------- MODULE RpcSession -----------------------------
(***************************************************************************)
(* The remote calls of the user interface (user_interface/src/main/RPC.js, *)
(* Client.js) and the thread of the service that serves them               *)
(* (service/Client.py, rpc/rpc.py, NetlinkFamily/netlink_family.py).       *)
(* A connection carries messages over TCP, which keeps neither them apart  *)
(* nor together: a reader gets a chunk, and makes of it the first message  *)
(* in it or, where decryption fails, none.  The service keeps a thread, a  *)
(* queue of requests and a netlink socket per connection; the threads of   *)
(* connections that were lost go on.  What the kernel's table holds is     *)
(* told by the ids of the additions and deletions that have reached it.    *)
(***************************************************************************)
EXTENDS Integers, SequencesExt, FiniteSetsExt

CONSTANTS
    Kinds,              \* what the user interface asks for
    MaxRequests,        \* bound: requests in all
    MaxConnections,     \* bound: connections in all
    MaxPackets,         \* bound: packets blocked in all
    SendBuffer          \* messages a socket takes before send() would block

\* "unfit" is an addition the service cannot handle: a name outside of ASCII, a
\* port field left empty, a number that does not fit its attribute.
ASSUME RpcSessionAssumption ==
    /\ Kinds \subseteq {"list_rules", "add_rule", "delete_rule", "unfit"}
    /\ {MaxRequests, MaxConnections, MaxPackets, SendBuffer} \subseteq Nat

Mutations == {"add_rule", "delete_rule"}
Conns     == 1..MaxConnections

VARIABLES
    nextId,     \* RPC.#id
    calls,      \* by id, the calls made: [kind, state, table, since]
    waiting,    \* a list_rules call waits for the connection
    connected,  \* RPC.#isConnected
    conn,       \* the number of the connection made last
    toService,  \* per connection: requests on their way
    toUi,       \* per connection: responses and notifications on their way
    alive,      \* per connection: its thread has not died
    requests,   \* per connection: RPC.__requests, ids
    noteId,     \* per connection: the id of the next request the service makes
    netlink,    \* per connection: messages the kernel has sent to its socket
    applied,    \* the additions and deletions the kernel has carried out
    packets,    \* how many packets have been blocked
    spoilt      \* history: a call may hang, for a reason that is not the queue

ui      == <<nextId, calls, waiting, connected, conn>>
service == <<alive, requests, noteId>>
kernel  == <<netlink, applied, packets>>
vars    == <<ui, toService, toUi, service, kernel, spoilt>>

Init ==
    /\ nextId = 1
    /\ calls = <<>>
    /\ waiting = FALSE
    /\ connected = FALSE
    /\ conn = 0
    /\ toService = [c \in Conns |-> <<>>]
    /\ toUi = [c \in Conns |-> <<>>]
    /\ alive = [c \in Conns |-> TRUE]
    /\ requests = [c \in Conns |-> <<>>]
    /\ noteId = [c \in Conns |-> 1]
    /\ netlink = [c \in Conns |-> <<>>]
    /\ applied = {}
    /\ packets = 0
    /\ spoilt = FALSE

\* What a read can take off a wire, and what decryption makes of it: <<>> when
\* the chunk ends within a message or the padding of the first does not stop
\* the base64 decoder before the second.
Chunks(wire) ==
    {[read |-> n, message |-> m] : n \in 1..Len(wire), m \in {<<>>, <<Head(wire)>>}}

Intact(chunk) == chunk.read = 1 /\ chunk.message # <<>>

Rest(wire, chunk) == SubSeq(wire, chunk.read + 1, Len(wire))

-----------------------------------------------------------------------------
(***************************************************************************)
(* The user interface's main process.                                      *)
(***************************************************************************)
Call(kind) == [kind |-> kind, state |-> "pending", table |-> {}, since |-> applied]

\* Mutant: the id counter stays.
Request_SAMEID(kind) ==
    /\ connected /\ Len(calls) < MaxRequests
    /\ calls' = Append(calls, Call(kind))
    /\ toService' = [toService EXCEPT ![conn] = Append(@, [id |-> nextId, kind |-> kind])]
    /\ spoilt' = (spoilt \/ kind # "list_rules")
    /\ UNCHANGED <<nextId, waiting, connected, conn, toUi, service, kernel>>

\* list_rules, delete_rule, add_rule: the request goes out, and the call listens
\* to every chunk from now on.  (Without a connection the last two fail at once.)
Request(kind) ==
    /\ connected /\ Len(calls) < MaxRequests
    /\ nextId' = nextId + 1
    /\ calls' = Append(calls, Call(kind))
    /\ toService' = [toService EXCEPT ![conn] = Append(@, [id |-> nextId, kind |-> kind])]
    /\ spoilt' = (spoilt \/ kind # "list_rules")
    /\ UNCHANGED <<waiting, connected, conn, toUi, service, kernel>>

\* list_rules without a connection: it starts over when there is one.
RequestLater ==
    /\ ~connected /\ ~waiting /\ "list_rules" \in Kinds /\ Len(calls) < MaxRequests
    /\ waiting' = TRUE
    /\ UNCHANGED <<nextId, calls, connected, conn, toUi, toService, service, kernel, spoilt>>

\* The handshake is done.  The service reads the user interface's key with a
\* recv of 4096 bytes, which swallows a request that follows close behind.
Connect ==
    /\ ~connected /\ conn < MaxConnections
    /\ conn' = conn + 1
    /\ connected' = TRUE
    /\ waiting' = FALSE
    /\ IF waiting
       THEN /\ nextId' = nextId + 1
            /\ calls' = Append(calls, Call("list_rules"))
            /\ \/ /\ toService' = [toService EXCEPT ![conn'] =
                                        <<[id |-> nextId, kind |-> "list_rules"]>>]
                  /\ UNCHANGED spoilt
               \/ spoilt' = TRUE /\ UNCHANGED toService
       ELSE UNCHANGED <<nextId, calls, toService, spoilt>>
    /\ UNCHANGED <<toUi, service, kernel>>

\* The connection is lost, and what was on its way to the user interface with
\* it.  What was on its way to the service may still be read.  The calls under
\* way go on listening: the socket object is used again.
Disconnect ==
    /\ connected
    /\ connected' = FALSE
    /\ toUi' = [toUi EXCEPT ![conn] = <<>>]
    /\ \E n \in 0..Len(toService[conn]) :
            toService' = [toService EXCEPT ![conn] = SubSeq(@, 1, n)]
    /\ spoilt' = TRUE
    /\ UNCHANGED <<nextId, calls, waiting, conn, service, kernel>>

\* Mutant: whatever is not a response ends every call.
Settled_ANYNOTE(message) ==
    [i \in DOMAIN calls |->
        IF calls[i].state # "pending" THEN calls[i]
        ELSE IF message.type = "request" THEN [calls[i] EXCEPT !.state = "failed"]
        ELSE IF i = message.id
             THEN [calls[i] EXCEPT !.state = "resolved", !.table = message.table]
             ELSE calls[i]]

\* RPC.#recvResponse, for every call under way: the message with its id ends it,
\* well when that is a response and badly when it is a notification.
Settled(message) ==
    [i \in DOMAIN calls |->
        IF calls[i].state = "pending" /\ i = message.id
        THEN [calls[i] EXCEPT
                !.state = IF message.type = "success" THEN "resolved" ELSE "failed",
                !.table = message.table]
        ELSE calls[i]]

\* A chunk arrives: each call looks at it, and listens for the next before that
\* can come.
UiReceive ==
    /\ connected /\ toUi[conn] # <<>>
    /\ \E chunk \in Chunks(toUi[conn]) :
         /\ toUi' = [toUi EXCEPT ![conn] = Rest(@, chunk)]
         /\ calls' = IF chunk.message = <<>> THEN calls ELSE Settled(chunk.message[1])
         /\ spoilt' = (spoilt \/ ~Intact(chunk))
    /\ UNCHANGED <<nextId, waiting, connected, conn, toService, service, kernel>>

-----------------------------------------------------------------------------
(***************************************************************************)
(* The service's thread of connection c, and the kernel it talks to.       *)
(***************************************************************************)
\* Mutant: a listing is not remembered, since it is answered at once.
Queued_NOTLISTINGS(c, request) ==
    IF request.kind = "list_rules" THEN requests[c] ELSE Append(requests[c], request.id)

\* RPC.parse_message: every request is put in the queue, though only listings
\* are ever answered.
Queued(c, request) == Append(requests[c], request.id)

\* Client.run's second half: one chunk off the socket, and the request in it put
\* in the queue and carried out.  The kernel runs a command within the send; a
\* table too long for a reply it lists as an empty one (see RuleTable).  What an
\* unfit request raises, in run or in the callback, nothing catches.
Handle(c, request) ==
    \/ /\ request.kind = "list_rules"
       /\ requests' = [requests EXCEPT ![c] = Queued(c, request)]
       /\ \E table \in {applied, {}} :
            netlink' = [netlink EXCEPT ![c] = Append(@, [cmd |-> "LIST_RULES", table |-> table])]
       /\ UNCHANGED <<alive, applied>>
    \/ /\ request.kind \in Mutations
       /\ requests' = [requests EXCEPT ![c] = Queued(c, request)]
       /\ applied' = applied \cup {request.id}
       /\ UNCHANGED <<alive, netlink>>
    \/ /\ request.kind = "unfit"
       /\ requests' \in {requests, [requests EXCEPT ![c] = Queued(c, request)]}
       /\ alive' = [alive EXCEPT ![c] = FALSE]
       /\ UNCHANGED <<netlink, applied>>

ServiceReceive(c) ==
    /\ alive[c] /\ toService[c] # <<>>
    /\ \E chunk \in Chunks(toService[c]) :
         /\ toService' = [toService EXCEPT ![c] = Rest(@, chunk)]
         /\ IF chunk.message = <<>> THEN UNCHANGED <<alive, requests, netlink, applied>>
                                    ELSE Handle(c, chunk.message[1])
         /\ spoilt' = (spoilt \/ ~Intact(chunk))
    /\ UNCHANGED <<ui, toUi, noteId, packets>>

\* Client.send.  A socket that has no room raises, and so does one whose peer is
\* gone, if not at the first send; nothing catches that.
Send(c, message) ==
    \/ /\ connected /\ c = conn /\ Len(toUi[c]) < SendBuffer
       /\ toUi' = [toUi EXCEPT ![c] = Append(@, message)]
       /\ UNCHANGED alive
    \/ /\ connected /\ c = conn /\ Len(toUi[c]) >= SendBuffer
       /\ alive' = [alive EXCEPT ![c] = FALSE]
       /\ UNCHANGED toUi
    \/ /\ ~(connected /\ c = conn)
       /\ alive' \in {alive, [alive EXCEPT ![c] = FALSE]}
       /\ UNCHANGED toUi

\* Mutant: the listing answers the request that came last.
ForwardListing_NEWEST(c) ==
    /\ alive[c] /\ netlink[c] # <<>> /\ Head(netlink[c]).cmd = "LIST_RULES"
    /\ requests[c] # <<>>
    /\ netlink' = [netlink EXCEPT ![c] = Tail(@)]
    /\ requests' = [requests EXCEPT ![c] = Front(@)]
    /\ Send(c, [type |-> "success", id |-> Last(requests[c]), table |-> Head(netlink[c]).table])
    /\ UNCHANGED <<ui, toService, noteId, applied, packets, spoilt>>

\* Mutant: a listing of an empty table is not passed on.
ForwardListing_NOTEMPTY(c) ==
    /\ alive[c] /\ netlink[c] # <<>> /\ Head(netlink[c]).cmd = "LIST_RULES"
    /\ requests[c] # <<>>
    /\ netlink' = [netlink EXCEPT ![c] = Tail(@)]
    /\ requests' = [requests EXCEPT ![c] = Tail(@)]
    /\ IF Head(netlink[c]).table = {} THEN UNCHANGED <<toUi, alive>>
       ELSE Send(c, [type |-> "success", id |-> Head(requests[c]), table |-> Head(netlink[c]).table])
    /\ UNCHANGED <<ui, toService, noteId, applied, packets, spoilt>>

\* Client.run's first half, for a listing: list_rules_callback answers the oldest
\* request in the queue, whatever it asked for.  Queue.get waits for one.
ForwardListing(c) ==
    /\ alive[c] /\ netlink[c] # <<>> /\ Head(netlink[c]).cmd = "LIST_RULES"
    /\ requests[c] # <<>>
    /\ netlink' = [netlink EXCEPT ![c] = Tail(@)]
    /\ requests' = [requests EXCEPT ![c] = Tail(@)]
    /\ Send(c, [type |-> "success", id |-> Head(requests[c]), table |-> Head(netlink[c]).table])
    /\ UNCHANGED <<ui, toService, noteId, applied, packets, spoilt>>

\* The same for a blocked packet: blocked_packet_callback makes a request of its
\* own, with an id of its own counter.
ForwardPacket(c) ==
    /\ alive[c] /\ netlink[c] # <<>> /\ Head(netlink[c]).cmd = "BLOCKED_PACKET"
    /\ netlink' = [netlink EXCEPT ![c] = Tail(@)]
    /\ noteId' = [noteId EXCEPT ![c] = @ + 1]
    /\ Send(c, [type |-> "request", id |-> noteId[c], table |-> {}])
    /\ UNCHANGED <<ui, toService, requests, applied, packets, spoilt>>

\* The kernel multicasts a blocked packet to the sockets there are.
BlockPacket ==
    /\ packets < MaxPackets
    /\ packets' = packets + 1
    /\ netlink' = [c \in Conns |->
            IF c <= conn /\ alive[c]
            THEN Append(netlink[c], [cmd |-> "BLOCKED_PACKET", table |-> {}])
            ELSE netlink[c]]
    /\ UNCHANGED <<ui, toService, toUi, service, applied, spoilt>>

ServiceStep(c) == ServiceReceive(c) \/ ForwardListing(c) \/ ForwardPacket(c)

Next ==
    \/ \E kind \in Kinds : Request(kind)
    \/ RequestLater
    \/ Connect
    \/ Disconnect
    \/ UiReceive
    \/ \E c \in 1..conn : ServiceStep(c)
    \/ BlockPacket

\* The thread loops without ever sleeping over both of its sockets, so neither
\* starves the other; node's event loop reads what has arrived.
Fairness ==
    /\ WF_vars(UiReceive)
    /\ \A c \in Conns : /\ WF_vars(c <= conn /\ ServiceReceive(c))
                        /\ WF_vars(c <= conn /\ (ForwardListing(c) \/ ForwardPacket(c)))

Spec == Init /\ [][Next]_vars /\ Fairness

-----------------------------------------------------------------------------
Ids == 1..MaxRequests

Pending(i) == i \in DOMAIN calls /\ calls[i].state = "pending"

TypeOK ==
    /\ nextId = Len(calls) + 1
    /\ calls \in Seq([kind : Kinds, state : {"pending", "resolved", "failed"},
                      table : SUBSET Ids, since : SUBSET Ids])
    /\ {waiting, connected, spoilt} \subseteq BOOLEAN
    /\ conn \in 0..MaxConnections /\ (connected => conn \in Conns)
    /\ toService \in [Conns -> Seq([id : 1..nextId - 1, kind : Kinds])]
    /\ toUi \in [Conns -> Seq([type : {"success", "request"}, id : Nat, table : SUBSET Ids])]
    /\ alive \in [Conns -> BOOLEAN]
    /\ requests \in [Conns -> Seq(1..nextId - 1)]
    /\ noteId \in [Conns -> 1..packets + 1]
    /\ netlink \in [Conns -> Seq([cmd : {"LIST_RULES", "BLOCKED_PACKET"}, table : SUBSET Ids])]
    /\ applied \subseteq 1..nextId - 1
    /\ packets \in 0..MaxPackets

\* Where such messages stand on a socket.
Those(cmd, messages) == {i \in DOMAIN messages : messages[i].cmd = cmd}

\* The thread never sits in Queue.get: for every listing the kernel has sent, the
\* request behind it, or an older one, is in the queue.  The get has no timeout,
\* and a thread caught in it would serve its client no more.
NeverWaitsForRequest ==
    \A c \in Conns : Cardinality(Those("LIST_RULES", netlink[c])) <= Len(requests[c])

\* Along a connection, from the responses on their way back over the queue to
\* the requests on their way there, ids go up: no request is answered twice, nor
\* before an older one, whatever is torn or lost.
AnswersInOrder ==
    \A c \in Conns :
        LET Responses == {i \in DOMAIN toUi[c] : toUi[c][i].type = "success"}
            answered == {toUi[c][i].id : i \in Responses}
            queued   == {requests[c][i] : i \in DOMAIN requests[c]}
            coming   == {toService[c][i].id : i \in DOMAIN toService[c]}
        IN  /\ \A i, j \in Responses : i < j => toUi[c][i].id < toUi[c][j].id
            /\ \A i, j \in DOMAIN requests[c] : i < j => requests[c][i] < requests[c][j]
            /\ \A i, j \in DOMAIN toService[c] : i < j => toService[c][i].id < toService[c][j].id
            /\ \A a \in answered : \A b \in queued \cup coming : a < b
            /\ \A a \in queued : \A b \in coming : a < b

\* The queue hands answers to requests they were not made for.  Still the answer
\* a call gets, unless it is that of a table too long to list, shows a table at
\* least as new as the call: with everything that was carried out when the call
\* was made, and with its own addition or deletion.
AnswersAreFresh ==
    \A i \in DOMAIN calls : (calls[i].state = "resolved" /\ calls[i].table # {}) =>
        /\ calls[i].since \subseteq calls[i].table
        /\ calls[i].kind \in Mutations => i \in calls[i].table

\* A call fails only when the service has used its id for a notification: the
\* two sides count independently, and a response is told by its id alone.
FailsOnlyByCollision ==
    \A i \in DOMAIN calls : calls[i].state = "failed" => \E c \in Conns : i < noteId[c]

\* As long as nothing but listings is asked for, no message is torn or joined to
\* another, the connection holds and the thread lives, every call is settled.
ListingsAreSettled ==
    \A i \in Ids : Pending(i) ~> (~Pending(i) \/ spoilt \/ ~alive[conn])
=============================================================================
