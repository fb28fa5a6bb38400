----------------------------- MODULE TcpServer -----------------------------
(***************************************************************************)
(* TcpServer (wireless_esp32/src/tcp_server.cpp): one task that serves a   *)
(* few TCP clients with select().  A client authenticates by challenge and *)
(* response before anything else is done for it; what the device sends to  *)
(* it waits in a ring of its own.  The task of WirelessModule takes the    *)
(* requests of authenticated clients from a queue and puts replies and     *)
(* monitored CAN frames into another, addressed by slot or to all slots.   *)
(*                                                                         *)
(* A round of the server is: empty the outbound queue, close clients that  *)
(* are late, select(), accept, then serve the slots in turn.  A connection *)
(* is a number; its peer is external, and may be slow, stop reading or go  *)
(* away at any time.  HMAC is modelled by what it decides: a proof is      *)
(* right when the sender has the key and used the nonce of the challenge.  *)
(* Bytes that form no packet are left to the stream decoder.               *)
(***************************************************************************)
EXTENDS Naturals, Sequences, FiniteSets

CONSTANTS MaxClients,    \* max_clients
          Connections,   \* bound: the connections ever made
          KeyHolders,    \* the connections whose client has the control key
          ClientTxDepth, \* kClientTxDepth
          OutboundDepth, \* kOutboundDepth
          IngressDepth,  \* WirelessModule::kIngressDepth
          MaxSends,      \* bound: packets that clients send
          MaxFrames      \* bound: CAN frames monitored

ASSUME DepthAssumption ==
    {MaxClients, ClientTxDepth, OutboundDepth, IngressDepth} \subseteq Nat \ {0}
ASSUME ConnectionsAssumption ==
    Connections \subseteq Nat \ {0} /\ KeyHolders \subseteq Connections
ASSUME BoundsAssumption == MaxSends \in Nat /\ MaxFrames \in Nat

VARIABLES clients,    \* clients_
          stage,      \* where the server is in its round ...
          turn,       \* ... and the slot it serves
          readable,   \* slots that select() reported readable
          writable,   \* slots that select() reported writable
          outbound,   \* outbound_queue_
          inbound,    \* WirelessModule::ingress_queue_, from TCP clients
          challenges, \* device nonces drawn so far
          frames,     \* CAN frames monitored so far
          sends,      \* packets sent by clients so far
          arrived,    \* connections made so far
          got         \* history: the packets that reached each peer, by type

vars == <<clients, stage, turn, readable, writable, outbound, inbound,
          challenges, frames, sends, arrived, got>>
round == <<stage, turn, readable, writable>>

Slots == 0 .. MaxClients - 1
None == 0
Packet(type, n) == [type |-> type, n |-> n]

\* A slot without a client: clients_[index] = {} and socket = -1.  The last
\* four fields are the socket's: what has arrived on it, whether the peer is
\* gone, whether the connection is ten seconds old, and which challenges the
\* peer has read.
Free == [conn |-> None, authenticated |-> FALSE, challenge_pending |-> FALSE,
         nonce |-> 0, close_after_tx |-> FALSE, tx |-> <<>>,
         rx |-> <<>>, gone |-> FALSE, late |-> FALSE, known |-> {}]
Used == {i \in Slots : clients[i].conn # None}

-----------------------------------------------------------------------------
(* Operations on one client.                                               *)

RoomFor(client) == Len(client.tx) < ClientTxDepth

\* send_packet() followed by close_client() when it fails: the ring is full.
Sent(client, packet) ==
    IF RoomFor(client) THEN [client EXCEPT !.tx = Append(@, packet)] ELSE Free

\* drain_outbound(): only an authenticated client is sent anything.
Delivered(client, packet) ==
    IF client.authenticated THEN Sent(client, packet) ELSE client

\* close_client()
Closed(client) == Free

-----------------------------------------------------------------------------
(* The round of the server, up to select().                                *)

\* Mutant: a client that is slow to read holds up the queue.
DrainWhenRoom ==
    /\ stage = "drain"
    /\ outbound # <<>>
    /\ \A i \in Head(outbound).to : RoomFor(clients[i])
    /\ clients' = [i \in Slots |->
           IF i \in Head(outbound).to
             THEN Delivered(clients[i], Head(outbound).packet) ELSE clients[i]]
    /\ outbound' = Tail(outbound)
    /\ UNCHANGED <<round, inbound, challenges, frames, sends, arrived, got>>

\* The packet at the head of the queue goes to one slot or to all.
Drain ==
    /\ stage = "drain"
    /\ outbound # <<>>
    /\ clients' = [i \in Slots |->
           IF i \in Head(outbound).to
             THEN Delivered(clients[i], Head(outbound).packet) ELSE clients[i]]
    /\ outbound' = Tail(outbound)
    /\ UNCHANGED <<round, inbound, challenges, frames, sends, arrived, got>>

\* Mutant: a client with a challenge pending is waited for.
TooLateUnlessPending(client) ==
    /\ client.conn # None
    /\ ~client.authenticated /\ ~client.challenge_pending
    /\ client.late

\* Ten seconds after connecting a client must be authenticated.
TooLate(client) ==
    /\ client.conn # None
    /\ ~client.authenticated
    /\ client.late

Timed == [i \in Slots |-> IF TooLate(clients[i]) THEN Closed(clients[i]) ELSE clients[i]]

\* accept_client(): the peer gets the first free slot, or is turned away.
Accept(c) ==
    LET free == {i \in Slots : Timed[i].conn = None}
    IN  /\ c \notin arrived
        /\ arrived' = arrived \cup {c}
        /\ \/ free = {} /\ clients' = Timed
           \/ \E i \in free : /\ \A j \in free : i <= j
                              /\ clients' = [Timed EXCEPT ![i].conn = c]

\* select() reports every slot with data or an end of file, and of those with
\* packets to send the ones whose peer makes room; a peer that connects is
\* accepted, and is not served before the next round.
Select ==
    /\ stage = "drain"
    /\ outbound = <<>>
    /\ stage' = "serve"
    /\ readable' = {i \in Slots : /\ Timed[i].conn # None
                                  /\ Timed[i].rx # <<>> \/ Timed[i].gone}
    /\ writable' \in SUBSET {i \in Slots : Timed[i].tx # <<>>}
    /\ \/ clients' = Timed /\ UNCHANGED arrived
       \/ \E c \in Connections : Accept(c)
    /\ UNCHANGED <<turn, outbound, inbound, challenges, frames, sends, got>>

-----------------------------------------------------------------------------
(* The slot whose turn it is.                                              *)

Pass ==
    /\ readable' = readable \ {turn}
    /\ writable' = writable \ {turn}
    /\ IF turn + 1 \in Slots THEN turn' = turn + 1 /\ UNCHANGED stage
                             ELSE turn' = 0 /\ stage' = "drain"

\* After a packet: on with the same client, or, when it was closed, the next.
Served(client) ==
    /\ clients' = [clients EXCEPT ![turn] = client]
    /\ IF client = Free THEN Pass ELSE UNCHANGED round

\* handle_auth_request(): a new nonce, whatever went before.
AuthRequest(client, packet) ==
    /\ packet.type = "auth_request"
    /\ challenges' = challenges + 1
    /\ Served(Sent([client EXCEPT !.nonce = challenges + 1,
                                  !.challenge_pending = TRUE,
                                  !.authenticated = FALSE],
                   Packet("challenge", challenges + 1)))
    /\ UNCHANGED inbound

\* Mutant: a proof for any challenge there was is good.
AuthResponseToAny(client, packet) ==
    /\ packet.type = "auth_response"
    /\ LET right == packet.n \in 0 .. challenges
       IN  Served(IF ~client.challenge_pending THEN Closed(client)
                  ELSE Sent([client EXCEPT !.challenge_pending = FALSE,
                                           !.authenticated = right,
                                           !.close_after_tx = @ \/ ~right],
                            Packet(IF right THEN "auth_ok" ELSE "auth_failed", 0)))
    /\ UNCHANGED <<challenges, inbound>>

\* handle_auth_response(): a wrong proof is answered before the connection is
\* closed, one that nobody asked for closes it at once.
AuthResponse(client, packet) ==
    /\ packet.type = "auth_response"
    /\ LET right == packet.n = client.nonce
       IN  Served(IF ~client.challenge_pending THEN Closed(client)
                  ELSE Sent([client EXCEPT !.challenge_pending = FALSE,
                                           !.authenticated = right,
                                           !.close_after_tx = @ \/ ~right],
                            Packet(IF right THEN "auth_ok" ELSE "auth_failed", 0)))
    /\ UNCHANGED <<challenges, inbound>>

NotAuthenticated(client, packet) ==
    /\ packet.type = "request"
    /\ ~client.authenticated
    /\ Served(Sent(client, Packet("auth_required", 0)))
    /\ UNCHANGED <<challenges, inbound>>

\* packet_sink_.submit(): a client whose request finds the queue full is closed.
Submit(client, packet) ==
    /\ packet.type = "request"
    /\ client.authenticated
    /\ IF Len(inbound) < IngressDepth
         THEN /\ inbound' = Append(inbound, [peer |-> turn, conn |-> client.conn])
              /\ Served(client)
         ELSE /\ UNCHANGED inbound
              /\ Served(Closed(client))
    /\ UNCHANGED challenges

\* receive_client() takes the next packet out of what the peer has sent.
Receive ==
    /\ stage = "serve"
    /\ turn \in readable \cap Used
    /\ clients[turn].rx # <<>>
    /\ LET packet == Head(clients[turn].rx)
           client == [clients[turn] EXCEPT !.rx = Tail(@)]
       IN  \/ AuthRequest(client, packet)
           \/ AuthResponse(client, packet)
           \/ NotAuthenticated(client, packet)
           \/ Submit(client, packet)
    /\ UNCHANGED <<outbound, frames, sends, arrived, got>>

\* recv() reports the end or the loss of the connection, or send() fails.
HangUp ==
    /\ stage = "serve"
    /\ turn \in (readable \cup writable) \cap Used
    /\ clients[turn].gone
    /\ Served(Closed(clients[turn]))
    /\ UNCHANGED <<outbound, inbound, challenges, frames, sends, arrived, got>>

\* The challenges among packets.
Nonces(packets) ==
    {packets[k].n : k \in {j \in DOMAIN packets : packets[j].type = "challenge"}}

\* flush_client() sends the n packets the peer has room for, and a client that
\* failed to authenticate is closed once its ring is empty.
Flush(n) ==
    /\ stage = "serve"
    /\ n > 0 => turn \in writable \cap Used
    /\ n <= Len(clients[turn].tx)
    /\ LET client == clients[turn]
           read == SubSeq(client.tx, 1, n)
           left == [client EXCEPT !.tx = SubSeq(@, n + 1, Len(@)),
                                  !.known = @ \cup Nonces(read)]
       IN  /\ got' = IF n = 0 THEN got
                     ELSE [got EXCEPT ![client.conn] = @ \cup {read[k].type : k \in 1 .. n}]
           /\ clients' = [clients EXCEPT ![turn] =
                  IF left.close_after_tx /\ left.tx = <<>> THEN Closed(left) ELSE left]
    /\ Pass
    /\ UNCHANGED <<outbound, inbound, challenges, frames, sends, arrived>>

-----------------------------------------------------------------------------
(* The task of WirelessModule.                                             *)

\* enqueue(): dropped when the queue is full.
Enqueued(to, type) ==
    IF Len(outbound) < OutboundDepth
      THEN Append(outbound, [to |-> to, packet |-> Packet(type, 0)]) ELSE outbound

\* handle_inbound() and send_reply(): the reply goes to the slot.
HandleInbound ==
    /\ inbound # <<>>
    /\ inbound' = Tail(inbound)
    /\ outbound' = Enqueued({Head(inbound).peer}, "reply")
    /\ UNCHANGED <<clients, round, challenges, frames, sends, arrived, got>>

\* forward_can_frames() and broadcast()
ForwardCanFrame ==
    /\ frames < MaxFrames
    /\ frames' = frames + 1
    /\ outbound' = Enqueued(Slots, "can_frame")
    /\ UNCHANGED <<clients, round, inbound, challenges, sends, arrived, got>>

-----------------------------------------------------------------------------
(* The peers and the time.                                                 *)

Socket(i, client) ==
    /\ clients' = [clients EXCEPT ![i] = client]
    /\ UNCHANGED <<round, outbound, inbound, challenges, frames, arrived, got>>

\* A client that has the key proves it for a challenge it has read, perhaps an
\* old one; the proofs of others are right for none.
Proofs(client) == IF client.conn \in KeyHolders \/ client.known = {}
                    THEN client.known ELSE {0}

Send(i, type) ==
    /\ ~clients[i].gone
    /\ sends < MaxSends
    /\ sends' = sends + 1
    /\ \E n \in IF type = "auth_response" THEN Proofs(clients[i]) ELSE {0} :
           Socket(i, [clients[i] EXCEPT !.rx = Append(@, Packet(type, n))])

Leave(i) ==
    /\ ~clients[i].gone
    /\ Socket(i, [clients[i] EXCEPT !.gone = TRUE])
    /\ UNCHANGED sends

\* More than ten seconds have passed since the connection was accepted.
TenSeconds(i) ==
    /\ ~clients[i].late
    /\ Socket(i, [clients[i] EXCEPT !.late = TRUE])
    /\ UNCHANGED sends

-----------------------------------------------------------------------------
Init ==
    /\ clients = [i \in Slots |-> Free]
    /\ stage = "drain" /\ turn = 0
    /\ readable = {} /\ writable = {}
    /\ outbound = <<>> /\ inbound = <<>>
    /\ challenges = 0 /\ frames = 0 /\ sends = 0
    /\ arrived = {} /\ got = [c \in Connections |-> {}]

Server ==
    \/ Drain \/ Select
    \/ Receive \/ HangUp \/ \E n \in 0 .. ClientTxDepth : Flush(n)

Peer(i) ==
    \/ Leave(i) \/ TenSeconds(i)
    \/ \E type \in {"auth_request", "auth_response", "request"} : Send(i, type)

Next ==
    \/ Server
    \/ HandleInbound \/ ForwardCanFrame
    \/ \E i \in Used : Peer(i)

\* The task runs on: it never waits for a client (MSG_DONTWAIT), and select()
\* waits 10 ms at most.  Neither a peer nor its reading can be relied on.
Fairness == WF_vars(Server)

Spec == Init /\ [][Next]_vars /\ Fairness

-----------------------------------------------------------------------------
PacketTypes == {"challenge", "auth_ok", "auth_failed", "auth_required", "reply", "can_frame"}

TypeOK ==
    /\ \A i \in Slots :
         /\ clients[i].conn \in Connections \cup {None}
         /\ clients[i].nonce \in 0 .. challenges
         /\ Len(clients[i].tx) <= ClientTxDepth
         /\ \A k \in DOMAIN clients[i].tx : clients[i].tx[k].type \in PacketTypes
         /\ clients[i].conn = None => clients[i] = Free
    /\ stage \in {"drain", "serve"} /\ turn \in Slots
    /\ readable \subseteq Slots /\ writable \subseteq Slots
    /\ Len(outbound) <= OutboundDepth /\ Len(inbound) <= IngressDepth
    /\ challenges \in Nat /\ frames \in 0 .. MaxFrames /\ sends \in 0 .. MaxSends
    /\ arrived \subseteq Connections
    /\ got \in [Connections -> SUBSET PacketTypes]

\* wireless-gateway.md:89: only a client that proved it has the key is served:
\* its requests are submitted, and replies and CAN frames are sent to it; also
\* when the packet was meant for an earlier client of the slot.
OnlyKeyHoldersServed ==
    /\ \A i \in Slots : clients[i].authenticated => clients[i].conn \in KeyHolders
    /\ \A k \in DOMAIN inbound : inbound[k].conn \in KeyHolders
    /\ \A c \in Connections :
         got[c] \cap {"auth_ok", "reply", "can_frame"} # {} => c \in KeyHolders

\* wireless-gateway.md:85: a connection that is ten seconds old and has not
\* authenticated does not stay open, whatever it is about to do.
LateIsClosed ==
    \A c \in Connections :
        LET open == \E i \in Slots : /\ clients[i].conn = c /\ clients[i].late
                                     /\ ~clients[i].authenticated
        IN  open ~> ~open

\* wireless-gateway.md:28: a client that does not read holds up nobody: what
\* the device has for the others leaves the queue.
OutboundDrains == outbound # <<>> ~> outbound = <<>>
=============================================================================
