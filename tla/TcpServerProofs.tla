--------------------------- MODULE TcpServerProofs ---------------------------
(***************************************************************************)
(* Only clients with the key are served, for any number of slots,          *)
(* connections and packets.  The argument follows a proof from the peer to *)
(* the server: what a peer without the key sends as a proof is 0, which is *)
(* right for no challenge; a pending challenge is never 0; and the slot, the*)
(* queue of requests and the packets under way are used for the connection *)
(* they were made for, or for none.                                        *)
(***************************************************************************)
EXTENDS TcpServer, TLAPS

Request == [type : {"auth_request", "auth_response", "request"}, n : Nat]
Answer == [type : PacketTypes, n : Nat]
Outgoing == [to : SUBSET Slots, packet : Answer]
Incoming == [peer : Slots, conn : KeyHolders]
ClientType ==
    [conn : Connections \cup {None}, authenticated : BOOLEAN, challenge_pending : BOOLEAN,
     nonce : Nat, close_after_tx : BOOLEAN, tx : Seq(Answer),
     rx : Seq(Request), gone : BOOLEAN, late : BOOLEAN, known : SUBSET Nat]

\* What only a client with the key may be sent.
Privileged == {"auth_ok", "reply", "can_frame"}

\* What is true of every slot, of a free one too: None holds no key.
Honest(client) ==
    /\ client.authenticated => client.conn \in KeyHolders
    /\ client.challenge_pending => client.nonce # 0
    /\ \A k \in DOMAIN client.rx :
         client.rx[k].type = "auth_response" /\ client.rx[k].n # 0 => client.conn \in KeyHolders
    /\ \A k \in DOMAIN client.tx :
         client.tx[k].type \in Privileged => client.conn \in KeyHolders

ClientsInv ==
    /\ clients \in [Slots -> ClientType]
    /\ \A i \in Slots : Honest(clients[i])

RoundInv ==
    /\ turn \in Slots
    /\ readable \subseteq Slots
    /\ writable \subseteq Slots

QueuesInv ==
    /\ challenges \in Nat
    /\ outbound \in Seq(Outgoing)
    /\ inbound \in Seq(Incoming)

GotInv ==
    /\ got \in [Connections -> SUBSET PacketTypes]
    /\ \A c \in Connections : got[c] \cap Privileged # {} => c \in KeyHolders

IInv == ClientsInv /\ RoundInv /\ QueuesInv /\ GotInv

-----------------------------------------------------------------------------
(* Operations on one client.                                               *)

LEMMA FreeIsHonest == Free \in ClientType /\ Honest(Free)
  BY ConnectionsAssumption DEF Free, ClientType, Honest, None

\* An honest client stays honest when a packet that is meant for it is queued.
LEMMA SentIsHonest ==
  ASSUME NEW client \in ClientType, Honest(client),
         NEW packet \in Answer, packet.type \in Privileged => client.conn \in KeyHolders
  PROVE  Sent(client, packet) \in ClientType /\ Honest(Sent(client, packet))
  <1> DEFINE tx == Append(client.tx, packet)
             sent == [client EXCEPT !.tx = tx]
  <1>1. CASE ~RoomFor(client)
    BY <1>1, FreeIsHonest DEF Sent
  <1>2. CASE RoomFor(client)
    <2>1. client.tx \in Seq(Answer)
      BY DEF ClientType
    <2>2. /\ tx \in Seq(Answer)
          /\ \A k \in DOMAIN tx : (k \in DOMAIN client.tx /\ tx[k] = client.tx[k]) \/ tx[k] = packet
      BY <2>1
    <2> HIDE DEF tx
    <2>3. /\ sent \in ClientType
          /\ sent.conn = client.conn /\ sent.authenticated = client.authenticated
          /\ sent.challenge_pending = client.challenge_pending
          /\ sent.nonce = client.nonce /\ sent.rx = client.rx /\ sent.tx = tx
      BY <2>2 DEF ClientType
    <2>4. Sent(client, packet) = sent
      BY <1>2 DEF Sent, tx
    <2> HIDE DEF sent
    <2>5. Honest(sent)
      BY <2>2, <2>3 DEF Honest
    <2> QED
      BY <2>3, <2>4, <2>5
  <1> QED
    BY <1>1, <1>2

\* The next slot is a slot.
LEMMA PassKeeps == ASSUME RoundInv, Pass PROVE RoundInv'
  <1>1. 0 \in Slots
    BY DepthAssumption DEF Slots
  <1> QED
    BY <1>1 DEF RoundInv, Pass

LEMMA ServedKeeps ==
  ASSUME ClientsInv, RoundInv, NEW client \in ClientType, Honest(client), Served(client)
  PROVE  ClientsInv' /\ RoundInv'
  <1>1. ClientsInv'
    BY DEF ClientsInv, RoundInv, Served
  <1>2. RoundInv'
    <2>1. CASE client = Free
      BY <2>1, PassKeeps DEF Served
    <2>2. CASE client # Free
      BY <2>2 DEF Served, RoundInv, round
    <2> QED
      BY <2>1, <2>2
  <1> QED
    BY <1>1, <1>2

-----------------------------------------------------------------------------
(* The actions.                                                            *)

LEMMA InitIInv == Init => IInv
  <1> SUFFICES ASSUME Init PROVE IInv
    OBVIOUS
  <1>1. ClientsInv
    BY FreeIsHonest DEF Init, ClientsInv
  <1>2. RoundInv
    BY DepthAssumption DEF Init, RoundInv, Slots
  <1>3. QueuesInv /\ GotInv
    BY DEF Init, QueuesInv, GotInv
  <1> QED
    BY <1>1, <1>2, <1>3 DEF IInv

LEMMA DrainKeeps == ASSUME IInv, Drain PROVE IInv'
  <1>0. Head(outbound) \in Outgoing
    BY DEF IInv, QueuesInv, Drain
  <1>1. PICK to \in SUBSET Slots, packet \in Answer :
           Head(outbound).to = to /\ Head(outbound).packet = packet
    BY <1>0 DEF Outgoing
  <1>2. clients' = [i \in Slots |-> IF i \in to THEN Delivered(clients[i], packet) ELSE clients[i]]
    BY <1>1 DEF Drain
  <1>3. ASSUME NEW i \in Slots
        PROVE  /\ Delivered(clients[i], packet) \in ClientType
               /\ Honest(Delivered(clients[i], packet))
    <2>1. clients[i] \in ClientType /\ Honest(clients[i])
      BY DEF IInv, ClientsInv
    <2>2. CASE clients[i].authenticated
      <3>1. clients[i].conn \in KeyHolders
        BY <2>1, <2>2 DEF Honest
      <3> QED
        BY <2>1, <2>2, <3>1, SentIsHonest DEF Delivered
    <2> QED
      BY <2>1, <2>2 DEF Delivered
  <1>4. ClientsInv'
    BY <1>2, <1>3 DEF IInv, ClientsInv
  <1>5. RoundInv' /\ GotInv'
    BY DEF IInv, RoundInv, GotInv, Drain, round
  <1>6. QueuesInv'
    BY DEF IInv, QueuesInv, Drain
  <1> QED
    BY <1>4, <1>5, <1>6 DEF IInv

LEMMA SelectKeeps == ASSUME IInv, Select PROVE IInv'
  <1>1. Timed \in [Slots -> ClientType] /\ \A i \in Slots : Honest(Timed[i])
    BY FreeIsHonest DEF IInv, ClientsInv, Timed, Closed
  <1>2. ASSUME NEW c \in Connections, Accept(c) PROVE ClientsInv'
    <2>1. CASE clients' = Timed
      BY <1>1, <2>1 DEF ClientsInv
    <2>2. ASSUME NEW i \in Slots, Timed[i].conn = None, clients' = [Timed EXCEPT ![i].conn = c]
          PROVE  ClientsInv'
      <3> DEFINE old == Timed[i]
                 new == [old EXCEPT !.conn = c]
      <3>1. clients' = [Timed EXCEPT ![i] = new]
        BY <1>1, <2>2
      <3>2. old \in ClientType /\ Honest(old) /\ old.conn \notin KeyHolders
        BY <1>1, <2>2, ConnectionsAssumption DEF None
      <3> HIDE DEF old
      <3>3. /\ new \in ClientType /\ new.authenticated = old.authenticated
            /\ new.challenge_pending = old.challenge_pending /\ new.nonce = old.nonce
            /\ new.rx = old.rx /\ new.tx = old.tx
        BY <3>2 DEF ClientType
      <3> HIDE DEF new
      <3>4. Honest(new)
        BY <3>2, <3>3 DEF Honest
      <3> QED
        BY <1>1, <3>1, <3>3, <3>4 DEF ClientsInv
    <2> QED
      BY <1>2, <2>1, <2>2 DEF Accept
  <1>3. ClientsInv'
    BY <1>1, <1>2 DEF Select, ClientsInv
  <1>4. RoundInv'
    BY DEF Select, IInv, RoundInv
  <1>5. QueuesInv' /\ GotInv'
    BY DEF Select, IInv, QueuesInv, GotInv
  <1> QED
    BY <1>3, <1>4, <1>5 DEF IInv

\* What is left after the packet was taken is as honest as before.
LEMMA TakenIsHonest ==
  ASSUME NEW client \in ClientType, Honest(client), client.rx # <<>>
  PROVE  LET packet == Head(client.rx)
             left == [client EXCEPT !.rx = Tail(@)]
         IN  /\ packet \in Request
             /\ packet.type = "auth_response" /\ packet.n # 0 => client.conn \in KeyHolders
             /\ left \in ClientType /\ Honest(left) /\ left.conn = client.conn
  <1> DEFINE left == [client EXCEPT !.rx = Tail(@)]
             rx == Tail(client.rx)
  <1>1. client.rx \in Seq(Request)
    BY DEF ClientType
  <1>2. /\ Head(client.rx) \in Request /\ Head(client.rx) = client.rx[1] /\ 1 \in DOMAIN client.rx
        /\ rx \in Seq(Request)
        /\ \A k \in DOMAIN rx : k + 1 \in DOMAIN client.rx /\ rx[k] = client.rx[k + 1]
    BY <1>1
  <1> HIDE DEF rx
  <1>3. /\ left \in ClientType
        /\ left.conn = client.conn /\ left.authenticated = client.authenticated
        /\ left.challenge_pending = client.challenge_pending
        /\ left.nonce = client.nonce /\ left.rx = rx /\ left.tx = client.tx
    <2>1. left = [client EXCEPT !.rx = rx]
      BY DEF rx
    <2> HIDE DEF left
    <2> QED
      BY <1>2, <2>1 DEF ClientType
  <1> HIDE DEF left
  <1>4. Honest(left)
    BY <1>2, <1>3 DEF Honest
  <1> QED
    BY <1>2, <1>3, <1>4 DEF Honest, left

LEMMA ReceiveKeeps == ASSUME IInv, Receive PROVE IInv'
  <1> DEFINE packet == Head(clients[turn].rx)
             client == [clients[turn] EXCEPT !.rx = Tail(@)]
  <1>1. clients[turn] \in ClientType /\ Honest(clients[turn]) /\ clients[turn].rx # <<>>
    BY DEF IInv, ClientsInv, RoundInv, Receive
  <1>2. /\ packet \in Request
        /\ packet.type = "auth_response" /\ packet.n # 0 => client.conn \in KeyHolders
        /\ client \in ClientType /\ Honest(client)
    BY <1>1, TakenIsHonest
  <1>3. \/ AuthRequest(client, packet) \/ AuthResponse(client, packet)
        \/ NotAuthenticated(client, packet) \/ Submit(client, packet)
    BY DEF Receive
  <1>4. UNCHANGED <<outbound, got>>
    BY DEF Receive
  <1>5. turn \in Slots
    BY DEF IInv, RoundInv
  <1> HIDE DEF packet, client
  <1>6. GotInv'
    BY <1>4 DEF IInv, GotInv
  <1>7. CASE AuthRequest(client, packet)
    <2> DEFINE new == [client EXCEPT !.nonce = challenges + 1,
                                     !.challenge_pending = TRUE,
                                     !.authenticated = FALSE]
               answer == Packet("challenge", challenges + 1)
    <2>1. challenges \in Nat
      BY DEF IInv, QueuesInv
    <2>2. /\ new \in ClientType /\ new.conn = client.conn /\ ~new.authenticated
          /\ new.nonce # 0 /\ new.rx = client.rx /\ new.tx = client.tx
      <3>1. PICK nonce \in Nat : nonce = challenges + 1 /\ nonce # 0
        BY <2>1
      <3>2. new = [client EXCEPT !.nonce = nonce, !.challenge_pending = TRUE,
                                 !.authenticated = FALSE]
        BY <3>1
      <3> HIDE DEF new
      <3> QED
        BY <1>2, <3>1, <3>2 DEF ClientType
    <2>3. answer \in Answer /\ answer.type \notin Privileged
      BY <2>1 DEF Packet, Answer, PacketTypes, Privileged
    <2>4. Served(Sent(new, answer)) /\ challenges' = challenges + 1 /\ inbound' = inbound
      BY <1>7 DEF AuthRequest
    <2> HIDE DEF new, answer
    <2>5. Honest(new)
      BY <1>2, <2>1, <2>2 DEF Honest
    <2>6. Sent(new, answer) \in ClientType /\ Honest(Sent(new, answer))
      BY <2>2, <2>3, <2>5, SentIsHonest
    <2>7. ClientsInv' /\ RoundInv'
      BY <2>4, <2>6, ServedKeeps DEF IInv
    <2>8. QueuesInv'
      BY <1>4, <2>1, <2>4 DEF IInv, QueuesInv
    <2> QED
      BY <1>6, <2>7, <2>8 DEF IInv
  <1>8. CASE AuthResponse(client, packet)
    <2> DEFINE right == packet.n = client.nonce
               new == [client EXCEPT !.challenge_pending = FALSE,
                                     !.authenticated = right,
                                     !.close_after_tx = @ \/ ~right]
               answer == Packet(IF right THEN "auth_ok" ELSE "auth_failed", 0)
    <2>1. packet.type = "auth_response"
      BY <1>8 DEF AuthResponse
    <2>2. Served(IF ~client.challenge_pending THEN Closed(client) ELSE Sent(new, answer))
      BY <1>8 DEF AuthResponse
    <2>3. /\ new \in ClientType /\ new.conn = client.conn /\ new.authenticated = right
          /\ ~new.challenge_pending /\ new.rx = client.rx /\ new.tx = client.tx
      BY <1>2 DEF ClientType
    <2>4. answer \in Answer /\ (answer.type \in Privileged => right)
      BY DEF Packet, Answer, PacketTypes, Privileged
    <2>5. client.challenge_pending /\ right => client.conn \in KeyHolders
      BY <1>2, <2>1 DEF Honest
    <2> HIDE DEF new, answer, right
    <2>6. ASSUME ~client.challenge_pending PROVE ClientsInv' /\ RoundInv'
      BY <2>2, <2>6, FreeIsHonest, ServedKeeps DEF IInv, Closed
    <2>7. ASSUME client.challenge_pending PROVE ClientsInv' /\ RoundInv'
      <3>1. Honest(new)
        BY <1>2, <2>3, <2>5, <2>7 DEF Honest
      <3>2. Sent(new, answer) \in ClientType /\ Honest(Sent(new, answer))
        BY <2>3, <2>4, <2>5, <2>7, <3>1, SentIsHonest
      <3> QED
        BY <2>2, <2>7, <3>2, ServedKeeps DEF IInv
    <2>8. QueuesInv'
      BY <1>4, <1>8 DEF IInv, QueuesInv, AuthResponse
    <2>9. ClientsInv' /\ RoundInv'
      BY <2>6, <2>7
    <2> QED
      BY <1>6, <2>8, <2>9 DEF IInv
  <1>9. CASE NotAuthenticated(client, packet)
    <2> DEFINE answer == Packet("auth_required", 0)
    <2>1. answer \in Answer /\ answer.type \notin Privileged
      BY DEF Packet, Answer, PacketTypes, Privileged
    <2>2. Served(Sent(client, answer))
      BY <1>9 DEF NotAuthenticated
    <2> HIDE DEF answer
    <2>3. Sent(client, answer) \in ClientType /\ Honest(Sent(client, answer))
      BY <1>2, <2>1, SentIsHonest
    <2>4. ClientsInv' /\ RoundInv'
      BY <2>2, <2>3, ServedKeeps DEF IInv
    <2>5. QueuesInv'
      BY <1>4, <1>9 DEF IInv, QueuesInv, NotAuthenticated
    <2> QED
      BY <1>6, <2>4, <2>5 DEF IInv
  <1>10. CASE Submit(client, packet)
    <2>1. client.conn \in KeyHolders
      BY <1>2, <1>10 DEF Submit, Honest
    <2>2. Served(client) \/ Served(Closed(client))
      BY <1>10 DEF Submit
    <2>3. ClientsInv' /\ RoundInv'
      BY <1>2, <2>2, FreeIsHonest, ServedKeeps DEF IInv, Closed
    <2>4. [peer |-> turn, conn |-> client.conn] \in Incoming
      BY <1>5, <2>1 DEF Incoming
    <2>5. QueuesInv'
      BY <1>4, <1>10, <2>4 DEF IInv, QueuesInv, Submit
    <2> QED
      BY <1>6, <2>3, <2>5 DEF IInv
  <1> QED
    BY <1>3, <1>7, <1>8, <1>9, <1>10

LEMMA HangUpKeeps == ASSUME IInv, HangUp PROVE IInv'
  <1>1. ClientsInv' /\ RoundInv'
    BY FreeIsHonest, ServedKeeps DEF IInv, HangUp, Closed
  <1>2. QueuesInv' /\ GotInv'
    BY DEF IInv, QueuesInv, GotInv, HangUp
  <1> QED
    BY <1>1, <1>2 DEF IInv

LEMMA FlushKeeps == ASSUME IInv, NEW n \in Nat, Flush(n) PROVE IInv'
  <1> DEFINE client == clients[turn]
             read == SubSeq(client.tx, 1, n)
             rest == SubSeq(client.tx, n + 1, Len(client.tx))
             known == client.known \cup Nonces(read)
             left == [client EXCEPT !.tx = rest, !.known = known]
  <1>1. client \in ClientType /\ Honest(client) /\ turn \in Slots
    BY DEF IInv, ClientsInv, RoundInv
  <1>2. client.tx \in Seq(Answer) /\ n <= Len(client.tx)
    BY <1>1 DEF ClientType, Flush
  <1>3. /\ read \in Seq(Answer) /\ DOMAIN read = 1 .. n
        /\ \A k \in 1 .. n : k \in DOMAIN client.tx /\ read[k] = client.tx[k]
    BY <1>2
  <1>4. /\ rest \in Seq(Answer)
        /\ \A k \in DOMAIN rest : k + n \in DOMAIN client.tx /\ rest[k] = client.tx[k + n]
    BY <1>2
  <1>5. known \in SUBSET Nat
    BY <1>1, <1>3 DEF ClientType, Nonces, Answer
  <1>6. /\ got' = IF n = 0 THEN got
                  ELSE [got EXCEPT ![client.conn] = @ \cup {read[k].type : k \in 1 .. n}]
        /\ clients' = [clients EXCEPT ![turn] =
               IF left.close_after_tx /\ left.tx = <<>> THEN Closed(left) ELSE left]
        /\ Pass /\ UNCHANGED <<outbound, inbound, challenges>>
        /\ n > 0 => client.conn # None
    BY DEF Flush, Used
  <1> HIDE DEF read, rest, known
  <1>7. /\ left \in ClientType
        /\ left.conn = client.conn /\ left.authenticated = client.authenticated
        /\ left.challenge_pending = client.challenge_pending
        /\ left.nonce = client.nonce /\ left.rx = client.rx /\ left.tx = rest
    BY <1>1, <1>4, <1>5 DEF ClientType
  <1>8. Honest(left)
    <2> HIDE DEF left, client
    <2> QED
      BY <1>1, <1>4, <1>7 DEF Honest
  <1> HIDE DEF left
  <1>9. ClientsInv'
    BY <1>1, <1>6, <1>7, <1>8, FreeIsHonest DEF IInv, ClientsInv, Closed
  <1>10. GotInv'
    <2>1. CASE n = 0
      BY <1>6, <2>1 DEF IInv, GotInv
    <2>2. CASE n # 0
      <3> DEFINE types == {read[k].type : k \in 1 .. n}
      <3>1. client.conn \in Connections
        BY <1>1, <1>6, <2>2 DEF ClientType
      <3>2. ASSUME NEW k \in 1 .. n PROVE read[k].type \in PacketTypes
        <4>1. client.tx[k] \in Answer /\ read[k] = client.tx[k]
          BY <1>2, <1>3
        <4> QED
          BY <4>1 DEF Answer
      <3>3. ASSUME NEW k \in 1 .. n, read[k].type \in Privileged
            PROVE  client.conn \in KeyHolders
        <4>1. k \in DOMAIN client.tx /\ client.tx[k].type \in Privileged
          BY <1>3, <3>3
        <4> QED
          BY <1>1, <4>1 DEF Honest
      <3> HIDE DEF client, types
      <3>4. got' = [got EXCEPT ![client.conn] = @ \cup types]
        BY <1>6, <2>2 DEF types
      <3>5. types \cap Privileged # {} => client.conn \in KeyHolders
        BY <3>3 DEF types
      <3>6. types \subseteq PacketTypes
        BY <3>2 DEF types
      <3> QED
        BY <3>1, <3>4, <3>5, <3>6 DEF IInv, GotInv
    <2> QED
      BY <2>1, <2>2
  <1>11. RoundInv'
    BY <1>6, PassKeeps DEF IInv
  <1>12. QueuesInv'
    BY <1>6 DEF IInv, QueuesInv
  <1> QED
    BY <1>9, <1>10, <1>11, <1>12 DEF IInv

\* What the task of WirelessModule queues is well formed.
LEMMA EnqueuedKeeps ==
  ASSUME QueuesInv, NEW to \in SUBSET Slots, NEW type \in PacketTypes
  PROVE  Enqueued(to, type) \in Seq(Outgoing)
  <1>1. [to |-> to, packet |-> Packet(type, 0)] \in Outgoing
    BY DEF Outgoing, Packet, Answer
  <1> QED
    BY <1>1 DEF QueuesInv, Enqueued

LEMMA HandleInboundKeeps == ASSUME IInv, HandleInbound PROVE IInv'
  <1>1. Head(inbound) \in Incoming /\ inbound' \in Seq(Incoming)
    BY DEF IInv, QueuesInv, HandleInbound
  <1>2. {Head(inbound).peer} \in SUBSET Slots /\ "reply" \in PacketTypes
    BY <1>1 DEF Incoming, PacketTypes
  <1>3. outbound' \in Seq(Outgoing)
    BY <1>2, EnqueuedKeeps DEF IInv, HandleInbound
  <1>4. QueuesInv'
    BY <1>1, <1>3 DEF IInv, QueuesInv, HandleInbound
  <1>5. ClientsInv' /\ RoundInv' /\ GotInv'
    BY DEF IInv, ClientsInv, RoundInv, GotInv, HandleInbound, round
  <1> QED
    BY <1>4, <1>5 DEF IInv

LEMMA ForwardCanFrameKeeps == ASSUME IInv, ForwardCanFrame PROVE IInv'
  <1>1. outbound' \in Seq(Outgoing)
    BY EnqueuedKeeps DEF IInv, ForwardCanFrame, PacketTypes
  <1>2. QueuesInv'
    BY <1>1 DEF IInv, QueuesInv, ForwardCanFrame
  <1>3. ClientsInv' /\ RoundInv' /\ GotInv'
    BY DEF IInv, ClientsInv, RoundInv, GotInv, ForwardCanFrame, round
  <1> QED
    BY <1>2, <1>3 DEF IInv

\* A peer changes what only its own socket holds.
LEMMA SocketKeeps ==
  ASSUME IInv, NEW i \in Slots, NEW client \in ClientType, Honest(client), Socket(i, client)
  PROVE  IInv'
  <1>1. ClientsInv'
    BY DEF IInv, ClientsInv, Socket
  <1>2. RoundInv' /\ QueuesInv' /\ GotInv'
    BY DEF IInv, RoundInv, QueuesInv, GotInv, Socket, round
  <1> QED
    BY <1>1, <1>2 DEF IInv

\* A peer without the key has no proof but 0.
LEMMA SendKeeps ==
  ASSUME IInv, NEW i \in Used, NEW type \in {"auth_request", "auth_response", "request"},
         Send(i, type)
  PROVE  IInv'
  <1> DEFINE client == clients[i]
  <1>1. i \in Slots /\ client \in ClientType /\ Honest(client)
    BY DEF IInv, ClientsInv, Used
  <1>2. PICK n \in IF type = "auth_response" THEN Proofs(client) ELSE {0} :
           Socket(i, [client EXCEPT !.rx = Append(@, Packet(type, n))])
    BY DEF Send
  <1>3. n \in Nat /\ (type = "auth_response" /\ n # 0 => client.conn \in KeyHolders)
    BY <1>1, <1>2 DEF Proofs, ClientType
  <1> DEFINE packet == Packet(type, n)
             rx == Append(client.rx, packet)
             new == [client EXCEPT !.rx = rx]
  <1>4. packet \in Request /\ packet.type = type /\ packet.n = n
    BY <1>3 DEF Request, Packet
  <1> HIDE DEF packet
  <1>5. /\ rx \in Seq(Request)
        /\ \A k \in DOMAIN rx : (k \in DOMAIN client.rx /\ rx[k] = client.rx[k]) \/ rx[k] = packet
    BY <1>1, <1>4 DEF ClientType
  <1>6. Socket(i, new)
    BY <1>2 DEF packet
  <1> HIDE DEF rx
  <1>7. /\ new \in ClientType
        /\ new.conn = client.conn /\ new.authenticated = client.authenticated
        /\ new.challenge_pending = client.challenge_pending
        /\ new.nonce = client.nonce /\ new.rx = rx /\ new.tx = client.tx
    BY <1>1, <1>5 DEF ClientType
  <1> HIDE DEF new, client
  <1>8. Honest(new)
    BY <1>1, <1>3, <1>4, <1>5, <1>7 DEF Honest
  <1> QED
    BY <1>1, <1>6, <1>7, <1>8, SocketKeeps

LEMMA SocketFateKeeps ==
  ASSUME IInv, NEW i \in Used, Leave(i) \/ TenSeconds(i)
  PROVE  IInv'
  <1> DEFINE client == clients[i]
             gone == [client EXCEPT !.gone = TRUE]
             late == [client EXCEPT !.late = TRUE]
  <1>1. i \in Slots /\ client \in ClientType /\ Honest(client)
    BY DEF IInv, ClientsInv, Used
  <1>2. ASSUME NEW new \in {gone, late} PROVE new \in ClientType /\ Honest(new)
    <2>1. /\ new \in ClientType
          /\ new.conn = client.conn /\ new.authenticated = client.authenticated
          /\ new.challenge_pending = client.challenge_pending
          /\ new.nonce = client.nonce /\ new.rx = client.rx /\ new.tx = client.tx
      BY <1>1 DEF ClientType
    <2> HIDE DEF client, gone, late
    <2> QED
      BY <1>1, <2>1 DEF Honest
  <1>3. Socket(i, gone) \/ Socket(i, late)
    BY DEF Leave, TenSeconds
  <1> HIDE DEF gone, late
  <1> QED
    BY <1>1, <1>2, <1>3, SocketKeeps

LEMMA NextIInv == IInv /\ [Next]_vars => IInv'
  <1> SUFFICES ASSUME IInv, [Next]_vars PROVE IInv'
    OBVIOUS
  <1>1. CASE Server
    BY <1>1, DrainKeeps, SelectKeeps, ReceiveKeeps, HangUpKeeps, FlushKeeps, DepthAssumption
       DEF Server
  <1>2. CASE HandleInbound
    BY <1>2, HandleInboundKeeps
  <1>3. CASE ForwardCanFrame
    BY <1>3, ForwardCanFrameKeeps
  <1>4. ASSUME NEW i \in Used, Peer(i) PROVE IInv'
    BY <1>4, SendKeeps, SocketFateKeeps DEF Peer
  <1>5. CASE UNCHANGED vars
    BY <1>5 DEF vars, IInv, ClientsInv, RoundInv, QueuesInv, GotInv
  <1> QED
    BY <1>1, <1>2, <1>3, <1>4, <1>5 DEF Next

\* Whatever the number of clients and however they, the server and the task of
\* WirelessModule interleave, a client without the key is never authenticated,
\* has no request submitted and receives neither a reply nor a CAN frame.
THEOREM KeyHoldersServed == Spec => []OnlyKeyHoldersServed
  <1>1. IInv => OnlyKeyHoldersServed
    <2> SUFFICES ASSUME IInv PROVE OnlyKeyHoldersServed
      OBVIOUS
    <2>1. ASSUME NEW i \in Slots, clients[i].authenticated PROVE clients[i].conn \in KeyHolders
      BY <2>1 DEF IInv, ClientsInv, Honest
    <2>2. ASSUME NEW k \in DOMAIN inbound PROVE inbound[k].conn \in KeyHolders
      <3>1. inbound[k] \in Incoming
        BY DEF IInv, QueuesInv
      <3> QED
        BY <3>1 DEF Incoming
    <2>3. ASSUME NEW c \in Connections, got[c] \cap {"auth_ok", "reply", "can_frame"} # {}
          PROVE  c \in KeyHolders
      BY <2>3 DEF IInv, GotInv, Privileged
    <2> QED
      BY <2>1, <2>2, <2>3 DEF OnlyKeyHoldersServed
  <1> QED
    BY <1>1, InitIInv, NextIInv, PTL DEF Spec
-----------------------------------------------------------------------------
(* Types and bounds.                                                       *)

Fits(client, drawn) ==
    /\ Len(client.tx) <= ClientTxDepth
    /\ client.nonce <= drawn
    /\ client.conn = None => client = Free

BInv ==
    /\ IInv
    /\ \A i \in Slots : Fits(clients[i], challenges)
    /\ stage \in {"drain", "serve"}
    /\ Len(outbound) <= OutboundDepth /\ Len(inbound) <= IngressDepth
    /\ frames \in 0 .. MaxFrames /\ sends \in 0 .. MaxSends
    /\ arrived \subseteq Connections

LEMMA FreeFits == \A drawn \in Nat : Fits(Free, drawn)
  BY DepthAssumption DEF Fits, Free

LEMMA KeyHolderIsSomeone == \A c \in Connections : c # None
  BY ConnectionsAssumption DEF None

LEMMA SentFits ==
  ASSUME NEW client \in ClientType, NEW drawn \in Nat, Fits(client, drawn), client.conn # None,
         NEW packet
  PROVE  Fits(Sent(client, packet), drawn)
  <1>1. CASE ~RoomFor(client)
    BY <1>1, FreeFits DEF Sent
  <1>2. CASE RoomFor(client)
    <2> DEFINE tx == Append(client.tx, packet)
               sent == [client EXCEPT !.tx = tx]
    <2>1. client.tx \in Seq(Answer)
      BY DEF ClientType
    <2>2. Len(tx) <= ClientTxDepth
      BY <1>2, <2>1, DepthAssumption DEF RoomFor
    <2> HIDE DEF tx
    <2>3. sent.tx = tx /\ sent.nonce = client.nonce /\ sent.conn = client.conn
      BY DEF ClientType
    <2>4. Sent(client, packet) = sent
      BY <1>2 DEF Sent, tx
    <2> QED
      BY <2>2, <2>3, <2>4 DEF Fits
  <1> QED
    BY <1>1, <1>2

\* The server puts a client that fits into the slot it serves.
LEMMA ServedFits ==
  ASSUME BInv, IInv', NEW client, Served(client), challenges' \in Nat, challenges <= challenges',
         Fits(client, challenges')
  PROVE  (\A i \in Slots : Fits(clients[i], challenges))' /\ stage' \in {"drain", "serve"}
  <1>1. stage' \in {"drain", "serve"}
    BY DEF BInv, Served, Pass, round
  <1>2. ASSUME NEW i \in Slots PROVE Fits(clients[i], challenges)'
    <2>1. Fits(clients[i], challenges) /\ clients[i].nonce \in Nat /\ challenges \in Nat
      BY DEF BInv, IInv, ClientsInv, QueuesInv, ClientType
    <2>2. Fits(clients[i], challenges')
      BY <2>1 DEF Fits
    <2>3. clients'[i] \in {clients[i], client}
      BY DEF BInv, IInv, ClientsInv, Served
    <2> QED
      BY <2>2, <2>3 DEF Fits
  <1> QED
    BY <1>1, <1>2

LEMMA RoundFits == ASSUME BInv, Drain \/ Select PROVE BInv'
  <1>1. IInv'
    BY DrainKeeps, SelectKeeps DEF BInv
  <1>2. CASE Drain
    <2>1. ASSUME NEW i \in Slots PROVE Fits(clients[i], challenges)'
      <3>1. clients[i] \in ClientType /\ Fits(clients[i], challenges) /\ challenges \in Nat
        BY DEF BInv, IInv, ClientsInv, QueuesInv
      <3>2. clients[i].authenticated => clients[i].conn # None
        BY KeyHolderIsSomeone, ConnectionsAssumption DEF BInv, IInv, ClientsInv, Honest
      <3>3. Fits(Delivered(clients[i], Head(outbound).packet), challenges)
        BY <3>1, <3>2, SentFits DEF Delivered
      <3>4. clients'[i] \in {clients[i], Delivered(clients[i], Head(outbound).packet)}
            /\ challenges' = challenges
        BY <1>2 DEF Drain
      <3> QED
        BY <3>1, <3>3, <3>4 DEF Fits
    <2>2. Len(outbound') <= OutboundDepth
      <3>1. outbound \in Seq(Outgoing) /\ outbound # <<>> /\ outbound' = Tail(outbound)
        BY <1>2 DEF BInv, IInv, QueuesInv, Drain
      <3> QED
        BY <3>1, DepthAssumption DEF BInv
    <2> QED
      BY <1>1, <1>2, <2>1, <2>2 DEF BInv, Drain, round
  <1>3. CASE Select
    <2>1. challenges' = challenges /\ challenges \in Nat
      BY <1>3 DEF Select, BInv, IInv, QueuesInv
    <2>2. \A i \in Slots : Timed[i] \in ClientType /\ Fits(Timed[i], challenges)
      BY <2>1, FreeFits, FreeIsHonest DEF Timed, Closed, BInv, IInv, ClientsInv
    <2>3. ASSUME NEW c \in Connections, NEW i \in Slots, Timed[i].conn = None,
                 clients' = [Timed EXCEPT ![i].conn = c], NEW j \in Slots
          PROVE  Fits(clients'[j], challenges)
      <3>1. Timed[i] = Free
        BY <2>2, <2>3 DEF Fits
      <3>2. clients'[j] = IF j = i THEN [Free EXCEPT !.conn = c] ELSE Timed[j]
        BY <2>3, <3>1 DEF Timed
      <3>3. Fits([Free EXCEPT !.conn = c], challenges)
        BY <2>1, KeyHolderIsSomeone, DepthAssumption DEF Fits, Free
      <3> QED
        BY <2>2, <3>2, <3>3
    <2>4. \/ clients' = Timed
          \/ \E c \in Connections, i \in Slots :
                Timed[i].conn = None /\ clients' = [Timed EXCEPT ![i].conn = c]
      BY <1>3 DEF Select, Accept
    <2>5. \A j \in Slots : Fits(clients'[j], challenges)
      BY <2>2, <2>3, <2>4
    <2>6. arrived' \subseteq Connections
      BY <1>3 DEF Select, Accept, BInv
    <2> QED
      BY <1>1, <1>3, <2>1, <2>5, <2>6 DEF BInv, Select
  <1> QED
    BY <1>2, <1>3

LEMMA ReceiveFits == ASSUME BInv, Receive PROVE BInv'
  <1> DEFINE packet == Head(clients[turn].rx)
             client == [clients[turn] EXCEPT !.rx = Tail(@)]
  <1>1. IInv'
    BY ReceiveKeeps DEF BInv
  <1>2. /\ clients[turn] \in ClientType /\ Honest(clients[turn]) /\ clients[turn].rx # <<>>
        /\ Fits(clients[turn], challenges) /\ clients[turn].conn # None /\ challenges \in Nat
    BY DEF BInv, IInv, ClientsInv, RoundInv, QueuesInv, Receive, Used
  <1>3. client \in ClientType /\ client.conn # None /\ Fits(client, challenges)
    <2>1. client \in ClientType
      BY <1>2, TakenIsHonest
    <2>2. client.tx = clients[turn].tx /\ client.nonce = clients[turn].nonce
          /\ client.conn = clients[turn].conn
      BY <1>2 DEF ClientType
    <2> QED
      BY <1>2, <2>1, <2>2 DEF Fits
  <1>4. \/ AuthRequest(client, packet) \/ AuthResponse(client, packet)
        \/ NotAuthenticated(client, packet) \/ Submit(client, packet)
    BY DEF Receive
  <1>5. UNCHANGED <<outbound, frames, sends, arrived>>
    BY DEF Receive
  <1> HIDE DEF packet, client
  <1>6. /\ (\A i \in Slots : Fits(clients[i], challenges))'
        /\ stage' \in {"drain", "serve"}
        /\ Len(inbound') <= IngressDepth
    <2>1. CASE AuthRequest(client, packet)
      <3> DEFINE new == [client EXCEPT !.nonce = challenges + 1, !.challenge_pending = TRUE,
                                       !.authenticated = FALSE]
      <3>1. new \in ClientType /\ new.conn # None /\ Fits(new, challenges + 1)
        <4>1. PICK nonce \in Nat : nonce = challenges + 1
          BY <1>2
        <4>2. new = [client EXCEPT !.nonce = nonce, !.challenge_pending = TRUE,
                                   !.authenticated = FALSE]
          BY <4>1
        <4> HIDE DEF new
        <4>3. new \in ClientType /\ new.conn = client.conn /\ new.tx = client.tx
              /\ new.nonce = nonce
          BY <1>3, <4>2 DEF ClientType
        <4> QED
          BY <1>3, <4>1, <4>3 DEF Fits
      <3> HIDE DEF new
      <3>2. Served(Sent(new, Packet("challenge", challenges + 1)))
            /\ challenges' = challenges + 1 /\ inbound' = inbound
        BY <2>1 DEF AuthRequest, new
      <3>3. Fits(Sent(new, Packet("challenge", challenges + 1)), challenges')
        BY <1>2, <3>1, <3>2, SentFits
      <3> QED
        BY <1>1, <1>2, <3>2, <3>3, ServedFits DEF BInv
    <2>2. CASE AuthResponse(client, packet)
      <3> DEFINE right == packet.n = client.nonce
                 new == [client EXCEPT !.challenge_pending = FALSE, !.authenticated = right,
                                       !.close_after_tx = @ \/ ~right]
                 answer == Packet(IF right THEN "auth_ok" ELSE "auth_failed", 0)
      <3>1. new \in ClientType /\ new.conn # None /\ Fits(new, challenges)
        <4>1. new \in ClientType /\ new.conn = client.conn /\ new.tx = client.tx
              /\ new.nonce = client.nonce
          BY <1>3 DEF ClientType
        <4> QED
          BY <1>3, <4>1 DEF Fits
      <3>2. Served(IF ~client.challenge_pending THEN Closed(client) ELSE Sent(new, answer))
            /\ challenges' = challenges /\ inbound' = inbound
        BY <2>2 DEF AuthResponse
      <3> HIDE DEF new, answer
      <3>3. Fits(Sent(new, answer), challenges') /\ Fits(Closed(client), challenges')
        BY <1>2, <3>1, <3>2, SentFits, FreeFits DEF Closed
      <3> QED
        BY <1>1, <1>2, <3>2, <3>3, ServedFits DEF BInv
    <2>3. CASE NotAuthenticated(client, packet)
      <3>1. Served(Sent(client, Packet("auth_required", 0)))
            /\ challenges' = challenges /\ inbound' = inbound
        BY <2>3 DEF NotAuthenticated
      <3>2. Fits(Sent(client, Packet("auth_required", 0)), challenges')
        BY <1>2, <1>3, <3>1, SentFits
      <3> QED
        BY <1>1, <1>2, <3>1, <3>2, ServedFits DEF BInv
    <2>4. CASE Submit(client, packet)
      <3>1. (Served(client) \/ Served(Closed(client))) /\ challenges' = challenges
        BY <2>4 DEF Submit
      <3>2. Fits(client, challenges') /\ Fits(Closed(client), challenges')
        BY <1>2, <1>3, <3>1, FreeFits DEF Closed
      <3>3. Len(inbound') <= IngressDepth
        <4>1. inbound \in Seq(Incoming)
          BY DEF BInv, IInv, QueuesInv
        <4> QED
          BY <2>4, <4>1, DepthAssumption DEF Submit, BInv
      <3> QED
        BY <1>1, <1>2, <3>1, <3>2, <3>3, ServedFits
    <2> QED
      BY <1>4, <2>1, <2>2, <2>3, <2>4
  <1> QED
    BY <1>1, <1>5, <1>6 DEF BInv

LEMMA HangUpFits == ASSUME BInv, HangUp PROVE BInv'
  <1>1. IInv'
    BY HangUpKeeps DEF BInv
  <1>2. challenges' = challenges /\ challenges \in Nat
    BY DEF HangUp, BInv, IInv, QueuesInv
  <1>3. (\A i \in Slots : Fits(clients[i], challenges))' /\ stage' \in {"drain", "serve"}
    BY <1>1, <1>2, FreeFits, ServedFits DEF HangUp, Closed
  <1> QED
    BY <1>1, <1>3 DEF BInv, HangUp

LEMMA FlushFits == ASSUME BInv, NEW n \in Nat, Flush(n) PROVE BInv'
  <1> DEFINE client == clients[turn]
             rest == SubSeq(client.tx, n + 1, Len(client.tx))
             known == client.known \cup Nonces(SubSeq(client.tx, 1, n))
             left == [client EXCEPT !.tx = rest, !.known = known]
  <1>1. IInv'
    BY FlushKeeps DEF BInv
  <1>2. /\ client \in ClientType /\ turn \in Slots /\ Fits(client, challenges)
        /\ challenges \in Nat /\ challenges' = challenges
    BY DEF BInv, IInv, ClientsInv, RoundInv, QueuesInv, Flush
  <1>3. client.tx \in Seq(Answer) /\ n <= Len(client.tx)
    BY <1>2 DEF ClientType, Flush
  <1>4. Len(rest) <= Len(client.tx)
    BY <1>3
  <1>5. client = Free => left = Free
    <2> SUFFICES ASSUME client = Free PROVE left = Free
      OBVIOUS
    <2>1. n = 0 /\ client.tx = <<>> /\ client.known = {}
      BY <1>3 DEF Free
    <2>2. SubSeq(client.tx, 1, n) = <<>> /\ rest = <<>>
      BY <2>1
    <2>3. known = {}
      BY <2>1, <2>2 DEF Nonces
    <2>4. left = [Free EXCEPT !.tx = <<>>, !.known = {}]
      BY <2>2, <2>3
    <2> HIDE DEF left
    <2> QED
      BY <2>4 DEF Free
  <1>6. clients' = [clients EXCEPT ![turn] =
               IF left.close_after_tx /\ left.tx = <<>> THEN Closed(left) ELSE left]
    BY DEF Flush
  <1>7. stage' \in {"drain", "serve"}
    BY DEF Flush, Pass, BInv
  <1> HIDE DEF rest, known
  <1>8. Fits(left, challenges)
    <2>1. left.tx = rest /\ left.nonce = client.nonce /\ left.conn = client.conn
      BY <1>2 DEF ClientType
    <2>2. Len(left.tx) <= ClientTxDepth
      BY <1>2, <1>3, <1>4, <2>1, DepthAssumption DEF Fits, rest
    <2> QED
      BY <1>2, <1>5, <2>1, <2>2 DEF Fits
  <1> HIDE DEF left, client
  <1>9. ASSUME NEW i \in Slots PROVE Fits(clients[i], challenges)'
    <2>1. clients'[i] \in {clients[i], left, Free}
      BY <1>6 DEF Closed, BInv, IInv, ClientsInv
    <2>2. Fits(clients[i], challenges)
      BY DEF BInv
    <2> QED
      BY <1>2, <1>8, <2>1, <2>2, FreeFits
  <1> QED
    BY <1>1, <1>7, <1>9 DEF BInv, Flush

LEMMA WirelessFits == ASSUME BInv, HandleInbound \/ ForwardCanFrame PROVE BInv'
  <1>1. IInv'
    BY HandleInboundKeeps, ForwardCanFrameKeeps DEF BInv
  <1>2. inbound \in Seq(Incoming) /\ outbound \in Seq(Outgoing)
    BY DEF BInv, IInv, QueuesInv
  <1>3. \A to, type : Len(Enqueued(to, type)) <= OutboundDepth
    BY <1>2, DepthAssumption DEF Enqueued, BInv
  <1>4. Len(outbound') <= OutboundDepth
    BY <1>3 DEF HandleInbound, ForwardCanFrame
  <1>5. Len(inbound') <= IngressDepth
    BY <1>2, DepthAssumption DEF HandleInbound, ForwardCanFrame, BInv
  <1>6. frames' \in 0 .. MaxFrames
    BY BoundsAssumption DEF HandleInbound, ForwardCanFrame, BInv
  <1> QED
    BY <1>1, <1>4, <1>5, <1>6 DEF BInv, HandleInbound, ForwardCanFrame, round

LEMMA PeerFits == ASSUME BInv, NEW i \in Used, Peer(i) PROVE BInv'
  <1>1. IInv'
    BY SendKeeps, SocketFateKeeps DEF BInv, Peer
  <1>2. i \in Slots /\ clients[i] \in ClientType /\ Fits(clients[i], challenges)
        /\ clients[i].conn # None
    BY DEF BInv, IInv, ClientsInv, Used
  <1>3. PICK new : /\ Socket(i, new) /\ new.tx = clients[i].tx
                   /\ new.nonce = clients[i].nonce /\ new.conn = clients[i].conn
    <2>1. CASE Leave(i)
      <3>1. Socket(i, [clients[i] EXCEPT !.gone = TRUE])
        BY <2>1 DEF Leave
      <3> QED
        BY <1>2, <3>1 DEF ClientType
    <2>2. CASE TenSeconds(i)
      <3>1. Socket(i, [clients[i] EXCEPT !.late = TRUE])
        BY <2>2 DEF TenSeconds
      <3> QED
        BY <1>2, <3>1 DEF ClientType
    <2>3. ASSUME NEW type, Send(i, type)
          PROVE  \E rx : Socket(i, [clients[i] EXCEPT !.rx = rx])
      BY <2>3 DEF Send
    <2>4. ASSUME NEW rx, Socket(i, [clients[i] EXCEPT !.rx = rx])
          PROVE  \E new : /\ Socket(i, new) /\ new.tx = clients[i].tx
                          /\ new.nonce = clients[i].nonce /\ new.conn = clients[i].conn
      BY <1>2, <2>4 DEF ClientType
    <2> QED
      BY <2>1, <2>2, <2>3, <2>4 DEF Peer
  <1>4. ASSUME NEW j \in Slots PROVE Fits(clients[j], challenges)'
    <2>1. clients'[j] \in {clients[j], new} /\ challenges' = challenges
      BY <1>3 DEF Socket, BInv, IInv, ClientsInv
    <2>2. Fits(new, challenges) /\ Fits(clients[j], challenges)
      BY <1>2, <1>3 DEF Fits, BInv
    <2> QED
      BY <2>1, <2>2
  <1>5. sends' \in 0 .. MaxSends
    BY BoundsAssumption DEF Peer, Leave, TenSeconds, Send, BInv
  <1> QED
    BY <1>1, <1>3, <1>4, <1>5 DEF BInv, Socket, round

\* Every variable keeps its type: no ring and no queue holds more than its
\* depth, a nonce is one that was drawn, and a slot without a client is clean.
THEOREM TypeCorrect == Spec => []TypeOK
  <1>1. Init => BInv
    BY InitIInv, FreeFits, BoundsAssumption, DepthAssumption DEF Init, BInv
  <1>2. BInv /\ [Next]_vars => BInv'
    <2> SUFFICES ASSUME BInv, [Next]_vars PROVE BInv'
      OBVIOUS
    <2>1. CASE UNCHANGED vars
      BY <2>1, NextIInv DEF vars, BInv
    <2>2. CASE Server
      BY <2>2, RoundFits, ReceiveFits, HangUpFits, FlushFits, DepthAssumption DEF Server
    <2> QED
      BY <2>1, <2>2, WirelessFits, PeerFits DEF Next
  <1>3. BInv => TypeOK
    <2> SUFFICES ASSUME BInv PROVE TypeOK
      OBVIOUS
    <2>1. ASSUME NEW i \in Slots
          PROVE  /\ clients[i].conn \in Connections \cup {None}
                 /\ clients[i].nonce \in 0 .. challenges
                 /\ Len(clients[i].tx) <= ClientTxDepth
                 /\ \A k \in DOMAIN clients[i].tx : clients[i].tx[k].type \in PacketTypes
                 /\ clients[i].conn = None => clients[i] = Free
      <3>1. clients[i] \in ClientType /\ Fits(clients[i], challenges) /\ challenges \in Nat
        BY DEF BInv, IInv, ClientsInv, QueuesInv
      <3>2. \A k \in DOMAIN clients[i].tx : clients[i].tx[k] \in Answer
        BY <3>1 DEF ClientType
      <3> QED
        BY <3>1, <3>2 DEF Fits, ClientType, Answer
    <2> QED
      BY <2>1 DEF BInv, IInv, RoundInv, QueuesInv, GotInv, TypeOK
  <1> QED
    BY <1>1, <1>2, <1>3, PTL DEF Spec
=============================================================================
