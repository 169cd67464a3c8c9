------------------------------- MODULE Transfer -------------------------------
(***************************************************************************)
(* What a peer sends, from the call to what the other peer's code is given:*)
(* a payload is cut into fragments if it is too large (Fragmenter.ts),     *)
(* every frame is written with the codec (Codecs.ts), the bytes travel     *)
(* over TCP, which cuts and joins them at will, or as WebSocket messages,  *)
(* the transport gathers whole frames and reads them, the stream puts the  *)
(* payload together again (Reassembler.ts), and a routed request is given  *)
(* to the handler its metadata names (rsocket-messaging).                  *)
(*                                                                         *)
(* One direction of one connection: the frames of the connection, and one  *)
(* stream.  The stream's state machine is in the modules of the streams;   *)
(* here a payload frame that ends a payload delivers it.                   *)
(***************************************************************************)
EXTENDS Fragmentation, CompositeMetadata

CONSTANTS
    FragmentSizes,   \* maxOutboundFragmentSize: 0 is never
    Transports,      \* a subset of {"tcp", "websocket"}
    Messages,        \* what may be sent first: frames and payloads
    Followers,       \* what may be sent next
    Chunks,          \* how many bytes may arrive at once, but for all of them
    Handlers         \* the responder's routes: sets of [path, type]

\* With less room than this a request's fragment of metadata is empty, and
\* the generators do not come to an end.
ASSUME SizeAssumption ==
    \A s \in FragmentSizes : s \in Nat /\ (s = 0 \/ s > 6)

VARIABLES
    size,        \* the sender's maxOutboundFragmentSize
    transport,
    sent,        \* what has been sent, as it was handed to the sender
    position,    \* FrameStore: bytes of stream frames sent
    wire,        \* bytes on their way (tcp), or messages (websocket)
    peer         \* the receiving end: see NewPeer

vars == <<size, transport, sent, position, wire, peer>>

\* buffer is the transport's remainingBuffer, opening the request frame that
\* is being reassembled (<<>> if none), position its FrameStore's, received
\* what has been handed on.
NewPeer == [buffer |-> <<>>, holder |-> NoFragments, opening |-> <<>>,
            position |-> 0, received |-> <<>>]

Init ==
    /\ size \in FragmentSizes
    /\ transport \in Transports
    /\ sent = <<>> /\ position = 0 /\ wire = <<>>
    /\ peer = NewPeer

-----------------------------------------------------------------------------
(* The sender *)

\* A payload that goes out in one frame, as the streams send it.
WholeFrame(m) ==
    [type |-> m.type, streamId |-> m.streamId, requestN |-> m.requestN,
     flags |-> Flag(m.hasMetadata, METADATA) + Flag(m.complete, COMPLETE)
               + Flag(m.type = "PAYLOAD", NEXT),
     data |-> m.data, metadata |-> m.metadata]

IsPayload(m) == m.type = "PAYLOAD" \/ IsRequest(m)

\* Mutant: the size is compared without the metadata.
FramesOf_DataOnly(m, fragmentSize) ==
    CASE ~IsPayload(m) -> << m >>
      [] ~IsFragmentable([m EXCEPT !.hasMetadata = FALSE], fragmentSize,
                         m.type) -> << WholeFrame(m) >>
      [] m.type \in WithRequestN -> FragmentWithRequestN(m, m, fragmentSize)
      [] OTHER -> Fragment(m, m, fragmentSize)

FramesOf(m, fragmentSize) ==
    CASE ~IsPayload(m) -> << m >>
      [] ~IsFragmentable(m, fragmentSize, m.type) -> << WholeFrame(m) >>
      [] m.type \in WithRequestN -> FragmentWithRequestN(m, m, fragmentSize)
      [] OTHER -> Fragment(m, m, fragmentSize)

\* What FrameStore.store and record add for the frames of a stream.
Counted(frames) ==
    FoldLeft(LAMBDA sum, f : sum + (IF IsConnection(f) THEN 0
                                    ELSE SizeOfFrame(f)), 0, frames)

Written(frames) ==
    IF transport = "tcp"
    THEN FlattenSeq([i \in DOMAIN frames |->
                        SerializeFrameWithLength(frames[i])])
    ELSE [i \in DOMAIN frames |-> SerializeFrame(frames[i])]

\* The sender does not look at the receiver, so that to send later only puts
\* the same bytes behind the same bytes: all is sent before any arrives.
Send(m) ==
    /\ m \in (IF sent = <<>> THEN Messages ELSE Followers)
    /\ Len(sent) < 2
    /\ peer = NewPeer
    /\ LET frames == FramesOf(m, size)
       IN  /\ wire' = wire \o Written(frames)
           /\ position' = position + Counted(frames)
    /\ sent' = Append(sent, m)
    /\ UNCHANGED <<size, transport, peer>>

-----------------------------------------------------------------------------
(* The receiver *)

\* What a payload's last frame, or its only one, hands on, and to whom.
Delivery(opening, f, payload) ==
    [type |-> opening.type, streamId |-> opening.streamId,
     requestN |-> IF opening.type \in WithRequestN THEN opening.requestN ELSE 0,
     complete |-> Has(f.flags, COMPLETE),
     data |-> payload.data, metadata |-> payload.metadata,
     outcome |-> IF IsRequest(opening)
                 THEN Dispatch(opening.type, payload.metadata, Handlers)
                 ELSE Unhandled("payload")]

IsFragment(f) == Has(f.flags, FOLLOWS)

ReceivesFragment(p, f) ==
    [p EXCEPT !.holder = Add(p.holder, f),
              !.opening = IF IsRequest(f) THEN << f >> ELSE @]

ReceivesPayload(p, f) ==
    LET opening == IF p.opening # <<>> THEN Head(p.opening) ELSE f
        payload == IF p.holder.hasFragments THEN Reassemble(p.holder, f) ELSE f
    IN  [p EXCEPT !.holder = IF p.holder.hasFragments THEN NoFragments ELSE @,
                  !.opening = <<>>,
                  !.received = Append(@, Delivery(opening, f, payload))]

\* METADATA_PUSH is routed too; the other frames are for the connection or
\* the stream as they are.
ReceivesOther(p, f) ==
    [p EXCEPT !.received =
        Append(@, IF f.type = "METADATA_PUSH"
                  THEN f @@ [outcome |-> Dispatch(f.type, f.metadata, Handlers)]
                  ELSE f)]

Handle(p, f) ==
    LET counted == [p EXCEPT !.position = @ + Counted(<< f >>)]
    IN  CASE ~IsPayload(f) -> ReceivesOther(counted, f)
          [] IsPayload(f) /\ IsFragment(f) -> ReceivesFragment(counted, f)
          [] OTHER -> ReceivesPayload(counted, f)

\* TcpDuplexConnection.handleData: some of the bytes on their way.
HandleData(n) ==
    /\ transport = "tcp"
    /\ wire # <<>> /\ n <= Len(wire)
    /\ wire' = SubSeq(wire, n + 1, Len(wire))
    /\ LET buffer == peer.buffer \o SubSeq(wire, 1, n)
           decoded == DeserializeFrames(buffer)
       IN  peer' = [FoldLeft(Handle, peer, decoded.frames) EXCEPT
                      !.buffer = Slice(buffer, decoded.offset, Len(buffer))]
    /\ UNCHANGED <<size, transport, sent, position>>

\* WebsocketDuplexConnection.handleMessage
HandleMessage ==
    /\ transport = "websocket"
    /\ wire # <<>>
    /\ wire' = Tail(wire)
    /\ peer' = Handle(peer, DeserializeFrame(Head(wire)))
    /\ UNCHANGED <<size, transport, sent, position>>

Next ==
    \/ \E m \in Messages \union Followers : Send(m)
    \/ \E n \in Chunks \union {Len(wire)} : HandleData(n)
    \/ HandleMessage

Spec == Init /\ [][Next]_vars

-----------------------------------------------------------------------------
(* Properties *)

(***************************************************************************)
(* The two payloads that the fragmenters do not carry.                     *)
(*  - A request with a requestN whose metadata leaves one or two bytes of  *)
(*    the first frame: the toll for the requestN is taken off again, the   *)
(*    room is negative, and slice counts it from the end of the data.      *)
(*  - Metadata without data that is not the last of its direction: the     *)
(*    last fragment has FOLLOWS, and the payload never ends.               *)
(***************************************************************************)
Overdrawn(m, fragmentSize) ==
    /\ m.type \in WithRequestN
    /\ m.metadata # <<>>
    /\ fragmentSize - MetadataLength - RequestLength - Len(m.metadata)
           \in 1 .. (RequestLength - 1)

NeverEnded(m) == m.metadata # <<>> /\ m.data = <<>> /\ ~m.complete

Carried(m, fragmentSize) ==
    \/ ~IsPayload(m)
    \/ ~IsFragmentable(m, fragmentSize, m.type)
    \/ ~Overdrawn(m, fragmentSize) /\ ~NeverEnded(m)

\* What the other side should be given for a message.
SameFrame(m, f) == \A field \in DOMAIN f \ {"outcome"} : f[field] = m[field]

SamePayload(m, d) ==
    /\ d.type = m.type /\ d.streamId = m.streamId
    /\ d.requestN = m.requestN /\ d.complete = m.complete
    /\ d.data = m.data /\ d.metadata = m.metadata

Same(m, r) == IF IsPayload(m) THEN SamePayload(m, r) ELSE SameFrame(m, r)

Faithful ==
    /\ Len(peer.received) <= Len(sent)
    /\ \A i \in DOMAIN peer.received : Same(sent[i], peer.received[i])
    /\ wire = <<>> => /\ Len(peer.received) = Len(sent)
                      /\ peer.buffer = <<>>
                      /\ ~peer.holder.hasFragments

(* What is sent is what the other side is given: every frame and payload   *)
(* once, whole and in order, however the bytes are cut, and as soon as its *)
(* last byte is there; for all payloads but the two kinds named above.     *)
Delivered ==
    (\A i \in DOMAIN sent : Carried(sent[i], size)) => Faithful

(* The same for every payload, as Fragmenter.spec.ts has it for "valid     *)
(* metadata-only (null data) payloads".                                    *)
AllDelivered == Faithful

(* The two ends count the same bytes for the same frames (Resume.ts        *)
(* compares their positions): the sizes are what the buffers hold, and     *)
(* when nothing is on its way the positions are equal.                     *)
PositionsAgree ==
    /\ \A i \in DOMAIN sent :
          \A f \in ToSet(FramesOf(sent[i], size)) :
             Len(SerializeFrame(f)) = SizeOfFrame(f)
    /\ peer.position <= position
    /\ wire = <<>> => peer.position = position

(* No frame of a payload takes more room than the fragment size allows,    *)
(* as the fragmenters count it, but for the requests named above.          *)
Room(f) ==
    Len(f.data) + (IF Has(f.flags, METADATA)
                   THEN Len(f.metadata) + MetadataLength ELSE 0)
    + (IF f.type \in WithRequestN THEN RequestLength ELSE 0)

Fits ==
    size # 0 =>
        \A i \in DOMAIN sent :
            IsPayload(sent[i]) /\ ~Overdrawn(sent[i], size) =>
                \A f \in ToSet(FramesOf(sent[i], size)) : Room(f) <= size

Paths(m) == {m.routes[i] : i \in DOMAIN m.routes}

AuthenticatedAs(m, content) ==
    /\ IsAuth(content)
    /\ LET auth == DecodeAuth(content)
       IN  IF "user" \in DOMAIN m
           THEN /\ auth.known /\ auth.id = Simple
                /\ IsSimpleAuth(auth.content)
                /\ DecodeSimpleAuth(auth.content) = m.user
           ELSE auth = m.auth

(* A request comes to a handler only if its metadata names the handler's   *)
(* path and the handler is for that type of request; it does come to it if *)
(* the path is the only one that is named; and the credentials that were   *)
(* put beside the route are read as they were given.                       *)
Routed ==
    \A i \in DOMAIN peer.received :
        LET m == sent[i]
            outcome == peer.received[i].outcome
            entries == DecodeCompositeMetadata(peer.received[i].metadata).items
            Handler(path) == [path |-> path, type |-> m.type]
        IN  "routes" \in DOMAIN m /\ Carried(m, size) =>
              /\ outcome.kind = "handled" =>
                    outcome.path \in Paths(m) /\ Handler(outcome.path) \in Handlers
              /\ \A path \in Paths(m) :
                    Paths(m) = {path} /\ Handler(path) \in Handlers =>
                        outcome = Handled(path)
              /\ \A e \in ToSet(entries) :
                    e.known /\ e.id = Authentication =>
                        AuthenticatedAs(m, e.content)
=============================================================================
