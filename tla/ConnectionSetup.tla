--------------------------- MODULE ConnectionSetup ---------------------------
(***************************************************************************)
(* How a server takes a connection over: whole frames are cut out of what  *)
(* the socket delivers (TcpDuplexConnection and WebsocketDuplexConnection  *)
(* of the servers), the first of them chooses a multiplexer and is offered *)
(* to the application's acceptor (RSocketServer.bind), and the handlers    *)
(* are installed when the acceptor has resolved.  In between the socket is *)
(* paused, and the client, which does not wait, has gone on sending.       *)
(*                                                                         *)
(* A frame is FrameLength bytes, a byte the number of its frame and its    *)
(* place in it.  A request is answered once by a stream of the server; the *)
(* streams themselves are RequestStream's, sessions after this connection  *)
(* Resume's.                                                               *)
(***************************************************************************)
EXTENDS Naturals, Sequences

CONSTANTS
    MaxFrames,     \* bound: frames the client sends, the first one included
    FrameLength    \* bytes of a frame

ASSUME SetupAssumption ==
    MaxFrames \in Nat \ {0} /\ FrameLength \in Nat \ {0}

VARIABLES
    config,      \* the two ends' configurations, which do not change
    sent,        \* the types of the frames that the client has sent
    wire,        \* bytes on their way to the server
    replies,     \* frames on their way to the client, END for the socket's end
    client,      \* "open" | "told" | "ended" | "lost"
    waiting,     \* the client's requests (frame numbers) without an answer
    stage,       \* "first" | "accepting" | "accepted" | "refused"
    done,        \* the server's connection is done
    closedIn,    \* history: the stage in which it was closed, if not refused
    buffer,      \* bufferedData, later remainingBuffer
    decoding,    \* the bytes that the loop of handleData has left
    looping,     \* that loop is running
    handled,     \* history: the frames (byte sequences) it has dispatched
    streams,     \* the server's streams, by the number of their request
    late,        \* history: those opened in a multiplexer that was done
    muxDone,     \* the multiplexer is done
    keepAlive,   \* KeepAliveHandler: "none" | "Running" | "Closed"
    session,     \* the session store holds the connection's session
    timer        \* the session timer runs

clientVars == <<sent, client, waiting>>
inputVars == <<buffer, decoding, looping, handled>>
serverVars == <<stage, done, closedIn, streams, late, muxDone, keepAlive,
                session, timer>>
vars == <<config, wire, replies, clientVars, inputVars, serverVars>>

Config == [transport: {"tcp", "websocket"},
           first: {"SETUP", "RESUME", "OTHER"},
           offersLease: BOOLEAN, offersResume: BOOLEAN,
           lease: BOOLEAN, resume: BOOLEAN]

Byte == [frame: Nat, place: Nat]
Reply(type, frame) == [type |-> type, frame |-> frame]
Replies == [type: {"ERROR", "ANSWER", "KEEPALIVE", "END"}, frame: Nat]

TypeOK ==
    /\ config \in Config
    /\ sent \in Seq({"SETUP", "RESUME", "OTHER", "REQUEST", "KEEPALIVE"})
    /\ wire \in Seq(Byte) /\ buffer \in Seq(Byte) /\ decoding \in Seq(Byte)
    /\ replies \in Seq(Replies)
    /\ client \in {"open", "told", "ended", "lost"}
    /\ waiting \subseteq DOMAIN sent /\ streams \subseteq DOMAIN sent
    /\ late \subseteq DOMAIN sent
    /\ stage \in {"first", "accepting", "accepted", "refused"}
    /\ closedIn \in {"nothing", "accepting", "accepted"}
    /\ {done, looping, muxDone, session, timer} \subseteq BOOLEAN
    /\ handled \in Seq(Seq(Byte))
    /\ keepAlive \in {"none", "Running", "Closed"}
    \* No whole frame is left behind while the server waits for more data.
    /\ ~looping /\ stage \in {"first", "accepted"} => Len(buffer) < FrameLength

BytesOf(k) == [i \in 1 .. FrameLength |-> [frame |-> k, place |-> i]]

\* A resumable SETUP and a lease are offered by this connector only; a client
\* that starts with another frame than SETUP or RESUME is not of this code.
Init ==
    /\ config \in Config
    /\ config.first # "SETUP" => ~config.offersLease /\ ~config.offersResume
    /\ sent = <<config.first>> /\ wire = BytesOf(1)
    /\ replies = <<>> /\ client = "open" /\ waiting = {}
    /\ stage = "first" /\ done = FALSE /\ closedIn = "nothing"
    /\ buffer = <<>> /\ decoding = <<>> /\ looping = FALSE /\ handled = <<>>
    /\ streams = {} /\ late = {} /\ muxDone = FALSE
    /\ keepAlive = "none" /\ session = FALSE /\ timer = FALSE

-----------------------------------------------------------------------------
(* The client: RSocketConnector.connect and what follows it                *)

\* Nothing waits for the server to accept.  With a lease a request waits for
\* a LEASE frame, and this server sends none; after RESUME for RESUME_OK.
ClientSends(type) ==
    /\ client = "open" /\ Len(sent) < MaxFrames
    /\ config.first # "RESUME"
    /\ type = "REQUEST" => ~config.offersLease
    /\ sent' = Append(sent, type)
    /\ waiting' = IF type = "REQUEST" THEN waiting \cup {Len(sent')}
                                      ELSE waiting
    /\ wire' = IF done THEN wire ELSE wire \o BytesOf(Len(sent'))
    /\ UNCHANGED <<config, replies, client, inputVars, serverVars>>

\* The connection closes at the client.  Its calls end with it; those of a
\* session wait for the next connection, unless an ERROR has closed it.
ClientEnds(as) ==
    /\ client' = as
    /\ waiting' = IF config.offersResume /\ as # "told" THEN waiting ELSE {}

ClientReads ==
    LET r == Head(replies)
    IN  /\ client = "open" /\ replies # <<>>
        /\ replies' = Tail(replies)
        /\ \/ r.type = "ANSWER" /\ waiting' = waiting \ {r.frame}
                               /\ UNCHANGED client
           \/ r.type = "KEEPALIVE" /\ UNCHANGED <<client, waiting>>
           \/ r.type = "ERROR" /\ ClientEnds("told")
           \/ r.type = "END" /\ ClientEnds("ended")
        /\ UNCHANGED <<config, sent, wire, inputVars, serverVars>>

\* The client closes, or loses the connection.
ClientLoses ==
    /\ client = "open"
    /\ ClientEnds("lost")
    /\ UNCHANGED <<config, sent, wire, replies, inputVars, serverVars>>

-----------------------------------------------------------------------------
(* The server: what the socket delivers, and the end of the connection     *)

\* Of what is on its way the socket delivers any part, a websocket frames.
Delivers(n) ==
    /\ n \in 1 .. Len(wire)
    /\ config.transport = "websocket" => n = FrameLength
    /\ wire' = SubSeq(wire, n + 1, Len(wire))

Received(n) == buffer \o SubSeq(wire, 1, n)

Rest(bytes) == SubSeq(bytes, FrameLength + 1, Len(bytes))

\* What is written behind the socket's end is lost.
Replied(reply) == IF done THEN replies ELSE Append(replies, reply)

\* The multiplexer of a session outlives the connection, but
\* handleConnectionClose starts the timer only once handlers are installed
\* (and throws before that); another one closes its streams.
MultiplexerLosesConnection ==
    IF config.offersResume
    THEN /\ timer' = (stage = "accepted")
         /\ UNCHANGED <<muxDone, streams>>
    ELSE /\ muxDone' = TRUE /\ streams' = {}
         /\ UNCHANGED timer

\* The server's application closes the connection, a write or the socket
\* shows that it is lost, or the keep-alive check fails.  What was written
\* last may be lost.
ServerCloses ==
    /\ stage \in {"accepting", "accepted"} /\ ~done
    /\ done' = TRUE /\ closedIn' = stage
    /\ \E n \in 0 .. Len(replies) :
          replies' = Append(SubSeq(replies, 1, n), Reply("END", 0))
    /\ wire' = <<>>
    /\ MultiplexerLosesConnection
    /\ keepAlive' = IF stage = "accepted" THEN "Closed" ELSE keepAlive
    /\ UNCHANGED <<config, clientVars, inputVars, stage, late, session>>

\* ERROR, then the connection closes.
Refuse ==
    /\ stage' = "refused"
    /\ done' = TRUE /\ muxDone' = TRUE /\ session' = FALSE
    /\ replies' = IF done THEN replies
                  ELSE replies \o <<Reply("ERROR", 0), Reply("END", 0)>>
    /\ buffer' = <<>>
    /\ UNCHANGED <<config, clientVars, decoding, looping, handled, closedIn,
                   streams, late, keepAlive, timer>>

-----------------------------------------------------------------------------
(* The first frame, and RSocketServer.bind                                 *)

\* readFirstFrame: less than a frame so far.
BuffersFirstFrame(n) ==
    /\ stage = "first" /\ Delivers(n)
    /\ Len(Received(n)) < FrameLength
    /\ buffer' = Received(n)
    /\ UNCHANGED <<config, replies, clientVars, decoding, looping, handled,
                   serverVars>>

ReadsFirstFrame(n) ==
    /\ stage = "first" /\ Delivers(n)
    /\ Len(Received(n)) >= FrameLength

\* RESUME is refused where no session is stored; a SETUP if the two ends do
\* not agree on leases, or if it asks for a session and there is no store.
Acceptable ==
    /\ config.first = "SETUP"
    /\ config.offersLease <=> config.lease
    /\ config.offersResume => config.resume

\* Mutant: the client is not told.
RefusesFirstFrame_Silent(n) ==
    /\ ReadsFirstFrame(n) /\ ~Acceptable
    /\ stage' = "refused" /\ done' = TRUE /\ buffer' = <<>>
    /\ UNCHANGED <<config, clientVars, decoding, looping, handled, closedIn,
                   streams, late, muxDone, keepAlive, session, timer, replies>>

RefusesFirstFrame(n) == ReadsFirstFrame(n) /\ ~Acceptable /\ Refuse

\* The acceptor is called and the socket paused; the rest of the data waits.
CallsAcceptor(n) ==
    /\ ReadsFirstFrame(n) /\ Acceptable
    /\ stage' = "accepting"
    /\ session' = config.offersResume
    /\ buffer' = Rest(Received(n))
    /\ UNCHANGED <<config, replies, clientVars, decoding, looping, handled,
                   done, closedIn, streams, late, muxDone, keepAlive, timer>>

\* Mutant: keep-alive starts whether or not the connection is there.
AcceptorResolves_StartsAnyway ==
    /\ stage = "accepting"
    /\ stage' = "accepted"
    /\ keepAlive' = "Running"
    /\ decoding' = buffer /\ looping' = (buffer # <<>>)
    /\ buffer' = <<>>
    /\ UNCHANGED <<config, wire, replies, clientVars, handled, done, closedIn,
                   streams, late, muxDone, session, timer>>

\* The handlers are installed, the close callback is registered (and called
\* at once if the connection is done), keep-alive starts unless closed; then
\* the rest of the first data is handled, on a closed connection too.
AcceptorResolves ==
    /\ stage = "accepting"
    /\ stage' = "accepted"
    /\ keepAlive' = IF done THEN "Closed" ELSE "Running"
    /\ decoding' = buffer /\ looping' = (buffer # <<>>)
    /\ buffer' = <<>>
    /\ UNCHANGED <<config, wire, replies, clientVars, handled, done, closedIn,
                   streams, late, muxDone, session, timer>>

\* Mutant: the connection is closed before the ERROR is sent.
AcceptorRejects_ClosesFirst ==
    /\ stage = "accepting"
    /\ stage' = "refused"
    /\ done' = TRUE /\ muxDone' = TRUE /\ session' = FALSE
    /\ replies' = IF done THEN replies ELSE <<Reply("END", 0)>>
    /\ buffer' = <<>>
    /\ wire' = <<>>
    /\ UNCHANGED <<config, clientVars, decoding, looping, handled, closedIn,
                   streams, late, keepAlive, timer>>

\* The rest of the first data meets no handlers, which throws.
AcceptorRejects ==
    /\ stage = "accepting"
    /\ wire' = <<>>
    /\ Refuse

-----------------------------------------------------------------------------
(* handleData                                                              *)

Reads(n) ==
    /\ stage = "accepted" /\ ~done /\ ~looping
    /\ Delivers(n)
    /\ decoding' = Received(n) /\ looping' = TRUE
    /\ buffer' = <<>>
    /\ UNCHANGED <<config, replies, clientVars, handled, serverVars>>

\* A frame is dispatched.  For a request the application's handler runs, for
\* a KEEPALIVE an acknowledgement is sent.
Dispatches ==
    LET frame == SubSeq(decoding, 1, FrameLength)
        k == frame[1].frame
    IN  /\ looping /\ Len(decoding) >= FrameLength
        /\ handled' = Append(handled, frame)
        /\ decoding' = Rest(decoding)
        /\ \/ /\ sent[k] = "REQUEST"
              /\ streams' = streams \cup {k}
              /\ late' = IF muxDone THEN late \cup {k} ELSE late
              /\ UNCHANGED replies
           \/ /\ sent[k] = "KEEPALIVE"
              /\ replies' = Replied(Reply("KEEPALIVE", k))
              /\ UNCHANGED <<streams, late>>
        /\ UNCHANGED <<config, wire, clientVars, buffer, looping, stage, done,
                       closedIn, muxDone, keepAlive, session, timer>>

\* Mutants: what is left is forgotten; one frame is decoded at a time.
DecodingEnds_Forgets ==
    /\ looping /\ Len(decoding) < FrameLength
    /\ looping' = FALSE /\ decoding' = <<>>
    /\ UNCHANGED <<config, wire, replies, clientVars, buffer, handled,
                   serverVars>>

DecodingEnds_AfterOne ==
    /\ looping
    /\ looping' = FALSE /\ decoding' = <<>> /\ buffer' = decoding
    /\ UNCHANGED <<config, wire, replies, clientVars, handled, serverVars>>

DecodingEnds ==
    /\ looping /\ Len(decoding) < FrameLength
    /\ looping' = FALSE /\ decoding' = <<>> /\ buffer' = decoding
    /\ UNCHANGED <<config, wire, replies, clientVars, handled, serverVars>>

-----------------------------------------------------------------------------
(* Streams and the session                                                 *)

Answers(k) ==
    /\ k \in streams
    /\ streams' = streams \ {k}
    /\ replies' = Replied(Reply("ANSWER", k))
    /\ UNCHANGED <<config, wire, clientVars, inputVars, stage, done, closedIn,
                   late, muxDone, keepAlive, session, timer>>

\* The streams close; the session stays in the store.
SessionTimesOut ==
    /\ timer /\ ~looping
    /\ timer' = FALSE
    /\ muxDone' = TRUE /\ streams' = {}
    /\ UNCHANGED <<config, wire, replies, clientVars, inputVars, stage, done,
                   closedIn, late, keepAlive, session>>

-----------------------------------------------------------------------------
ReadsFirst == \E n \in 1 .. Len(wire) :
    BuffersFirstFrame(n) \/ RefusesFirstFrame(n) \/ CallsAcceptor(n)

AcceptorSettles == AcceptorResolves \/ AcceptorRejects

ReadsOn ==
    \/ \E n \in 1 .. Len(wire) : Reads(n)
    \/ Dispatches \/ DecodingEnds

Next ==
    \/ \E type \in {"REQUEST", "KEEPALIVE"} : ClientSends(type)
    \/ ClientReads \/ ClientLoses
    \/ ReadsFirst \/ AcceptorSettles \/ ReadsOn
    \/ ServerCloses
    \/ \E k \in streams : Answers(k)
    \/ SessionTimesOut

Spec == Init /\ [][Next]_vars

\* Sockets deliver, both ends' loops run, the application answers requests
\* and its acceptor settles.
Fairness ==
    /\ WF_vars(ClientReads) /\ WF_vars(ReadsFirst)
    /\ WF_vars(AcceptorSettles) /\ WF_vars(ReadsOn)
    /\ \A k \in 1 .. MaxFrames : WF_vars(Answers(k))

FairSpec == Spec /\ Fairness

-----------------------------------------------------------------------------
(* Properties *)

(* What the server dispatches are the frames that the client has sent       *)
(* behind the first one, whole, each once and in order, however the socket  *)
(* cuts them; and none before the acceptor has resolved, when there are no  *)
(* handlers for it.                                                         *)
FramesInOrder ==
    /\ \A i \in DOMAIN handled : handled[i] = BytesOf(i + 1)
    /\ stage \in {"first", "accepting"} => handled = <<>>

(* A client whose connection is refused is told so: it does not see a mere  *)
(* end of the connection, unless the connection was lost before.            *)
RefusalTold ==
    stage = "refused" /\ client = "ended" => closedIn = "accepting"

(* Nothing outlives the connection, also if it closes while the acceptor    *)
(* runs: keep-alive has stopped, a session is timed or timed out, and the   *)
(* streams have closed with their multiplexer.  Two things do: streams that *)
(* the rest of the data opens in a closed multiplexer, and a session whose  *)
(* connection closes before the handlers are installed.                     *)
ReleasedWithConnection ==
    (done /\ stage # "accepting") =>
        /\ keepAlive # "Running"
        /\ (session /\ ~muxDone) => (timer \/ closedIn = "accepting")
        /\ muxDone => streams \subseteq late

(* A request made before, during or after the acceptance is answered, or    *)
(* the client is told of the end; only the requests of a session wait for   *)
(* its next connection.                                                     *)
EveryCallEnds ==
    \A k \in 2 .. MaxFrames :
        k \in waiting ~> \/ k \notin waiting
                         \/ config.offersResume /\ client # "open"
=============================================================================
