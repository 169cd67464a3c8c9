------------------------------- MODULE Resume -------------------------------
(***************************************************************************)
(* A resumable session: the resumable multiplexers of a client and of a    *)
(* server (ClientServerMultiplexerDemultiplexer.ts), their frame stores    *)
(* (Resume.ts), the connector that reconnects, the server's session store  *)
(* and timer, and the keep-alive frames that carry the positions.          *)
(*                                                                         *)
(* A session uses one connection after the other.  A connection may be     *)
(* lost at either end at any moment, with any suffix of what that end has  *)
(* in flight, and the other end notices later.                             *)
(***************************************************************************)
EXTENDS Naturals, Sequences

CONSTANTS
    MaxConnections,      \* bound: connections of the session
    MaxFrames,           \* bound: frames that an end stores
    Position,            \* bytes of the first n frames of an end
    Extending,           \* the ends whose streams send extensions
    ServerSideKeepAlive  \* the server sends KEEPALIVE frames too

Client == "client"
Server == "server"
End == {Client, Server}
Peer(e) == IF e = Client THEN Server ELSE Client

Connection == 1 .. MaxConnections
Frame == 1 .. (IF MaxFrames[Client] >= MaxFrames[Server] THEN MaxFrames[Client]
                                                     ELSE MaxFrames[Server])

ASSUME BoundsAssumption ==
    /\ MaxConnections \in Nat \ {0}
    /\ MaxFrames \in [End -> Nat]
    /\ Extending \subseteq End
    /\ ServerSideKeepAlive \in BOOLEAN

\* Every frame has a header.
ASSUME PositionAssumption ==
    /\ Position \in [{0} \cup Frame -> Nat]
    /\ Position[0] = 0
    /\ \A n \in Frame : Position[n - 1] < Position[n]

VARIABLES
    attempts,        \* connections made so far
    status,          \* per connection and end: "waiting" for the handshake's
                     \* frame, "attached", "adopted" by the server without a
                     \* close callback, or "closed"
    wire,            \* per connection and end: the frames on their way to it
    current,         \* the connection of a multiplexer's outbound
    done,            \* the multiplexer has closed its streams
    keepAlive,       \* the sender's and the handler's state
    sent,            \* frames ever stored: the n-th is frame n
    shifted,         \* frames dropped; the store holds shifted + 1 .. sent
    firstAvailable,  \* firstAvailableFramePosition
    received,        \* lastReceivedFramePosition
    handled,         \* history: the frames passed on to the streams
    reconnecting,    \* the client's reconnector is running
    timers,          \* the connections whose close started a timer that runs
    timeoutId,       \* the connection whose close started the latest timer
    session,         \* in the server's store, or "removed", or "lost"
    overlapped,      \* history: resumed with an older connection still open
    inconsistent     \* history: a position did not fit a store

storeVars == <<sent, shifted, firstAvailable, received, handled>>
timerVars == <<reconnecting, timers, timeoutId>>
historyVars == <<overlapped, inconsistent>>
vars == <<attempts, status, wire, current, done, keepAlive, storeVars,
          timerVars, session, historyVars>>

-----------------------------------------------------------------------------
(* Frames *)

Data(n) == [type |-> "DATA", frame |-> n]
Extension == [type |-> "EXT"]
KeepAlive(respond, position) ==
    [type |-> "KEEPALIVE", respond |-> respond, position |-> position]
ResumeFrame(client, server) ==
    [type |-> "RESUME", client |-> client, server |-> server]
ResumeOk(client) == [type |-> "RESUME_OK", client |-> client]
Error == [type |-> "ERROR"]

Message ==
    [type : {"DATA"}, frame : Frame]
      \cup [type : {"EXT", "ERROR"}]
      \cup [type : {"KEEPALIVE"}, respond : BOOLEAN, position : Nat]
      \cup [type : {"RESUME"}, client : Nat, server : Nat]
      \cup [type : {"RESUME_OK"}, client : Nat]

TypeOK ==
    /\ attempts \in Connection
    /\ status \in [Connection -> [End -> {"waiting", "attached", "adopted",
                                          "closed"}]]
    /\ wire \in [Connection -> [End -> Seq(Message)]]
    /\ current \in [End -> Connection]
    /\ done \in [End -> BOOLEAN]
    /\ keepAlive \in [End -> {"running", "paused", "closed"}]
    /\ sent \in [End -> {0} \cup Frame] /\ shifted \in [End -> {0} \cup Frame]
    /\ firstAvailable \in [End -> Nat] /\ received \in [End -> Nat]
    /\ handled \in [End -> Seq(Frame)]
    /\ reconnecting \in BOOLEAN
    /\ timers \subseteq Connection /\ timeoutId \in Connection
    /\ session \in {"stored", "removed", "lost"}
    /\ overlapped \in BOOLEAN /\ inconsistent \in BOOLEAN

\* The first connection has been set up.
Init ==
    /\ attempts = 1
    /\ status = [k \in Connection |->
                    [e \in End |-> IF k = 1 THEN "attached" ELSE "waiting"]]
    /\ wire = [k \in Connection |-> [e \in End |-> <<>>]]
    /\ current = [e \in End |-> 1]
    /\ done = [e \in End |-> FALSE]
    /\ keepAlive = [e \in End |-> "running"]
    /\ sent = [e \in End |-> 0] /\ shifted = [e \in End |-> 0]
    /\ firstAvailable = [e \in End |-> 0] /\ received = [e \in End |-> 0]
    /\ handled = [e \in End |-> <<>>]
    /\ reconnecting = FALSE
    /\ timers = {} /\ timeoutId = 1
    /\ session = "stored"
    /\ overlapped = FALSE /\ inconsistent = FALSE

-----------------------------------------------------------------------------
(* Connections *)

Open(k, e) == k <= attempts /\ status[k][e] # "closed"

\* What is sent on a connection that one end has closed is gone.
Sent(k, e, frames) ==
    IF Open(k, e) /\ Open(k, Peer(e)) THEN frames ELSE <<>>

Send(k, e, frames) ==
    wire' = [wire EXCEPT ![k][Peer(e)] = @ \o Sent(k, e, frames)]

\* The first frame on the way to e is m.
Arrives(k, e, m) ==
    Open(k, e) /\ wire[k][e] # <<>> /\ Head(wire[k][e]) = m

Dispatched(k, e) == status[k][e] \in {"attached", "adopted"}

TakeAndSend(k, e, frames) ==
    wire' = [wire EXCEPT ![k] =
                [d \in End |-> IF d = e THEN Tail(@[e])
                               ELSE @[d] \o Sent(k, e, frames)]]

\* The connection ends at e, and a part of what e has sent is still on its
\* way.
Ends(w, k, e) ==
    /\ status' = [status EXCEPT ![k][e] = "closed"]
    /\ \E rest \in 0 .. Len(w[k][Peer(e)]) :
          wire' = [w EXCEPT ![k] =
                      [d \in End |-> IF d = e THEN <<>>
                                     ELSE SubSeq(@[d], 1, rest)]]

Pause(state) == IF state = "running" THEN "paused" ELSE state
Start(state) == IF state = "paused" THEN "running" ELSE state

\* handleConnectionClose; the callbacks of the connector and of the server
\* are those of the first connection.
HandleConnectionClose(k, e) ==
    /\ keepAlive' = [keepAlive EXCEPT ![e] = IF k = 1 THEN "closed"
                                                      ELSE Pause(@)]
    /\ reconnecting' = (reconnecting \/ e = Client)
    /\ timers' = IF e = Server THEN timers \cup {k} ELSE timers
    /\ timeoutId' = IF e = Server THEN k ELSE timeoutId

\* A connection is lost at e (or closed there by the keep-alive check), or e
\* notices that its peer has closed it.
ConnectionCloses(k, e) ==
    /\ Open(k, e)
    /\ \/ ~Open(k, Peer(e))
       \/ k = attempts /\ attempts < MaxConnections
    /\ Ends(wire, k, e)
    /\ IF status[k][e] = "attached"
       THEN HandleConnectionClose(k, e)
       ELSE UNCHANGED <<keepAlive, timerVars>>
    /\ UNCHANGED <<attempts, current, done, storeVars, session, historyVars>>

-----------------------------------------------------------------------------
(* FrameStore.dropTo *)

\* The frame up to which dropTo(p) drops.
DropTo(e, p) ==
    IF p <= firstAvailable[e] THEN shifted[e]
    ELSE LET enough == {n \in shifted[e] .. sent[e] :
                           Position[n] - Position[shifted[e]]
                             >= p - firstAvailable[e]}
         IN IF enough = {} THEN sent[e]
            ELSE CHOOSE n \in enough : \A o \in enough : n <= o

\* It drops as many bytes as it should.
Fits(e, p) ==
    /\ p >= firstAvailable[e]
    /\ Position[DropTo(e, p)] - Position[shifted[e]] = p - firstAvailable[e]

\* Mutant: a wrong sign.
Drop_Subtracts(e, p) ==
    /\ shifted' = [shifted EXCEPT ![e] = DropTo(e, p)]
    /\ firstAvailable' = IF Fits(e, p) THEN [firstAvailable EXCEPT ![e] = @ - p]
                                       ELSE firstAvailable
    /\ inconsistent' = (inconsistent \/ ~Fits(e, p))

Drop(e, p) ==
    /\ shifted' = [shifted EXCEPT ![e] = DropTo(e, p)]
    /\ firstAvailable' = IF Fits(e, p) THEN [firstAvailable EXCEPT ![e] = p]
                                       ELSE firstAvailable
    /\ inconsistent' = (inconsistent \/ ~Fits(e, p))

\* The frames that drain sends once dropTo(p) has dropped.
Drained(e, p) ==
    [i \in 1 .. sent[e] - DropTo(e, p) |-> Data(DropTo(e, p) + i)]

-----------------------------------------------------------------------------
(* ResumableClientServerInputMultiplexerDemultiplexer.send *)

\* The session that the server has lost sends nothing.
Runs(e) == e = Client \/ session # "lost"

\* Mutant: a frame that could be written is not stored.
SendsData_WrittenNotStored(e) ==
    /\ Runs(e) /\ sent[e] < MaxFrames[e]
    /\ sent' = [sent EXCEPT ![e] = @ + 1]
    /\ shifted' = IF Open(current[e], e) /\ shifted[e] = sent[e]
                  THEN sent' ELSE shifted
    /\ Send(current[e], e, <<Data(sent[e] + 1)>>)
    /\ UNCHANGED <<attempts, status, current, done, keepAlive, firstAvailable,
                   received, handled, timerVars, session, historyVars>>

\* A stream sends a frame.
SendsData(e) ==
    /\ Runs(e) /\ sent[e] < MaxFrames[e]
    /\ sent' = [sent EXCEPT ![e] = @ + 1]
    /\ Send(current[e], e, <<Data(sent[e] + 1)>>)
    /\ UNCHANGED <<attempts, status, current, done, keepAlive, shifted,
                   firstAvailable, received, handled, timerVars, session,
                   historyVars>>

InFlight(k, e, type) ==
    \E i \in DOMAIN wire[k][Peer(e)] : wire[k][Peer(e)][i].type = type

\* A stream sends an extension, which is not stored.  Bound: one in flight.
SendsExtension(e) ==
    /\ Runs(e) /\ e \in Extending /\ ~InFlight(current[e], e, "EXT")
    /\ Sent(current[e], e, <<Extension>>) # <<>>
    /\ Send(current[e], e, <<Extension>>)
    /\ UNCHANGED <<attempts, status, current, done, keepAlive, storeVars,
                   timerVars, session, historyVars>>

\* sendKeepAlive.  Bound: one KEEPALIVE frame in flight, either way.
SendsKeepAlive(e) ==
    /\ Runs(e) /\ keepAlive[e] = "running"
    /\ e = Client \/ ServerSideKeepAlive
    /\ \A d \in End : ~InFlight(current[e], d, "KEEPALIVE")
    /\ Send(current[e], e, <<KeepAlive(TRUE, received[e])>>)
    /\ UNCHANGED <<attempts, status, current, done, keepAlive, storeVars,
                   timerVars, session, historyVars>>

-----------------------------------------------------------------------------
(* ResumableClientServerInputMultiplexerDemultiplexer.handle *)

HandlesData(k, e) ==
    \E n \in Frame :
        /\ Arrives(k, e, Data(n)) /\ Dispatched(k, e)
        /\ received' = [received EXCEPT ![e] =
                           @ + (Position[n] - Position[n - 1])]
        /\ handled' = [handled EXCEPT ![e] = Append(@, n)]
        /\ TakeAndSend(k, e, <<>>)
        /\ UNCHANGED <<attempts, status, current, done, keepAlive, sent,
                       shifted, firstAvailable, timerVars, session,
                       historyVars>>

HandlesExtension(k, e) ==
    /\ Arrives(k, e, Extension) /\ Dispatched(k, e)
    /\ TakeAndSend(k, e, <<>>)
    /\ UNCHANGED <<attempts, status, current, done, keepAlive, storeVars,
                   timerVars, session, historyVars>>

\* A KEEPALIVE frame drops what the peer has received, and is answered on the
\* current connection, which may not be the one it came on.
HandlesKeepAlive(k, e) ==
    /\ Open(k, e) /\ wire[k][e] # <<>> /\ Dispatched(k, e)
    /\ LET m == Head(wire[k][e])
           answer == (IF Fits(e, m.position) THEN <<>> ELSE <<Error>>)
                       \o (IF m.respond THEN <<KeepAlive(FALSE, received[e])>>
                                        ELSE <<>>)
           taken == [wire EXCEPT ![k][e] = Tail(@)]
       IN /\ m.type = "KEEPALIVE"
          /\ Drop(e, m.position)
          /\ wire' = [taken EXCEPT ![current[e]][Peer(e)] =
                         @ \o Sent(current[e], e, answer)]
          /\ done' = [done EXCEPT ![e] = @ \/ ~Fits(e, m.position)]
    /\ UNCHANGED <<attempts, status, current, keepAlive, sent, received,
                   handled, timerVars, session, overlapped>>

\* An ERROR frame closes the first connection, whichever it came on, and the
\* streams.
HandlesError(k, e) ==
    /\ Arrives(k, e, Error) /\ Dispatched(k, e)
    /\ LET taken == [wire EXCEPT ![k][e] = Tail(@)] IN
          IF status[1][e] = "attached"
          THEN Ends(taken, 1, e) /\ HandleConnectionClose(1, e)
          ELSE wire' = taken /\ UNCHANGED <<status, keepAlive, timerVars>>
    /\ done' = [done EXCEPT ![e] = TRUE]
    /\ session' = IF e = Server THEN "removed" ELSE session
    /\ UNCHANGED <<attempts, current, storeVars, historyVars>>

-----------------------------------------------------------------------------
(* Reconnection *)

\* Mutant: the two positions are swapped.
Reconnects_Swapped ==
    /\ reconnecting /\ attempts < MaxConnections
    /\ reconnecting' = FALSE
    /\ attempts' = attempts + 1
    /\ wire' = [wire EXCEPT ![attempts + 1][Server] =
                   <<ResumeFrame(received[Client], firstAvailable[Client])>>]
    /\ UNCHANGED <<status, current, done, keepAlive, storeVars, timers,
                   timeoutId, session, historyVars>>

\* The reconnector gets a connection, at last, and sends RESUME on it.
Reconnects ==
    /\ reconnecting /\ attempts < MaxConnections
    /\ reconnecting' = FALSE
    /\ attempts' = attempts + 1
    /\ wire' = [wire EXCEPT ![attempts + 1][Server] =
                   <<ResumeFrame(firstAvailable[Client], received[Client])>>]
    /\ UNCHANGED <<status, current, done, keepAlive, storeVars, timers,
                   timeoutId, session, historyVars>>

\* The application's reconnectFunction rejects.
GivesUp ==
    /\ reconnecting
    /\ reconnecting' = FALSE
    /\ done' = [done EXCEPT ![Client] = TRUE]
    /\ UNCHANGED <<attempts, status, wire, current, keepAlive, storeVars,
                   timers, timeoutId, session, historyVars>>

\* Mutant: no answer.
RefusesResume_Silent(k) ==
    /\ session # "stored"
    /\ Open(k, Server) /\ status[k][Server] = "waiting" /\ wire[k][Server] # <<>>
    /\ TakeAndSend(k, Server, <<>>)
    /\ UNCHANGED <<attempts, status, current, done, keepAlive, storeVars,
                   timerVars, session, historyVars>>

\* The server has no session for the token.
RefusesResume(k) ==
    /\ session # "stored"
    /\ Open(k, Server) /\ status[k][Server] = "waiting" /\ wire[k][Server] # <<>>
    /\ Ends([wire EXCEPT ![k][Client] = @ \o Sent(k, Server, <<Error>>)],
            k, Server)
    /\ UNCHANGED <<attempts, current, done, keepAlive, storeVars, timerVars,
                   session, historyVars>>

\* Mutant: the timer runs on.
Resumes_KeepsTimer(k) ==
    /\ session = "stored"
    /\ Open(k, Server) /\ status[k][Server] = "waiting" /\ wire[k][Server] # <<>>
    /\ LET m == Head(wire[k][Server]) IN
          /\ Drop(Server, m.server)
          /\ TakeAndSend(k, Server,
                <<ResumeOk(received[Server])>> \o Drained(Server, m.server))
    /\ status' = [status EXCEPT ![k][Server] = "attached"]
    /\ keepAlive' = [keepAlive EXCEPT ![Server] = Start(@)]
    /\ current' = [current EXCEPT ![Server] = k]
    /\ overlapped' = (overlapped \/ \E j \in 1 .. k - 1 : Open(j, Server))
    /\ UNCHANGED <<attempts, done, sent, received, handled, reconnecting, timers,
                   timeoutId, session>>

\* resume() with a RESUME frame: refused if the client has dropped what was
\* not received, or if the client's position does not fit the store.  The
\* factory returns the multiplexer in any case.
Resumes(k) ==
    /\ session = "stored"
    /\ Open(k, Server) /\ status[k][Server] = "waiting" /\ wire[k][Server] # <<>>
    /\ LET m == Head(wire[k][Server])
           known == received[Server] >= m.client
           fits == known /\ Fits(Server, m.server)
       IN /\ IF known THEN Drop(Server, m.server)
             ELSE inconsistent' = TRUE /\ UNCHANGED <<shifted, firstAvailable>>
          /\ TakeAndSend(k, Server,
                IF fits
                THEN <<ResumeOk(received[Server])>> \o Drained(Server, m.server)
                ELSE <<Error>>)
          /\ status' = [status EXCEPT ![k][Server] = IF fits THEN "attached"
                                                            ELSE "adopted"]
          /\ keepAlive' = IF fits THEN [keepAlive EXCEPT ![Server] = Start(@)]
                                  ELSE keepAlive
          /\ done' = [done EXCEPT ![Server] = @ \/ ~fits]
    /\ current' = [current EXCEPT ![Server] = k]
    /\ timers' = timers \ {timeoutId}
    /\ overlapped' = (overlapped \/ \E j \in 1 .. k - 1 : Open(j, Server))
    /\ UNCHANGED <<attempts, sent, received, handled, reconnecting, timeoutId,
                   session>>

\* What resume() does with a RESUME_OK frame, if it then sends the given
\* frames.
Continues(k, frames) ==
    /\ Open(k, Client) /\ status[k][Client] = "waiting"
    /\ LET m == Head(wire[k][Client])
           fits == Fits(Client, m.client)
       IN /\ Drop(Client, m.client)
          /\ TakeAndSend(k, Client, (IF fits THEN <<>> ELSE <<Error>>) \o frames)
          /\ done' = [done EXCEPT ![Client] = @ \/ ~fits]
    /\ status' = [status EXCEPT ![k][Client] = "attached"]
    /\ keepAlive' = [keepAlive EXCEPT ![Client] = Start(@)]
    /\ UNCHANGED <<attempts, sent, received, handled, timerVars, session,
                   overlapped>>

\* Mutants: the store is drained before it is cut; the multiplexer keeps its
\* old outbound.
HandlesResumeOk_DrainsAll(k) ==
    /\ wire[k][Client] # <<>> /\ Head(wire[k][Client]).type = "RESUME_OK"
    /\ Continues(k, Drained(Client, firstAvailable[Client]))
    /\ current' = [current EXCEPT ![Client] = k]

HandlesResumeOk_OldOutbound(k) ==
    /\ wire[k][Client] # <<>> /\ Head(wire[k][Client]).type = "RESUME_OK"
    /\ Continues(k, Drained(Client, Head(wire[k][Client]).client))
    /\ UNCHANGED current

\* resume() with a RESUME_OK frame, which goes on when dropTo has failed.
HandlesResumeOk(k) ==
    /\ wire[k][Client] # <<>> /\ Head(wire[k][Client]).type = "RESUME_OK"
    /\ Continues(k, Drained(Client, Head(wire[k][Client]).client))
    /\ current' = [current EXCEPT ![Client] = k]

\* Another frame than RESUME_OK: the client answers with an ERROR frame and
\* closes the connection and the streams.
RefusesHandshake(k) ==
    /\ Open(k, Client) /\ status[k][Client] = "waiting" /\ wire[k][Client] # <<>>
    /\ Head(wire[k][Client]).type # "RESUME_OK"
    /\ Ends([wire EXCEPT ![k][Server] = @ \o Sent(k, Client, <<Error>>)],
            k, Client)
    /\ done' = [done EXCEPT ![Client] = TRUE]
    /\ UNCHANGED <<attempts, current, keepAlive, storeVars, timerVars, session,
                   historyVars>>

-----------------------------------------------------------------------------
(* The server's timer and the server's end *)

\* The streams are closed; the session stays in the store.
SessionTimesOut(k) ==
    /\ k \in timers
    /\ timers' = timers \ {k}
    /\ done' = [done EXCEPT ![Server] = TRUE]
    /\ UNCHANGED <<attempts, status, wire, current, keepAlive, storeVars,
                   reconnecting, timeoutId, session, historyVars>>

\* The server starts again, with no session.
ServerRestarts ==
    /\ attempts < MaxConnections
    /\ session # "lost"
    /\ session' = "lost"
    /\ status' = [k \in Connection |->
                     IF k <= attempts THEN [status[k] EXCEPT ![Server] = "closed"]
                                      ELSE status[k]]
    /\ \E rest \in 0 .. Len(wire[attempts][Client]) :
          wire' = [k \in Connection |->
                     [e \in End |-> IF e = Client /\ k = attempts
                                    THEN SubSeq(wire[k][e], 1, rest) ELSE <<>>]]
    /\ timers' = {}
    /\ keepAlive' = [keepAlive EXCEPT ![Server] = "closed"]
    /\ done' = [done EXCEPT ![Server] = TRUE]
    /\ UNCHANGED <<attempts, current, storeVars, reconnecting, timeoutId,
                   historyVars>>

-----------------------------------------------------------------------------

Handles(k, e) ==
    \/ HandlesData(k, e)
    \/ HandlesExtension(k, e)
    \/ HandlesKeepAlive(k, e)
    \/ HandlesError(k, e)

Handshakes(k) ==
    \/ RefusesResume(k)
    \/ Resumes(k)
    \/ HandlesResumeOk(k)
    \/ RefusesHandshake(k)

Next ==
    \/ \E e \in End : SendsData(e) \/ SendsExtension(e) \/ SendsKeepAlive(e)
    \/ \E k \in Connection, e \in End : Handles(k, e) \/ ConnectionCloses(k, e)
    \/ \E k \in Connection : Handshakes(k) \/ SessionTimesOut(k)
    \/ Reconnects \/ GivesUp \/ ServerRestarts

Spec == Init /\ [][Next]_vars

\* What e's event loop has to do: handle what has arrived, and notice that
\* the peer has closed a connection.
EventLoop(e) ==
    \E k \in Connection :
        \/ Handles(k, e)
        \/ e = Client /\ (HandlesResumeOk(k) \/ RefusesHandshake(k))
        \/ e = Server /\ (RefusesResume(k) \/ Resumes(k))
        \/ ~Open(k, Peer(e)) /\ ConnectionCloses(k, e)

\* The event loops run, and the application's reconnectFunction resolves or
\* rejects.
Fairness ==
    /\ \A e \in End : WF_vars(EventLoop(e))
    /\ WF_vars(Reconnects \/ GivesUp)

FairSpec == Spec /\ Fairness

-----------------------------------------------------------------------------
(* Properties.  Two connections of a session may be open at the server at    *)
(* once: what is said "unless overlapped" need not hold otherwise.           *)

\* A session is a Link in each direction: the client's streams see one whatever
\* happens, those of the server until two connections overlap (store, record,
\* dropTo, drain, and the handle of both multiplexers).
ToClient == INSTANCE Link WITH sent <- sent[Server], handled <- handled[Client]
ToServer == INSTANCE Link WITH sent <- sent[Client], handled <- handled[Server]

PromiseToStreams ==
    /\ ToClient!Spec
    /\ ToServer!Init /\ [][overlapped' \/ ToServer!Next]_(ToServer!link)

\* A frame leaves the store only when the peer has handled it, and a position
\* that an end gets fits what it has stored, so that no dropTo throws: unless
\* overlapped (dropTo, and the positions in KEEPALIVE, RESUME and RESUME_OK).
NothingForgotten ==
    ~overlapped => /\ \A e \in End : shifted[e] <= Len(handled[Peer(e)])
                   /\ ~inconsistent

\* A server that still has the session can always resume it, overlapped or
\* not: it has received whatever the client has dropped, and has stored
\* whatever the client has not received (the checks of RESUME in resume).
ResumeAccepted ==
    \A k \in 2 .. attempts :
        session = "stored" /\ status[k][Server] = "waiting"
          /\ wire[k][Server] # <<>>
        => LET m == Head(wire[k][Server])
           IN received[Server] >= m.client /\ Fits(Server, m.server)

\* The session timer never runs while the session has a connection, unless
\* overlapped (clearTimeout in resume).
LiveSessionNotTimed ==
    ~overlapped /\ timers # {} => ~Open(current[Server], Server)

\* The connection was lost before RESUME_OK came, and nobody watches it.
Stranded ==
    ~reconnecting /\ ~done[Client] /\ ~Open(attempts, Client)

\* The frames that an end has sent are handled by its peer, however many
\* connections are lost, or the client's streams are closed, or the session
\* has ended at the server, or it is stranded or overlapped.
EventuallyDelivered ==
    []<>(\/ \A e \in End : Len(handled[Peer(e)]) = sent[e]
         \/ done[Client] \/ done[Server]
         \/ Stranded \/ overlapped)

\* A client whose session is gone at the server closes its streams, or is
\* stranded.
LossNoticed == []<>(session # "stored" => done[Client] \/ Stranded)
=============================================================================
