----------------------------- MODULE Connection -----------------------------
(***************************************************************************)
(* One clever::connection on the server and the one it talks to on a       *)
(* client (CleverCore/clever_Connection.h, clever_IClient.h), with the TCP *)
(* stream between them.  Each end runs its asio handlers on one thread, so *)
(* a handler is one step; an application thread (main on the server, the   *)
(* UI thread on the client) posts work to it.                              *)
(*                                                                         *)
(* A message is a number (its place among the messages its sender sent)    *)
(* and whether it has a body.  The stream carries 8-byte units (the        *)
(* challenge, the answer, message headers) and bodies.  An asynchronous    *)
(* write puts its bytes on the stream when it completes, in the order the  *)
(* writes of an end were issued.                                           *)
(***************************************************************************)
EXTENDS Naturals, Sequences, SequencesExt

CONSTANTS
  ServerSends,  \* bound: messages the server sends after ServerAccept
  ClientSends,  \* bound: messages the client sends
  EarlySend     \* TRUE: the client application sends whenever IsConnected()
                \* (every button handler); FALSE: it first waits for a message
                \* of the server (Startup::tryLoginRemembered)

ASSUME SendsAssumption == ServerSends \in Nat /\ ClientSends \in Nat
ASSUME EarlySendAssumption == EarlySend \in BOOLEAN

Ends == {"server", "client"}
Peer(e) == IF e = "server" THEN "client" ELSE "server"

MaxSend(e) == IF e = "server" THEN ServerSends + 1 ELSE ClientSends
LastMessage == Max({MaxSend(e) : e \in Ends})
Message == [n : 1..LastMessage, body : BOOLEAN]
ServerAccept == [n |-> 1, body |-> FALSE]
Unit == [kind : {"challenge", "answer", "wrong"}]
          \cup [kind : {"header", "body"}, msg : Message]

VARIABLES
  net,          \* TCP: "down", then "up" or "refused"; "broken" ends it
  socket,       \* each end's m_socket
  posted,       \* work posted to each end's asio_context, oldest first
  writes,       \* asynchronous writes each end has issued, oldest first
  reads,        \* what the asynchronous read of each end waits for, or "none"
  wire,         \* units an end has sent and its peer has not read
  out,          \* m_qMessagesOut
  tmpIn,        \* m_msgTemporaryIn: the message being read and whose body the
                \* body vector holds (0: none)
  delivered,    \* all that was pushed to each end's m_qMessagesIn
  sent,         \* all that each application passed to Send
  ui,           \* the client process: "running", in Disconnect() between its
                \* first and second call ("closing"), after it ("left"), or
                \* ended by std::terminate ("terminated")
  validated     \* the server called OnClientValidated

connVars == <<net, socket, posted, writes, reads, wire, out, tmpIn,
              delivered, sent, ui, validated>>

SocketState == {"none", "connecting", "open", "closed"}
WriteKind == {"challenge", "answer", "wrong", "header", "body"}
ReadKind == {"none", "validation", "header", "body"}
NoMessage == [n |-> 0, body |-> FALSE]
Close == NoMessage   \* the posted work that closes the socket

TypeOK ==
  /\ net \in {"down", "up", "refused", "broken"}
  /\ socket \in [Ends -> SocketState]
  /\ posted \in [Ends -> Seq(Message \cup {Close})]
  /\ writes \in [Ends -> Seq(WriteKind)]
  /\ reads \in [Ends -> ReadKind]
  /\ wire \in [Ends -> Seq(Unit)]
  /\ out \in [Ends -> Seq(Message)]
  /\ tmpIn \in [Ends -> [msg : Message \cup {NoMessage}, bodyOf : 0..LastMessage]]
  /\ delivered \in [Ends -> Seq([msg : Message \cup {NoMessage}, bodyOf : 0..LastMessage])]
  /\ sent \in [Ends -> Seq(Message)]
  /\ ui \in {"running", "closing", "left", "terminated"}
  /\ validated \in BOOLEAN

Init ==
  /\ net = "down"
  /\ socket = [e \in Ends |-> "none"]
  /\ posted = [e \in Ends |-> <<>>]
  /\ writes = [e \in Ends |-> <<>>]
  /\ reads = [e \in Ends |-> "none"]
  /\ wire = [e \in Ends |-> <<>>]
  /\ out = [e \in Ends |-> <<>>]
  /\ tmpIn = [e \in Ends |-> [msg |-> NoMessage, bodyOf |-> 0]]
  /\ delivered = [e \in Ends |-> <<>>]
  /\ sent = [e \in Ends |-> <<>>]
  /\ ui = "running"
  /\ validated = FALSE

\* connection::IsConnected, m_socket.is_open(): a socket is open from the
\* moment async_connect opens it, connected or not.
IsConnected(e) == socket[e] \in {"connecting", "open"}

\* The asio thread of the client ends when Disconnect() stops the context.
AsioRuns(e) == e = "client" => ui \in {"running", "closing"}

-----------------------------------------------------------------------------
(***************************************************************************)
(* Connecting.                                                             *)
(***************************************************************************)

\* client_interface::Connect for the first time: the connection object, the
\* asynchronous connect and the thread of the context.
Connect ==
  /\ ui = "running"
  /\ socket["client"] = "none"
  /\ socket' = [socket EXCEPT !["client"] = "connecting"]
  /\ UNCHANGED <<net, posted, writes, reads, wire, out, tmpIn, delivered, sent,
                 ui, validated>>

\* Client::getInstance finds the connection lost and calls Connect again: it
\* assigns a new thread to thrContext, which nobody joined, and the assignment
\* to a joinable std::thread ends the process.
Reconnect ==
  /\ ui = "running"
  /\ socket["client"] = "closed"
  /\ ui' = "terminated"
  /\ UNCHANGED <<net, socket, posted, writes, reads, wire, out, tmpIn,
                 delivered, sent, validated>>

\* The network: the TCP connection comes up or is refused ...
NetworkAnswers ==
  /\ net = "down"
  /\ socket["client"] = "connecting"
  /\ net' \in {"up", "refused"}
  /\ UNCHANGED <<socket, posted, writes, reads, wire, out, tmpIn, delivered,
                 sent, ui, validated>>

\* ... and may break at any time.
NetworkBreaks ==
  /\ net = "up"
  /\ net' = "broken"
  /\ UNCHANGED <<socket, posted, writes, reads, wire, out, tmpIn, delivered,
                 sent, ui, validated>>

\* The handler of ConnectToServer; after an error it does nothing, and the
\* socket stays open.
Connected ==
  /\ AsioRuns("client")
  /\ socket["client"] = "connecting"
  /\ net = "up"
  /\ socket' = [socket EXCEPT !["client"] = "open"]
  /\ reads' = [reads EXCEPT !["client"] = "validation"]
  /\ UNCHANGED <<net, posted, writes, wire, out, tmpIn, delivered, sent, ui,
                 validated>>

\* WaitForClientConnection's handler with OnClientConnect and ConnectToClient:
\* Send(ServerAccept) is posted, so the challenge is the first write issued.
\* (The socket the acceptor hands out is open.)
Accepted(tasks, queue, issued) ==
  /\ net = "up"
  /\ socket["server"] = "none"
  /\ socket' = [socket EXCEPT !["server"] = "open"]
  /\ sent' = [sent EXCEPT !["server"] = <<ServerAccept>>]
  /\ posted' = [posted EXCEPT !["server"] = tasks]
  /\ out' = [out EXCEPT !["server"] = queue]
  /\ writes' = [writes EXCEPT !["server"] = issued]
  /\ reads' = [reads EXCEPT !["server"] = "validation"]
  /\ UNCHANGED <<net, wire, tmpIn, delivered, ui, validated>>

MutantAccept ==   \* Send runs at once (dispatch) instead of being posted
  Accepted(<<>>, <<ServerAccept>>, <<"header", "challenge">>)

Accept == Accepted(<<ServerAccept>>, <<>>, <<"challenge">>)

-----------------------------------------------------------------------------
(***************************************************************************)
(* Sending.                                                                *)
(***************************************************************************)

\* connection::Send, called on the server by the message handlers and on the
\* client through client_interface::Send, which drops the message unless
\* IsConnected().
MaySend(e) ==
  /\ Len(sent[e]) < MaxSend(e)
  /\ IF e = "server"
       THEN socket[e] # "none"
       ELSE ui = "running" /\ IsConnected(e) /\ (EarlySend \/ delivered[e] # <<>>)

Send(e, body) ==
  LET m == [n |-> Len(sent[e]) + 1, body |-> body]
  IN  /\ MaySend(e)
      /\ sent' = [sent EXCEPT ![e] = Append(@, m)]
      /\ posted' = [posted EXCEPT ![e] = Append(@, m)]
      /\ UNCHANGED <<net, socket, writes, reads, wire, out, tmpIn, delivered,
                     ui, validated>>

\* The work posted by Send: start the chain of writes unless it is running.
MutantStartWriting(e, m) ==   \* starts a second chain
  /\ out' = [out EXCEPT ![e] = Append(@, m)]
  /\ writes' = [writes EXCEPT ![e] = Append(@, "header")]

StartWriting(e, m) ==
  /\ out' = [out EXCEPT ![e] = Append(@, m)]
  /\ writes' = IF out[e] = <<>> THEN [writes EXCEPT ![e] = Append(@, "header")]
                                ELSE writes

MutantRunPosted(e) ==   \* takes every posted work for a message
  /\ AsioRuns(e)
  /\ posted[e] # <<>>
  /\ posted' = [posted EXCEPT ![e] = Tail(@)]
  /\ StartWriting(e, Head(posted[e]))
  /\ UNCHANGED <<net, socket, reads, wire, tmpIn, delivered, sent, ui, validated>>

\* The asio thread runs the oldest posted work.
RunPosted(e) ==
  /\ AsioRuns(e)
  /\ posted[e] # <<>>
  /\ posted' = [posted EXCEPT ![e] = Tail(@)]
  /\ IF Head(posted[e]) = Close
       THEN /\ socket' = [socket EXCEPT ![e] = "closed"]
            /\ UNCHANGED <<out, writes>>
       ELSE StartWriting(e, Head(posted[e])) /\ UNCHANGED socket
  /\ UNCHANGED <<net, reads, wire, tmpIn, delivered, sent, ui, validated>>

\* WriteHeader and WriteBody after a message is complete: the next header.
MutantNextMessage(e) ==   \* pops the message and forgets the others
  /\ out' = [out EXCEPT ![e] = Tail(@)]
  /\ writes' = [writes EXCEPT ![e] = Tail(@)]

NextMessage(e) ==
  /\ out' = [out EXCEPT ![e] = Tail(@)]
  /\ writes' = [writes EXCEPT ![e] =
                  IF Len(out[e]) > 1 THEN Append(Tail(@), "header") ELSE Tail(@)]

\* The handler of the oldest write, when its bytes are on the stream.
WriteDone(e) ==
  /\ AsioRuns(e)
  /\ writes[e] # <<>>
  /\ socket[e] = "open" /\ net = "up"
  /\ LET w == Head(writes[e])
     IN  \/ /\ w \in {"challenge", "answer", "wrong"}
            /\ wire' = [wire EXCEPT ![e] = Append(@, [kind |-> w])]
            /\ writes' = [writes EXCEPT ![e] = Tail(@)]
            /\ reads' = IF e = "client" THEN [reads EXCEPT ![e] = "header"]
                                        ELSE reads
            /\ UNCHANGED out
         \/ /\ w \in {"header", "body"}
            /\ wire' = [wire EXCEPT ![e] =
                          Append(@, [kind |-> w, msg |-> Head(out[e])])]
            /\ IF w = "header" /\ Head(out[e]).body
                 THEN /\ writes' = [writes EXCEPT ![e] = Append(Tail(@), "body")]
                      /\ UNCHANGED out
                 ELSE NextMessage(e)
            /\ UNCHANGED reads
  /\ UNCHANGED <<net, socket, posted, tmpIn, delivered, sent, ui, validated>>

\* A write or the read of an end fails: its own socket is not connected, the
\* network broke or the peer closed.  Every handler then closes the socket.
MayFail(e) ==
  \/ socket[e] # "open"
  \/ net = "broken"
  \/ socket[Peer(e)] = "closed"

WriteFailed(e) ==
  /\ AsioRuns(e)
  /\ writes[e] # <<>>
  /\ MayFail(e)
  /\ writes' = [writes EXCEPT ![e] = Tail(@)]
  /\ socket' = [socket EXCEPT ![e] = "closed"]
  /\ UNCHANGED <<net, posted, reads, wire, out, tmpIn, delivered, sent, ui,
                 validated>>

-----------------------------------------------------------------------------
(***************************************************************************)
(* Receiving.                                                              *)
(***************************************************************************)
Arriving(e) == wire[Peer(e)]

\* The read of an end completes with what arrives first.
ReadDone(e, what) ==
  /\ AsioRuns(e)
  /\ reads[e] = what
  /\ socket[e] = "open"
  /\ Arriving(e) # <<>>
  /\ wire' = [wire EXCEPT ![Peer(e)] = Tail(@)]
  /\ UNCHANGED <<net, posted, out, sent, ui>>

\* ReadValidation on the client: the answer to whatever eight bytes came.
SolveChallenge ==
  /\ ReadDone("client", "validation")
  /\ reads' = [reads EXCEPT !["client"] = "none"]
  /\ writes' = [writes EXCEPT !["client"] =
                  Append(@, IF Head(Arriving("client")).kind = "challenge"
                              THEN "answer" ELSE "wrong")]
  /\ UNCHANGED <<socket, tmpIn, delivered, validated>>

\* ReadValidation on the server.
CheckAnswer ==
  /\ ReadDone("server", "validation")
  /\ IF Head(Arriving("server")).kind = "answer"
       THEN /\ validated' = TRUE
            /\ reads' = [reads EXCEPT !["server"] = "header"]
            /\ UNCHANGED socket
       ELSE /\ reads' = [reads EXCEPT !["server"] = "none"]
            /\ socket' = [socket EXCEPT !["server"] = "closed"]
            /\ UNCHANGED validated
  /\ UNCHANGED <<writes, tmpIn, delivered>>

\* AddToIncomingMessageQueue hands over the header just read together with
\* whatever the body vector holds, and reads the next header.
Deliver(e, in) ==
  /\ tmpIn' = [tmpIn EXCEPT ![e] = in]
  /\ delivered' = [delivered EXCEPT ![e] = Append(@, in)]
  /\ reads' = [reads EXCEPT ![e] = "header"]

\* ReadHeader; only a header that announces a body changes the body vector.
ReadHeader(e) ==
  /\ ReadDone(e, "header")
  /\ Head(Arriving(e)).kind = "header"
  /\ LET m == Head(Arriving(e)).msg
         in == [tmpIn[e] EXCEPT !.msg = m]
     IN  IF m.body
           THEN /\ tmpIn' = [tmpIn EXCEPT ![e] = in]
                /\ reads' = [reads EXCEPT ![e] = "body"]
                /\ UNCHANGED delivered
           ELSE Deliver(e, in)
  /\ UNCHANGED <<socket, writes, validated>>

MutantReadBody(e) ==   \* delivers without waiting for the body
  /\ ReadDone(e, "body")
  /\ Deliver(e, tmpIn[e])
  /\ UNCHANGED <<socket, writes, validated>>

ReadBody(e) ==
  /\ ReadDone(e, "body")
  /\ Head(Arriving(e)).kind = "body"
  /\ Deliver(e, [tmpIn[e] EXCEPT !.bodyOf = Head(Arriving(e)).msg.n])
  /\ UNCHANGED <<socket, writes, validated>>

ReadFailed(e) ==
  /\ AsioRuns(e)
  /\ reads[e] # "none"
  /\ MayFail(e)
  /\ reads' = [reads EXCEPT ![e] = "none"]
  /\ socket' = [socket EXCEPT ![e] = "closed"]
  /\ UNCHANGED <<net, posted, writes, wire, out, tmpIn, delivered, sent, ui,
                 validated>>

-----------------------------------------------------------------------------
(***************************************************************************)
(* Disconnecting: client_interface::Disconnect posts the close, then stops *)
(* the context and joins its thread.                                       *)
(***************************************************************************)
BeginDisconnect ==
  /\ ui = "running"
  /\ ui' = "closing"
  /\ posted' = IF IsConnected("client")
                 THEN [posted EXCEPT !["client"] = Append(@, Close)]
                 ELSE posted
  /\ UNCHANGED <<net, socket, writes, reads, wire, out, tmpIn, delivered, sent,
                 validated>>

EndDisconnect ==
  /\ ui = "closing"
  /\ ui' = "left"
  /\ UNCHANGED <<net, socket, posted, writes, reads, wire, out, tmpIn,
                 delivered, sent, validated>>

\* The operating system closes what the ended process left open.
ProcessExit ==
  /\ ui = "left"
  /\ socket["client"] \in {"connecting", "open"}
  /\ socket' = [socket EXCEPT !["client"] = "closed"]
  /\ UNCHANGED <<net, posted, writes, reads, wire, out, tmpIn, delivered, sent,
                 ui, validated>>

AsioStep(e) ==
  \/ RunPosted(e)
  \/ WriteDone(e)
  \/ WriteFailed(e)
  \/ ReadHeader(e)
  \/ ReadBody(e)
  \/ ReadFailed(e)

Next ==
  \/ Connect \/ Reconnect
  \/ NetworkAnswers \/ NetworkBreaks
  \/ Connected \/ Accept
  \/ SolveChallenge \/ CheckAnswer
  \/ \E e \in Ends : AsioStep(e)
  \/ \E e \in Ends, body \in BOOLEAN : Send(e, body)
  \/ BeginDisconnect \/ EndDisconnect \/ ProcessExit

\* The asio threads run; the applications and the network owe nothing.
Fairness ==
  /\ WF_connVars(Connected)
  /\ WF_connVars(Accept)
  /\ WF_connVars(SolveChallenge)
  /\ WF_connVars(CheckAnswer)
  /\ \A e \in Ends : WF_connVars(AsioStep(e))

Spec == Init /\ [][Next]_connVars /\ Fairness

-----------------------------------------------------------------------------
(***************************************************************************)
(* Properties.                                                             *)
(***************************************************************************)

\* Both ends agree on where they are in the stream: what arrives first is what
\* the pending read is for.  The server reads the answer of the challenge
\* before any message, the client the challenge before ServerAccept.
FramingInSync ==
  \A e \in Ends :
    (socket[e] = "open" /\ Arriving(e) # <<>>) =>
      LET first == Head(Arriving(e))
      IN  CASE reads[e] = "validation" ->
                 first.kind = IF e = "client" THEN "challenge" ELSE "answer"
            [] reads[e] = "header" -> first.kind = "header"
            [] reads[e] = "body"   -> first.kind = "body" /\ first.msg = tmpIn[e].msg
            [] reads[e] = "none"   -> TRUE

\* Messages arrive in the order in which they were sent, each once, none
\* skipped, and a message with a body with its own body.  (A message without
\* a body arrives with the body of the last message that had one: ReadHeader
\* leaves the body vector as it was.)
DeliveredInOrder ==
  \A e \in Ends :
    LET heard == delivered[e]
    IN  /\ Len(heard) <= Len(sent[Peer(e)])
        /\ \A k \in 1..Len(heard) :
             /\ heard[k].msg = sent[Peer(e)][k]
             /\ heard[k].msg.body => heard[k].bodyOf = k

\* The writes of an end form one chain: never two messages are being written
\* at once, and while the socket is open a waiting message is being written.
MessageWrites(chain) ==
  {k \in 1..Len(chain) : chain[k] \in {"header", "body"}}

OneWriteChain ==
  \A e \in Ends :
    /\ \A j, k \in MessageWrites(writes[e]) : j = k
    /\ out[e] # <<>> /\ socket[e] = "open" => MessageWrites(writes[e]) # {}

\* Both ends together are a Channel: posted work, the two writes and two reads
\* of a message, the handshake and failures do not show (clever_Connection.h).
\* A message with the body of another one would be no message; one without a body
\* is whole though the object it was read into may keep an earlier body.
Whole(d) == IF d.msg.body => d.bodyOf = d.msg.n THEN d.msg ELSE NoMessage
Wires == INSTANCE Channel WITH
  None     <- NoMessage,
  underway <- [e \in Ends |->
                SubSeq(sent[Peer(e)], Len(delivered[e]) + 1, Len(sent[Peer(e)]))],
  heard    <- [e \in Ends |-> IF delivered[e] = <<>> THEN NoMessage
                                ELSE Whole(delivered[e][Len(delivered[e])])]
ChannelSpec == Wires!Spec

\* A message that was sent arrives, unless a socket was closed or the network
\* failed.
Undisturbed == net = "up" /\ ui = "running" /\ \A e \in Ends : socket[e] # "closed"
MessagesArrive ==
  \A e \in Ends, k \in 1..LastMessage :
    Len(sent[Peer(e)]) >= k ~> Len(delivered[e]) >= k \/ ~Undisturbed
=============================================================================
