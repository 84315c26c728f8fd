-------------------------- MODULE ConnectionProofs --------------------------
(***************************************************************************)
(* Theorems about Connection for any numbers of messages: its types, the   *)
(* chain of writes, and that messages arrive as they were sent, so that    *)
(* Connection implements Channel.  They hold of every client.  That both   *)
(* ends keep in step holds of one that waits for the server's first        *)
(* message before it sends (EarlySend = FALSE), as the code does where it  *)
(* remembers a user; what another client sends may overtake its answer,    *)
(* but then the server reads nothing of it.                                *)
(***************************************************************************)
EXTENDS Connection, SequenceTheorems, TLAPS

-----------------------------------------------------------------------------
(***************************************************************************)
(* The invariant of the chain of writes.                                   *)
(***************************************************************************)

\* A message is written while one is waiting, and only then: the chain is
\* started by the first message that waits and ended with the last.
Chain(e) ==
  /\ \A j, k \in MessageWrites(writes[e]) : j = k
  /\ out[e] = <<>> => MessageWrites(writes[e]) = {}
  /\ out[e] # <<>> /\ socket[e] # "closed" => MessageWrites(writes[e]) # {}

CInv == TypeOK /\ \A e \in Ends : Chain(e)

-----------------------------------------------------------------------------
(***************************************************************************)
(* The constants.                                                          *)
(***************************************************************************)
LEMMA EndsFacts ==
  /\ "server" \in Ends /\ "client" \in Ends
  /\ \A e \in Ends : Peer(e) \in Ends /\ Peer(e) # e /\ Peer(Peer(e)) = e
BY DEF Ends, Peer

\* LastMessage is the larger of the two bounds.
LEMMA Bounds ==
  /\ LastMessage \in Nat /\ 1 <= LastMessage
  /\ \A e \in Ends : MaxSend(e) \in Nat /\ MaxSend(e) <= LastMessage
<1> DEFINE B == {MaxSend(e) : e \in Ends}
<1>1. \A e \in Ends : MaxSend(e) \in Nat
  BY SendsAssumption DEF MaxSend
<1>2. B = {MaxSend("server"), MaxSend("client")}
  BY DEF Ends
<1>3. PICK m \in B : \A b \in B : m >= b
  <2>1. MaxSend("server") >= MaxSend("client") \/ MaxSend("client") >= MaxSend("server")
    BY <1>1, EndsFacts
  <2>2. QED BY <1>1, <1>2, <2>1, EndsFacts
<1>4. LastMessage \in B /\ \A b \in B : LastMessage >= b
  BY <1>3 DEF LastMessage, Max
<1>5. 1 <= MaxSend("server") /\ MaxSend("server") \in B
  BY <1>2, SendsAssumption DEF MaxSend
<1>6. LastMessage \in Nat
  BY <1>1, <1>4
<1>7. \A e \in Ends : MaxSend(e) \in B
  OBVIOUS
<1>8. QED BY <1>1, <1>4, <1>5, <1>6, <1>7, EndsFacts

\* Messages are told from the work that closes the socket.
LEMMA MessageFacts ==
  /\ ServerAccept \in Message
  /\ Close \notin Message
  /\ \A m \in Message : m.n \in 1..LastMessage /\ m.body \in BOOLEAN
BY Bounds DEF ServerAccept, Message, Close, NoMessage

-----------------------------------------------------------------------------
(***************************************************************************)
(* Chains of writes.                                                       *)
(***************************************************************************)
LEMMA AppendPair == ASSUME NEW x PROVE Append(<<x>>, "header") = <<x, "header">>
<1>1. <<x>> \in Seq({x, "header"}) /\ <<x, "header">> \in Seq({x, "header"})
  OBVIOUS
<1>2. PICK s \in Seq({x, "header"}) : s = <<x>>
  BY <1>1
<1>3. Len(s) = 1 /\ s[1] = x
  BY <1>2
<1>4. PICK t : t = Append(s, "header")
  OBVIOUS
<1>5. t \in Seq({x, "header"}) /\ Len(t) = 2 /\ t[1] = x /\ t[2] = "header"
  BY <1>2, <1>3, <1>4
<1>6. PICK r \in Seq({x, "header"}) : r = <<x, "header">>
  BY <1>1
<1>7. Len(r) = 2 /\ r[1] = x /\ r[2] = "header"
  BY <1>6
<1>8. \A k \in 1..2 : r[k] = t[k]
  BY <1>5, <1>7
<1>9. r = t
  BY <1>5, <1>6, <1>7, <1>8, SeqEqual
<1>10. QED BY <1>2, <1>4, <1>6, <1>9

LEMMA TailPair ==
  ASSUME NEW x
  PROVE  /\ Tail(<<x>>) = <<>>
         /\ Tail(<<x, "header">>) = <<"header">>
         /\ Tail(<<"header">>) = <<>> /\ Tail(<<"body">>) = <<>>
         /\ <<"header">>[1] = "header" /\ <<"header">> # <<>>
         /\ <<"body">>[1] = "body" /\ <<"body">> # <<>>
OBVIOUS

LEMMA ChainTail ==
  ASSUME NEW s \in Seq(WriteKind), s # <<>>,
         \A j, k \in MessageWrites(s) : j = k
  PROVE  /\ \A j, k \in MessageWrites(Tail(s)) : j = k
         /\ Head(s) \in {"header", "body"} => MessageWrites(Tail(s)) = {}
         /\ Head(s) \notin {"header", "body"} =>
              (MessageWrites(Tail(s)) = {} <=> MessageWrites(s) = {})
<1>1. PICK t : t = Tail(s)
  OBVIOUS
<1>2. /\ t \in Seq(WriteKind) /\ Len(t) = Len(s) - 1 /\ Len(s) \in Nat /\ Len(s) >= 1
      /\ \A k \in 1..Len(t) : t[k] = s[k + 1]
  BY <1>1
<1>3. \A k \in MessageWrites(t) : k \in 1..Len(t) /\ k + 1 \in MessageWrites(s)
  BY <1>2 DEF MessageWrites
<1>4. \A j, k \in MessageWrites(t) : j = k
  BY <1>2, <1>3
<1>5. ASSUME Head(s) \in {"header", "body"} PROVE MessageWrites(t) = {}
  <2>1. 1 \in MessageWrites(s)
    BY <1>2, <1>5 DEF MessageWrites
  <2>2. QED BY <1>2, <1>3, <2>1
<1>6. ASSUME Head(s) \notin {"header", "body"}, MessageWrites(t) = {}
      PROVE  MessageWrites(s) = {}
  <2>1. ASSUME NEW k \in MessageWrites(s) PROVE FALSE
    <3>1. k \in 1..Len(s) /\ s[k] \in {"header", "body"} /\ k # 1
      BY <1>6, <2>1 DEF MessageWrites
    <3>2. k - 1 \in 1..Len(t) /\ t[k - 1] = s[k]
      BY <1>2, <3>1
    <3>3. QED BY <1>6, <3>1, <3>2 DEF MessageWrites
  <2>2. QED BY <2>1
<1>7. QED BY <1>1, <1>3, <1>4, <1>5, <1>6

LEMMA ChainAppend ==
  ASSUME NEW s \in Seq(WriteKind), NEW x \in WriteKind,
         \A j, k \in MessageWrites(s) : j = k,
         x \in {"header", "body"} => MessageWrites(s) = {}
  PROVE  /\ \A j, k \in MessageWrites(Append(s, x)) : j = k
         /\ x \in {"header", "body"} => MessageWrites(Append(s, x)) # {}
         /\ x \notin {"header", "body"} =>
              (MessageWrites(Append(s, x)) = {} <=> MessageWrites(s) = {})
<1>1. PICK t : t = Append(s, x)
  OBVIOUS
<1>2. /\ Len(t) = Len(s) + 1 /\ Len(s) \in Nat /\ t[Len(s) + 1] = x
      /\ \A k \in 1..Len(s) : t[k] = s[k]
  BY <1>1
<1>3. CASE x \in {"header", "body"}
  <2>1. MessageWrites(t) = {Len(s) + 1}
    BY <1>2, <1>3 DEF MessageWrites
  <2>2. QED BY <1>1, <1>3, <2>1
<1>4. CASE x \notin {"header", "body"}
  <2>1. MessageWrites(t) = MessageWrites(s)
    BY <1>2, <1>4 DEF MessageWrites
  <2>2. QED BY <1>1, <1>4, <2>1
<1>5. QED BY <1>3, <1>4

-----------------------------------------------------------------------------
(***************************************************************************)
(* Types and chains, of any client.                                        *)
(***************************************************************************)
LEMMA InitTypes == Init => CInv
<1> SUFFICES ASSUME Init PROVE CInv
  OBVIOUS
<1>1. TypeOK
  <2>1. 0 \in 0..LastMessage
    BY Bounds
  <2>2. tmpIn \in [Ends -> [msg : Message \cup {NoMessage}, bodyOf : 0..LastMessage]]
    BY <2>1 DEF Init
  <2>3. \A S : <<>> \in Seq(S)
    OBVIOUS
  <2>4. /\ posted \in [Ends -> Seq(Message \cup {Close})] /\ writes \in [Ends -> Seq(WriteKind)]
        /\ wire \in [Ends -> Seq(Unit)]
        /\ out \in [Ends -> Seq(Message)] /\ sent \in [Ends -> Seq(Message)]
    BY <2>3 DEF Init
  <2>5. delivered \in [Ends -> Seq([msg : Message \cup {NoMessage}, bodyOf : 0..LastMessage])]
    BY <2>3 DEF Init
  <2>6. /\ net \in {"down", "up", "refused", "broken"}
        /\ socket \in [Ends -> SocketState] /\ reads \in [Ends -> ReadKind]
        /\ ui \in {"running", "closing", "left", "terminated"} /\ validated \in BOOLEAN
    BY DEF Init, SocketState, ReadKind
  <2>7. QED BY <2>2, <2>4, <2>5, <2>6 DEF TypeOK
<1>2. ASSUME NEW e \in Ends PROVE Chain(e)
  BY DEF Init, Chain, MessageWrites
<1>3. QED BY <1>1, <1>2 DEF CInv

\* A header or a body is written only while its message waits.
LEMMA WrittenWaits ==
  ASSUME CInv, NEW e \in Ends, writes[e] # <<>>, Head(writes[e]) \in {"header", "body"}
  PROVE  /\ out[e] \in Seq(Message) /\ out[e] # <<>> /\ Head(out[e]) \in Message
         /\ Tail(out[e]) \in Seq(Message)
<1>1. PICK s : s = writes[e]
  OBVIOUS
<1>2. s \in Seq(WriteKind) /\ s # <<>> /\ out[e] \in Seq(Message)
  BY <1>1 DEF CInv, TypeOK
<1>3. 1 \in MessageWrites(s)
  BY <1>1, <1>2 DEF MessageWrites
<1>4. out[e] # <<>>
  BY <1>1, <1>3 DEF CInv, Chain
<1>5. QED BY <1>2, <1>4

LEMMA KeepsTypesConnecting ==
  ASSUME TypeOK,
         \/ Connect \/ Reconnect \/ NetworkAnswers \/ NetworkBreaks
         \/ Connected \/ Accept \/ BeginDisconnect \/ EndDisconnect \/ ProcessExit
  PROVE  TypeOK'
<1> USE DEF TypeOK, SocketState, ReadKind, WriteKind
<1>1. CASE Connect
  BY <1>1 DEF Connect
<1>2. CASE Reconnect
  BY <1>2 DEF Reconnect
<1>3. CASE NetworkAnswers
  BY <1>3 DEF NetworkAnswers
<1>4. CASE NetworkBreaks
  BY <1>4 DEF NetworkBreaks
<1>5. CASE Connected
  BY <1>5 DEF Connected
<1>6. CASE Accept
  <2>1. <<ServerAccept>> \in Seq(Message) /\ <<ServerAccept>> \in Seq(Message \cup {Close})
        /\ <<"challenge">> \in Seq(WriteKind)
    BY MessageFacts
  <2>2. /\ sent' = [sent EXCEPT !["server"] = <<ServerAccept>>]
        /\ posted' = [posted EXCEPT !["server"] = <<ServerAccept>>]
        /\ out' = [out EXCEPT !["server"] = <<>>]
        /\ writes' = [writes EXCEPT !["server"] = <<"challenge">>]
        /\ socket' = [socket EXCEPT !["server"] = "open"]
        /\ reads' = [reads EXCEPT !["server"] = "validation"]
        /\ UNCHANGED <<net, wire, tmpIn, delivered, ui, validated>>
    BY <1>6 DEF Accept, Accepted
  <2>3. sent' \in [Ends -> Seq(Message)] /\ posted' \in [Ends -> Seq(Message \cup {Close})]
    BY <2>1, <2>2
  <2>4. out' \in [Ends -> Seq(Message)]
    <3>1. \A S : <<>> \in Seq(S)
      OBVIOUS
    <3>2. <<>> \in Seq(Message)
      BY <3>1
    <3>3. QED BY <2>2, <3>2
  <2>7. writes' \in [Ends -> Seq(WriteKind)]
    BY <2>1, <2>2
  <2>5. socket' \in [Ends -> SocketState] /\ reads' \in [Ends -> ReadKind]
    BY <2>2
  <2>6. QED BY <2>2, <2>3, <2>4, <2>5, <2>7
<1>7. CASE BeginDisconnect
  <2>1. Append(posted["client"], Close) \in Seq(Message \cup {Close})
    BY EndsFacts
  <2>2. QED BY <1>7, <2>1 DEF BeginDisconnect
<1>8. CASE EndDisconnect
  BY <1>8 DEF EndDisconnect
<1>9. CASE ProcessExit
  BY <1>9 DEF ProcessExit
<1>10. QED BY <1>1, <1>2, <1>3, <1>4, <1>5, <1>6, <1>7, <1>8, <1>9

LEMMA KeepsTypesSending ==
  ASSUME CInv, NEW e \in Ends,
         \/ \E body \in BOOLEAN : Send(e, body)
         \/ RunPosted(e) \/ WriteDone(e) \/ WriteFailed(e)
  PROVE  TypeOK'
<1> USE DEF TypeOK, SocketState, ReadKind, WriteKind
<1>t. TypeOK
  BY DEF CInv
<1>1. ASSUME NEW body \in BOOLEAN, Send(e, body) PROVE TypeOK'
  <2> DEFINE m == [n |-> Len(sent[e]) + 1, body |-> body]
  <2>1. m \in Message
    <3>1. Len(sent[e]) \in Nat /\ Len(sent[e]) < MaxSend(e)
      BY <1>t, <1>1 DEF Send, MaySend
    <3>2. Len(sent[e]) + 1 \in 1..LastMessage
      BY <3>1, Bounds
    <3>3. QED BY <3>2 DEF Message
  <2>2. /\ sent' = [sent EXCEPT ![e] = Append(@, m)]
        /\ posted' = [posted EXCEPT ![e] = Append(@, m)]
        /\ UNCHANGED <<net, socket, writes, reads, wire, out, tmpIn, delivered,
                       ui, validated>>
    BY <1>1 DEF Send
  <2> HIDE DEF m
  <2>3. sent[e] \in Seq(Message) /\ posted[e] \in Seq(Message \cup {Close})
    BY <1>t
  <2>4. Append(sent[e], m) \in Seq(Message)
        /\ Append(posted[e], m) \in Seq(Message \cup {Close})
    BY <2>1, <2>3
  <2>5. QED BY <1>t, <2>2, <2>4
<1>2. CASE RunPosted(e)
  <2>1. posted[e] \in Seq(Message \cup {Close}) /\ posted[e] # <<>>
    BY <1>t, <1>2 DEF RunPosted
  <2>2. Head(posted[e]) \in Message \cup {Close} /\ Tail(posted[e]) \in Seq(Message \cup {Close})
    BY <2>1
  <2>3. CASE Head(posted[e]) = Close
    BY <1>t, <1>2, <2>2, <2>3 DEF RunPosted
  <2>4. CASE Head(posted[e]) # Close
    <3>1. Append(out[e], Head(posted[e])) \in Seq(Message)
      BY <1>t, <2>2, <2>4
    <3>2. Append(writes[e], "header") \in Seq(WriteKind)
      BY <1>t
    <3>3. writes' \in [Ends -> Seq(WriteKind)]
      BY <1>t, <1>2, <2>4, <3>2 DEF RunPosted, StartWriting
    <3>4. QED BY <1>t, <1>2, <2>2, <2>4, <3>1, <3>3 DEF RunPosted, StartWriting
  <2>5. QED BY <2>3, <2>4
<1>3. CASE WriteDone(e)
  <2>1. PICK w : w = Head(writes[e])
    OBVIOUS
  <2>2. writes[e] \in Seq(WriteKind) /\ writes[e] # <<>> /\ w \in WriteKind
        /\ Tail(writes[e]) \in Seq(WriteKind)
    BY <1>t, <1>3, <2>1 DEF WriteDone
  <2>3. UNCHANGED <<net, socket, posted, tmpIn, delivered, sent, ui, validated>>
    BY <1>3 DEF WriteDone
  <2>4. CASE w \in {"challenge", "answer", "wrong"}
    <3>1. /\ wire' = [wire EXCEPT ![e] = Append(@, [kind |-> w])]
          /\ writes' = [writes EXCEPT ![e] = Tail(@)]
          /\ reads' \in [Ends -> ReadKind]
          /\ UNCHANGED out
      BY <1>t, <1>3, <2>1, <2>4 DEF WriteDone
    <3>2. [kind |-> w] \in Unit
      BY <2>4 DEF Unit
    <3>3. Append(wire[e], [kind |-> w]) \in Seq(Unit)
      BY <1>t, <3>2
    <3>4. QED BY <1>t, <2>2, <2>3, <3>1, <3>3
  <2>5. CASE w \in {"header", "body"}
    <3>1. out[e] \in Seq(Message) /\ Head(out[e]) \in Message /\ Tail(out[e]) \in Seq(Message)
      BY <2>1, <2>2, <2>5, WrittenWaits
    <3>2. /\ wire' = [wire EXCEPT ![e] = Append(@, [kind |-> w, msg |-> Head(out[e])])]
          /\ UNCHANGED reads
          /\ \/ /\ writes' = [writes EXCEPT ![e] = Append(Tail(@), "body")]
                /\ UNCHANGED out
             \/ /\ out' = [out EXCEPT ![e] = Tail(@)]
                /\ \/ writes' = [writes EXCEPT ![e] = Append(Tail(@), "header")]
                   \/ writes' = [writes EXCEPT ![e] = Tail(@)]
      BY <1>3, <2>1, <2>5 DEF WriteDone, NextMessage
    <3>3. [kind |-> w, msg |-> Head(out[e])] \in Unit
      BY <2>5, <3>1 DEF Unit
    <3>4. Append(wire[e], [kind |-> w, msg |-> Head(out[e])]) \in Seq(Unit)
      BY <1>t, <3>3
    <3>5. wire' \in [Ends -> Seq(Unit)]
      BY <1>t, <3>2, <3>4
    <3>6. /\ Append(Tail(writes[e]), "body") \in Seq(WriteKind)
          /\ Append(Tail(writes[e]), "header") \in Seq(WriteKind)
      BY <2>2
    <3>7. out' \in [Ends -> Seq(Message)]
      BY <1>t, <3>1, <3>2
    <3>9. writes' \in [Ends -> Seq(WriteKind)]
      BY <1>t, <2>2, <3>2, <3>6
    <3>8. QED BY <1>t, <2>3, <3>2, <3>5, <3>7, <3>9
  <2>6. QED BY <2>2, <2>4, <2>5
<1>4. CASE WriteFailed(e)
  <2>1. writes[e] \in Seq(WriteKind) /\ writes[e] # <<>> /\ Tail(writes[e]) \in Seq(WriteKind)
    BY <1>t, <1>4 DEF WriteFailed
  <2>2. QED BY <1>t, <1>4, <2>1 DEF WriteFailed
<1>5. QED BY <1>1, <1>2, <1>3, <1>4

\* A read takes the first unit that arrives, which has a message if it is a
\* header or a body.
LEMMA ReadEffect ==
  ASSUME TypeOK, NEW e \in Ends, NEW what, ReadDone(e, what)
  PROVE  /\ wire[Peer(e)] \in Seq(Unit) /\ wire[Peer(e)] # <<>>
         /\ Head(wire[Peer(e)]) \in Unit /\ Tail(wire[Peer(e)]) \in Seq(Unit)
         /\ wire' \in [Ends -> Seq(Unit)]
         /\ wire' = [wire EXCEPT ![Peer(e)] = Tail(@)]
         /\ reads[e] = what /\ socket[e] = "open"
         /\ UNCHANGED <<net, posted, out, sent, ui>>
<1>1. /\ wire[Peer(e)] \in Seq(Unit) /\ wire[Peer(e)] # <<>>
      /\ wire' = [wire EXCEPT ![Peer(e)] = Tail(@)]
      /\ reads[e] = what /\ socket[e] = "open"
      /\ UNCHANGED <<net, posted, out, sent, ui>>
  BY EndsFacts DEF TypeOK, ReadDone, Arriving
<1>2. Head(wire[Peer(e)]) \in Unit /\ Tail(wire[Peer(e)]) \in Seq(Unit)
  BY <1>1
<1>3. QED BY <1>1, <1>2, EndsFacts DEF TypeOK

LEMMA UnitFacts ==
  ASSUME NEW u \in Unit
  PROVE  \/ /\ u.kind \in {"challenge", "answer", "wrong"}
            /\ u = [kind |-> u.kind]
         \/ /\ u.kind \in {"header", "body"} /\ u.msg \in Message
            /\ u = [kind |-> u.kind, msg |-> u.msg]
BY DEF Unit

LEMMA DeliverTypes ==
  ASSUME TypeOK, NEW e \in Ends,
         NEW in \in [msg : Message \cup {NoMessage}, bodyOf : 0..LastMessage],
         Deliver(e, in)
  PROVE  /\ tmpIn' \in [Ends -> [msg : Message \cup {NoMessage}, bodyOf : 0..LastMessage]]
         /\ delivered' \in
              [Ends -> Seq([msg : Message \cup {NoMessage}, bodyOf : 0..LastMessage])]
         /\ reads' \in [Ends -> ReadKind]
<1> DEFINE In == [msg : Message \cup {NoMessage}, bodyOf : 0..LastMessage]
<1>1. in \in In /\ tmpIn \in [Ends -> In] /\ delivered \in [Ends -> Seq(In)]
  BY DEF TypeOK
<1> HIDE DEF In
<1>2. Append(delivered[e], in) \in Seq(In)
  BY <1>1
<1>3. tmpIn' \in [Ends -> In] /\ delivered' \in [Ends -> Seq(In)]
  BY <1>1, <1>2 DEF Deliver
<1>4. reads' \in [Ends -> ReadKind]
  BY DEF TypeOK, Deliver, ReadKind
<1>5. QED BY <1>3, <1>4 DEF In

LEMMA KeepsTypesReceiving ==
  ASSUME TypeOK, NEW e \in Ends,
         \/ SolveChallenge \/ CheckAnswer
         \/ ReadHeader(e) \/ ReadBody(e) \/ ReadFailed(e)
  PROVE  TypeOK'
<1>1. CASE SolveChallenge
  <2>1. wire' \in [Ends -> Seq(Unit)] /\ UNCHANGED <<net, posted, out, sent, ui>>
    BY <1>1, ReadEffect, EndsFacts DEF SolveChallenge
  <2>2. Append(writes["client"], "answer") \in Seq(WriteKind)
        /\ Append(writes["client"], "wrong") \in Seq(WriteKind)
    BY EndsFacts DEF TypeOK, WriteKind
  <2>3. writes' \in [Ends -> Seq(WriteKind)]
    BY <1>1, <2>2, EndsFacts DEF SolveChallenge, TypeOK
  <2>4. QED BY <1>1, <2>1, <2>3, EndsFacts DEF SolveChallenge, TypeOK, ReadKind
<1>2. CASE CheckAnswer
  <2>1. wire' \in [Ends -> Seq(Unit)] /\ UNCHANGED <<net, posted, out, sent, ui>>
    BY <1>2, ReadEffect, EndsFacts DEF CheckAnswer
  <2>2. QED BY <1>2, <2>1, EndsFacts DEF CheckAnswer, TypeOK, ReadKind, SocketState
<1>3. CASE ReadHeader(e)
  <2>1. wire' \in [Ends -> Seq(Unit)] /\ UNCHANGED <<net, posted, out, sent, ui>>
    BY <1>3, ReadEffect DEF ReadHeader
  <2>2. PICK m : m = Head(wire[Peer(e)]).msg
    OBVIOUS
  <2>3. m \in Message
    BY <1>3, <2>2, ReadEffect, UnitFacts DEF ReadHeader, Arriving
  <2>4. PICK in : in = [tmpIn[e] EXCEPT !.msg = m]
    OBVIOUS
  <2>5. in \in [msg : Message \cup {NoMessage}, bodyOf : 0..LastMessage]
    BY <2>3, <2>4 DEF TypeOK
  <2>6. CASE m.body
    BY <1>3, <2>1, <2>2, <2>4, <2>5, <2>6 DEF ReadHeader, Arriving, TypeOK, ReadKind
  <2>7. CASE ~m.body
    <3>1. Deliver(e, in) /\ UNCHANGED <<socket, writes, validated>>
      BY <1>3, <2>2, <2>4, <2>7 DEF ReadHeader, Arriving
    <3>2. QED BY <2>1, <2>5, <3>1, DeliverTypes DEF TypeOK
  <2>8. QED BY <2>6, <2>7
<1>4. CASE ReadBody(e)
  <2>1. wire' \in [Ends -> Seq(Unit)] /\ UNCHANGED <<net, posted, out, sent, ui>>
    BY <1>4, ReadEffect DEF ReadBody
  <2>2. PICK m : m = Head(wire[Peer(e)]).msg
    OBVIOUS
  <2>3. m \in Message
    BY <1>4, <2>2, ReadEffect, UnitFacts DEF ReadBody, Arriving
  <2>4. m.n \in 0..LastMessage
    BY <2>3, MessageFacts, Bounds
  <2>5. PICK in : in = [tmpIn[e] EXCEPT !.bodyOf = m.n]
    OBVIOUS
  <2>6. in \in [msg : Message \cup {NoMessage}, bodyOf : 0..LastMessage]
    BY <2>4, <2>5 DEF TypeOK
  <2>7. Deliver(e, in) /\ UNCHANGED <<socket, writes, validated>>
    BY <1>4, <2>2, <2>5 DEF ReadBody, Arriving
  <2>8. QED BY <2>1, <2>6, <2>7, DeliverTypes DEF TypeOK
<1>5. CASE ReadFailed(e)
  BY <1>5 DEF ReadFailed, TypeOK, ReadKind, SocketState
<1>6. QED BY <1>1, <1>2, <1>3, <1>4, <1>5

\* Connecting and receiving leave the messages' writes alone; SolveChallenge
\* adds the answer of the handshake.
LEMMA KeepsChainReceiving ==
  ASSUME CInv, NEW e \in Ends, NEW d \in Ends,
         \/ Connect \/ Reconnect \/ NetworkAnswers \/ NetworkBreaks
         \/ Connected \/ Accept \/ BeginDisconnect \/ EndDisconnect \/ ProcessExit
         \/ SolveChallenge \/ CheckAnswer
         \/ ReadHeader(e) \/ ReadBody(e) \/ ReadFailed(e)
  PROVE  Chain(d)'
<1>t. TypeOK /\ Chain(d) /\ writes[d] \in Seq(WriteKind)
  BY DEF CInv, TypeOK
<1>1. CASE \/ Connect \/ Reconnect \/ NetworkAnswers \/ NetworkBreaks
           \/ Connected \/ BeginDisconnect \/ EndDisconnect \/ ProcessExit
           \/ CheckAnswer \/ ReadHeader(e) \/ ReadBody(e) \/ ReadFailed(e)
  <2>1. /\ UNCHANGED <<writes, out>>
        /\ socket[d] = "closed" => socket'[d] = "closed"
    <3>1. CASE Connect
      BY <1>t, <3>1, EndsFacts DEF Connect, TypeOK
    <3>2. CASE Reconnect \/ NetworkAnswers \/ NetworkBreaks \/ BeginDisconnect \/ EndDisconnect
      BY <3>2 DEF Reconnect, NetworkAnswers, NetworkBreaks, BeginDisconnect, EndDisconnect
    <3>3. CASE Connected
      BY <1>t, <3>3, EndsFacts DEF Connected, TypeOK
    <3>4. CASE ProcessExit
      BY <1>t, <3>4, EndsFacts DEF ProcessExit, TypeOK
    <3>5. CASE CheckAnswer
      BY <1>t, <3>5, EndsFacts DEF CheckAnswer, ReadDone, TypeOK
    <3>6. CASE ReadHeader(e) \/ ReadBody(e)
      BY <3>6 DEF ReadHeader, ReadBody, ReadDone
    <3>7. CASE ReadFailed(e)
      BY <1>t, <3>7 DEF ReadFailed, TypeOK
    <3>8. QED BY <1>1, <3>1, <3>2, <3>3, <3>4, <3>5, <3>6, <3>7
  <2>2. QED BY <1>t, <2>1 DEF Chain
<1>2. CASE Accept
  <2>1. MessageWrites(<<"challenge">>) = {}
    BY DEF MessageWrites
  <2>2. /\ socket' = [socket EXCEPT !["server"] = "open"]
        /\ writes' = [writes EXCEPT !["server"] = <<"challenge">>]
        /\ out' = [out EXCEPT !["server"] = <<>>]
    BY <1>2 DEF Accept, Accepted
  <2>3. CASE d = "server"
    <3>1. writes'[d] = <<"challenge">> /\ out'[d] = <<>>
      BY <1>t, <2>2, <2>3 DEF TypeOK
    <3>2. QED BY <2>1, <3>1 DEF Chain
  <2>4. CASE d # "server"
    BY <1>t, <2>2, <2>4 DEF Chain, TypeOK
  <2>5. QED BY <2>3, <2>4
<1>3. CASE SolveChallenge
  <2>1. PICK x \in {"answer", "wrong"} :
          writes' = [writes EXCEPT !["client"] = Append(@, x)]
    BY <1>3 DEF SolveChallenge
  <2>2. UNCHANGED <<out, socket>>
    BY <1>3 DEF SolveChallenge, ReadDone
  <2>3. CASE d = "client"
    <3>1. writes'[d] = Append(writes[d], x)
      BY <1>t, <2>1, <2>3 DEF TypeOK
    <3>2. \A j, k \in MessageWrites(writes[d]) : j = k
      BY <1>t DEF Chain
    <3>3. x \in WriteKind /\ x \notin {"header", "body"}
      BY DEF WriteKind
    <3>4. /\ \A j, k \in MessageWrites(writes'[d]) : j = k
          /\ MessageWrites(writes'[d]) = {} <=> MessageWrites(writes[d]) = {}
      BY <1>t, <3>1, <3>2, <3>3, ChainAppend
    <3>5. QED BY <1>t, <2>2, <3>4 DEF Chain
  <2>4. CASE d # "client"
    BY <1>t, <2>1, <2>2, <2>4 DEF Chain, TypeOK
  <2>5. QED BY <2>3, <2>4
<1>4. QED BY <1>1, <1>2, <1>3

\* Sending: the first message that waits starts the chain, a message that is
\* written goes on with its body or the next header.
LEMMA KeepsChainSending ==
  ASSUME CInv, NEW e \in Ends, NEW d \in Ends,
         \/ \E body \in BOOLEAN : Send(e, body)
         \/ RunPosted(e) \/ WriteDone(e) \/ WriteFailed(e)
  PROVE  Chain(d)'
<1>t. /\ TypeOK /\ Chain(e) /\ Chain(d)
      /\ writes[e] \in Seq(WriteKind) /\ out[e] \in Seq(Message)
      /\ \A j, k \in MessageWrites(writes[e]) : j = k
  BY DEF CInv, TypeOK, Chain
<1>1. CASE \E body \in BOOLEAN : Send(e, body)
  BY <1>t, <1>1 DEF Send, Chain
<1>2. CASE d # e
  <2>1. writes'[d] = writes[d] /\ out'[d] = out[d] /\ socket'[d] = socket[d]
    <3>1. CASE RunPosted(e)
      BY <1>t, <1>2, <3>1 DEF RunPosted, StartWriting, TypeOK
    <3>2. CASE WriteDone(e)
      BY <1>t, <1>2, <3>2 DEF WriteDone, NextMessage, TypeOK
    <3>3. CASE WriteFailed(e)
      BY <1>t, <1>2, <3>3 DEF WriteFailed, TypeOK
    <3>4. CASE \E body \in BOOLEAN : Send(e, body)
      BY <3>4 DEF Send
    <3>5. QED BY <3>1, <3>2, <3>3, <3>4
  <2>2. QED BY <1>t, <2>1 DEF Chain
<1>3. CASE d = e /\ RunPosted(e)
  <2>1. CASE Head(posted[e]) = Close
    <3>1. writes' = writes /\ out' = out /\ socket'[e] = "closed"
      BY <1>t, <1>3, <2>1 DEF RunPosted, TypeOK
    <3>2. QED BY <1>t, <1>3, <3>1 DEF Chain
  <2>2. CASE Head(posted[e]) # Close
    <3>1. UNCHANGED socket /\ StartWriting(e, Head(posted[e]))
      BY <1>3, <2>2 DEF RunPosted
    <3>2. PICK o : o = Append(out[e], Head(posted[e]))
      OBVIOUS
    <3>3. out'[e] = o /\ o # <<>>
      <4>1. Len(o) = Len(out[e]) + 1 /\ Len(out[e]) \in Nat
        BY <1>t, <3>2
      <4>2. out'[e] = o
        BY <1>t, <3>1, <3>2 DEF StartWriting, TypeOK
      <4>3. QED BY <4>1, <4>2
    <3>4. CASE out[e] = <<>>
      <4>1. writes'[e] = Append(writes[e], "header")
        BY <1>t, <3>1, <3>4 DEF StartWriting, TypeOK
      <4>2. MessageWrites(writes[e]) = {}
        BY <1>t, <3>4 DEF Chain
      <4>3. "header" \in WriteKind
        BY DEF WriteKind
      <4>4. /\ \A j, k \in MessageWrites(writes'[e]) : j = k
            /\ MessageWrites(writes'[e]) # {}
        BY <1>t, <4>1, <4>2, <4>3, ChainAppend
      <4>5. QED BY <1>3, <3>3, <4>4 DEF Chain
    <3>5. CASE out[e] # <<>>
      BY <1>t, <1>3, <3>1, <3>3, <3>5 DEF StartWriting, Chain
    <3>6. QED BY <3>4, <3>5
  <2>3. QED BY <2>1, <2>2
<1>4. CASE d = e /\ WriteFailed(e)
  <2>1. /\ writes[e] # <<>> /\ writes'[e] = Tail(writes[e])
        /\ socket'[e] = "closed" /\ out' = out
    BY <1>t, <1>4 DEF WriteFailed, TypeOK
  <2>2. /\ \A j, k \in MessageWrites(writes'[e]) : j = k
        /\ MessageWrites(writes[e]) = {} => MessageWrites(writes'[e]) = {}
    BY <1>t, <2>1, ChainTail
  <2>3. QED BY <1>t, <1>4, <2>1, <2>2 DEF Chain
<1>5. CASE d = e /\ WriteDone(e)
  <2>1. writes[e] # <<>> /\ UNCHANGED socket /\ Head(writes[e]) \in WriteKind
    BY <1>t, <1>5 DEF WriteDone
  <2>2. PICK t : t = Tail(writes[e])
    OBVIOUS
  <2>3. /\ t \in Seq(WriteKind)
        /\ \A j, k \in MessageWrites(t) : j = k
        /\ Head(writes[e]) \in {"header", "body"} => MessageWrites(t) = {}
        /\ Head(writes[e]) \notin {"header", "body"} =>
             (MessageWrites(t) = {} <=> MessageWrites(writes[e]) = {})
    <3>1. Tail(writes[e]) \in Seq(WriteKind)
      BY <1>t, <2>1
    <3>2. QED BY <1>t, <2>1, <2>2, <3>1, ChainTail, Zenon
  <2>4. CASE Head(writes[e]) \notin {"header", "body"}
    <3>1. writes'[e] = t /\ out' = out
      BY <1>t, <1>5, <2>2, <2>4 DEF WriteDone, TypeOK
    <3>2. QED BY <1>t, <1>5, <2>1, <2>3, <2>4, <3>1 DEF Chain
  <2>5. CASE Head(writes[e]) \in {"header", "body"}
    <3>1. /\ out[e] # <<>>
          /\ \/ out' = out /\ writes'[e] = Append(t, "body")
             \/ /\ out'[e] = Tail(out[e])
                /\ writes'[e] = IF Len(out[e]) > 1 THEN Append(t, "header") ELSE t
      BY <1>t, <1>5, <2>1, <2>2, <2>5, WrittenWaits DEF WriteDone, NextMessage, TypeOK
    <3>2. MessageWrites(t) = {}
      BY <2>3, <2>5
    <3>3. \A x \in {"header", "body"} :
            /\ \A j, k \in MessageWrites(Append(t, x)) : j = k
            /\ MessageWrites(Append(t, x)) # {}
      BY <2>3, <3>2, ChainAppend DEF WriteKind
    <3>4. CASE out' = out /\ writes'[e] = Append(t, "body")
      BY <1>5, <3>1, <3>3, <3>4 DEF Chain
    <3>5. CASE /\ out'[e] = Tail(out[e])
               /\ writes'[e] = IF Len(out[e]) > 1 THEN Append(t, "header") ELSE t
      <4>1. Len(out[e]) \in Nat /\ (Len(out[e]) > 1 <=> Tail(out[e]) # <<>>)
        <5>1. PICK q : q = Tail(out[e])
          OBVIOUS
        <5>2. q \in Seq(Message) /\ Len(q) = Len(out[e]) - 1 /\ Len(out[e]) \in Nat
          BY <1>t, <3>1, <5>1
        <5>3. q = <<>> <=> Len(q) = 0
          BY <5>2, EmptySeq, Zenon
        <5>4. Len(out[e]) # 0
          BY <1>t, <3>1
        <5>5. QED BY <5>1, <5>2, <5>3, <5>4
      <4>2. CASE Len(out[e]) > 1
        BY <1>5, <3>3, <3>5, <4>1, <4>2 DEF Chain
      <4>3. CASE ~(Len(out[e]) > 1)
        BY <1>5, <2>3, <3>2, <3>5, <4>1, <4>3 DEF Chain
      <4>4. QED BY <4>2, <4>3
    <3>6. QED BY <3>1, <3>4, <3>5
  <2>6. QED BY <2>4, <2>5
<1>6. QED BY <1>1, <1>2, <1>3, <1>4, <1>5

LEMMA NextCInv == CInv /\ [Next]_connVars => CInv'
<1> SUFFICES ASSUME CInv, [Next]_connVars PROVE CInv'
  OBVIOUS
<1>t. TypeOK
  BY DEF CInv
<1>1. CASE \/ Connect \/ Reconnect \/ NetworkAnswers \/ NetworkBreaks
           \/ Connected \/ Accept \/ BeginDisconnect \/ EndDisconnect \/ ProcessExit
  <2>1. TypeOK'
    BY <1>t, <1>1, KeepsTypesConnecting
  <2>2. \A d \in Ends : Chain(d)'
    BY <1>1, KeepsChainReceiving
  <2>3. QED BY <2>1, <2>2 DEF CInv
<1>2. CASE SolveChallenge \/ CheckAnswer
  <2>1. TypeOK'
    BY <1>t, <1>2, EndsFacts, KeepsTypesReceiving
  <2>2. \A d \in Ends : Chain(d)'
    BY <1>2, KeepsChainReceiving
  <2>3. QED BY <2>1, <2>2 DEF CInv
<1>3. ASSUME NEW e \in Ends, ReadHeader(e) \/ ReadBody(e) \/ ReadFailed(e)
      PROVE  CInv'
  <2>1. TypeOK'
    BY <1>t, <1>3, KeepsTypesReceiving
  <2>2. \A d \in Ends : Chain(d)'
    BY <1>3, KeepsChainReceiving
  <2>3. QED BY <2>1, <2>2 DEF CInv
<1>4. ASSUME NEW e \in Ends,
             \/ \E body \in BOOLEAN : Send(e, body)
             \/ RunPosted(e) \/ WriteDone(e) \/ WriteFailed(e)
      PROVE  CInv'
  <2>1. TypeOK'
    BY <1>4, KeepsTypesSending
  <2>2. \A d \in Ends : Chain(d)'
    BY <1>4, KeepsChainSending
  <2>3. QED BY <2>1, <2>2 DEF CInv
<1>5. CASE UNCHANGED connVars
  BY <1>5 DEF connVars, CInv, TypeOK, Chain
<1>6. QED BY <1>1, <1>2, <1>3, <1>4, <1>5 DEF Next, AsioStep

LEMMA CInvHolds == Spec => []CInv
BY InitTypes, NextCInv, PTL DEF Spec

\* Every variable keeps its type: what is written is a message that waits, and
\* nothing but a message is ever taken for one.
THEOREM TypeCorrect == Spec => []TypeOK
<1>1. CInv => TypeOK
  BY DEF CInv
<1>2. QED BY <1>1, CInvHolds, PTL

\* Whatever a client sends and when, the writes of an end form one chain, and a
\* message that waits is being written while the socket is open (Send and
\* WriteBody, clever_Connection.h).
THEOREM OneChain == Spec => []OneWriteChain
<1>1. CInv => OneWriteChain
  BY DEF CInv, Chain, OneWriteChain
<1>2. QED BY <1>1, CInvHolds, PTL

-----------------------------------------------------------------------------
(***************************************************************************)
(* The invariant of the stream.  An end writes its part of the handshake,  *)
(* the challenge or the answer, and then its messages by their numbers,    *)
(* each a header and perhaps a body.                                       *)
(***************************************************************************)
Opening(e) == IF e = "server" THEN "challenge" ELSE "answer"

Number(u) == IF u.kind \in {"header", "body"} THEN u.msg.n ELSE 0

\* v is what comes after u in the stream of an end.
Follows(u, v) ==
  IF u.kind = "header" /\ u.msg.body
    THEN v = [kind |-> "body", msg |-> u.msg]
    ELSE v.kind = "header" /\ v.msg.n = Number(u) + 1

\* The end e has read nothing yet.
Fresh(e) == socket[e] \in {"none", "connecting"} \/ reads[e] = "validation"

\* u is what e has to read next.
Expects(e, u) ==
  /\ Fresh(e) => u = [kind |-> Opening(Peer(e))]
  /\ ~Fresh(e) /\ reads[e] = "body" => u = [kind |-> "body", msg |-> tmpIn[e].msg]
  /\ ~Fresh(e) /\ reads[e] # "body" =>
       u.kind = "header" /\ u.msg.n = Len(delivered[e]) + 1

\* u may come after what e has written.
Fits(e, u) ==
  IF wire[e] = <<>>
    THEN socket[Peer(e)] # "closed" => Expects(Peer(e), u)
    ELSE Follows(wire[e][Len(wire[e])], u)

\* A message's number is its place among those its end has sent.
Numbered(e) == \A k \in 1..Len(sent[e]) : sent[e][k].n = k

IsSent(e, m) == m.n \in 1..Len(sent[e]) /\ sent[e][m.n] = m

\* What e has sent and not yet written are the messages after the w-th, first
\* those that wait and then the posted ones, with Close at the very end.
Queued(e, w) ==
  /\ \A k \in 1..Len(out[e]) : /\ w + k <= Len(sent[e])
                               /\ out[e][k] = sent[e][w + k]
  /\ \A k \in 1..Len(posted[e]) :
       IF posted[e][k] = Close
         THEN k = Len(posted[e]) /\ e = "client" /\ ui # "running"
         ELSE /\ w + Len(out[e]) + k <= Len(sent[e])
              /\ posted[e][k] = sent[e][w + Len(out[e]) + k]
  /\ ui = "running" \/ e = "server" =>
       w + Len(out[e]) + Len(posted[e]) = Len(sent[e])

\* The stream of e between the two ends.
Wire(e) ==
  /\ \A k \in 1..Len(wire[e]) :
       wire[e][k].kind \in {"header", "body"} =>
         IsSent(e, wire[e][k].msg) /\ (wire[e][k].kind = "body" => wire[e][k].msg.body)
  /\ \A j, k \in 1..Len(wire[e]) : k = j + 1 => Follows(wire[e][j], wire[e][k])
  /\ wire[e] # <<>> /\ socket[Peer(e)] # "closed" => Expects(Peer(e), wire[e][1])

\* What an open end writes next continues its stream, in which w messages are
\* written.
Opened(e) == e = "server" \/ reads[e] \in {"header", "body"}
NextWrite(e) == IF writes[e][1] \in {"header", "body"}
                  THEN [kind |-> writes[e][1], msg |-> out[e][1]]
                  ELSE [kind |-> writes[e][1]]
Writing(e, w) ==
  socket[e] = "open" =>
    /\ \/ writes[e] = <<>> /\ out[e] = <<>>
       \/ writes[e] = <<Opening(e)>> /\ out[e] = <<>> /\ w = 0
       \/ writes[e] = <<Opening(e), "header">> /\ out[e] # <<>> /\ w = 0
       \/ writes[e] = <<"header">> /\ out[e] # <<>>
       \/ writes[e] = <<"body">> /\ out[e] # <<>> /\ out[e][1].body
    /\ writes[e] # <<>> => Fits(e, NextWrite(e))
    /\ writes[e] = <<>> /\ Opened(e) =>
         \A m \in Message : m.n = w + 1 => Fits(e, [kind |-> "header", msg |-> m])

\* A client that has not written the answer has written nothing, and writes the
\* answer first.
Before(e, w) ==
  socket[e] # "closed" /\ ~Opened(e) =>
    /\ w = 0 /\ wire[e] = <<>> /\ Fits(e, [kind |-> Opening(e)])
    /\ IF socket[e] = "open" /\ reads[e] = "none"
         THEN writes[e] # <<>> /\ writes[e][1] = Opening(e)
         ELSE writes[e] = <<>> /\ out[e] = <<>>

Sound(e) ==
  /\ \E w \in Nat : Queued(e, w) /\ Writing(e, w) /\ Before(e, w)
  /\ Wire(e)

\* What was read: whole messages, and perhaps the header of the next.
Heard(e) ==
  /\ Len(delivered[e]) <= Len(sent[Peer(e)])
  /\ \A k \in 1..Len(delivered[e]) :
       /\ delivered[e][k].msg = sent[Peer(e)][k]
       /\ delivered[e][k].msg.body => delivered[e][k].bodyOf = k
  /\ reads[e] = "body" => tmpIn[e].msg.n = Len(delivered[e]) + 1

\* Nothing is underway at the server before a client is accepted, and the client
\* answers the challenge once, before it reads messages.
ServerStarts ==
  /\ socket["server"] = "none" =>
       /\ sent["server"] = <<>> /\ posted["server"] = <<>>
       /\ wire["server"] = <<>> /\ delivered["server"] = <<>>
       /\ reads["server"] = "none"
       /\ socket["client"] # "closed" => Fresh("client")
  /\ reads["server"] = "validation" => delivered["server"] = <<>>

Openings(chain) == {k \in 1..Len(chain) : chain[k] \notin {"header", "body"}}

ClientStarts ==
  /\ socket["client"] # "closed" =>
       /\ reads["client"] \in {"none", "validation"} => delivered["client"] = <<>>
       /\ Openings(writes["client"]) # {} =>
            socket["client"] = "open" /\ reads["client"] = "none"
       /\ \A j, k \in Openings(writes["client"]) : j = k
  /\ socket["client"] \in {"none", "connecting"} => reads["client"] = "none"

\* The client sent before it had answered the challenge: what the server reads
\* first is not the answer, and it will close.
Spoiled ==
  socket["server"] # "closed" =>
    /\ Fresh("server")
    /\ IF wire["client"] # <<>>
         THEN wire["client"][1].kind # "answer"
         ELSE \/ socket["client"] = "closed"
              \/ writes["client"] # <<>> /\ writes["client"][1] \in {"header", "body"}

SInv ==
  /\ CInv
  /\ ServerStarts /\ ClientStarts
  /\ \A e \in Ends : Numbered(e) /\ Heard(e)
  /\ Sound("server") /\ (Sound("client") \/ Spoiled)

\* A client that waits for the server's first message spoils nothing.
Waits ==
  /\ SInv /\ Sound("client")
  /\ delivered["client"] = <<>> => sent["client"] = <<>>

LEMMA InitStream == Init => Waits
<1> SUFFICES ASSUME Init PROVE Waits
  OBVIOUS
<1>1. CInv
  BY InitTypes
<1>2. ServerStarts /\ ClientStarts
  <2>1. writes["client"] = <<>> /\ delivered["client"] = <<>> /\ reads["client"] = "none"
        /\ sent["server"] = <<>> /\ posted["server"] = <<>> /\ wire["server"] = <<>>
        /\ delivered["server"] = <<>> /\ reads["server"] = "none"
        /\ socket["client"] = "none"
    BY EndsFacts DEF Init
  <2>2. Openings(writes["client"]) = {}
    BY <2>1 DEF Openings
  <2>3. QED BY <2>1, <2>2 DEF ServerStarts, ClientStarts, Fresh
<1>3. ASSUME NEW e \in Ends PROVE Numbered(e) /\ Sound(e) /\ Heard(e) /\ sent[e] = <<>>
  <2>1. /\ sent[e] = <<>> /\ out[e] = <<>> /\ posted[e] = <<>> /\ wire[e] = <<>>
        /\ delivered[e] = <<>> /\ sent[Peer(e)] = <<>> /\ writes[e] = <<>>
        /\ reads[e] = "none" /\ socket[e] = "none" /\ socket[Peer(e)] = "none"
    BY EndsFacts DEF Init
  <2>2. Numbered(e) /\ Wire(e) /\ Heard(e)
    BY <2>1 DEF Numbered, Wire, Heard
  <2>3. Queued(e, 0) /\ Writing(e, 0)
    BY <2>1 DEF Queued, Writing
  <2>4. Fits(e, [kind |-> Opening(e)])
    BY <2>1, EndsFacts DEF Fits, Expects, Fresh
  <2>5. Before(e, 0)
    BY <2>1, <2>4 DEF Before
  <2>6. QED BY <2>1, <2>2, <2>3, <2>5 DEF Sound
<1>4. QED BY <1>1, <1>2, <1>3, EndsFacts DEF SInv, Waits

-----------------------------------------------------------------------------
(***************************************************************************)
(* What a step leaves as it is, and what that keeps.                       *)
(***************************************************************************)

\* The sent messages of e stay, with perhaps another one after them.
Extends(e) ==
  /\ Len(sent[e]) \in Nat /\ Len(sent'[e]) \in Nat /\ Len(sent[e]) <= Len(sent'[e])
  /\ \A k \in 1..Len(sent[e]) : sent'[e][k] = sent[e][k]

\* Unless it closes, the reader e is at the same place of its stream.
ReaderStays(e) ==
  socket'[e] # "closed" =>
    socket[e] # "closed" /\ \A u : Expects(e, u) => Expects(e, u)'

LEMMA ReaderStaysIf ==
  ASSUME NEW e,
         socket'[e] # "closed" =>
           /\ socket[e] # "closed" /\ Fresh(e)' = Fresh(e)
           /\ reads'[e] = "body" <=> reads[e] = "body"
           /\ tmpIn'[e] = tmpIn[e] /\ delivered'[e] = delivered[e]
  PROVE  ReaderStays(e)
BY DEF ReaderStays, Expects

LEMMA FitsIfStays ==
  ASSUME NEW e, wire'[e] = wire[e], ReaderStays(Peer(e))
  PROVE  \A u : Fits(e, u) => Fits(e, u)'
BY DEF ReaderStays, Fits, Follows, Number

LEMMA WireIfStays ==
  ASSUME NEW e, wire'[e] = wire[e], ReaderStays(Peer(e)), Extends(e), Wire(e)
  PROVE  Wire(e)'
<1>1. ASSUME NEW m, IsSent(e, m) PROVE IsSent(e, m)'
  BY <1>1 DEF IsSent, Extends
<1>2. \A k \in 1..Len(wire[e]) :
        wire[e][k].kind \in {"header", "body"} =>
          IsSent(e, wire[e][k].msg)' /\ (wire[e][k].kind = "body" => wire[e][k].msg.body)
  BY <1>1 DEF Wire
<1>3. wire[e] # <<>> /\ socket'[Peer(e)] # "closed" => Expects(Peer(e), wire[e][1])'
  BY DEF Wire, ReaderStays
<1>4. \A j, k \in 1..Len(wire[e]) : k = j + 1 => Follows(wire[e][j], wire[e][k])
  BY DEF Wire
<1>5. QED BY <1>2, <1>3, <1>4 DEF Wire, Follows, Number, IsSent

LEMMA WritingIfStays ==
  ASSUME NEW e, NEW w, \A u : Fits(e, u) => Fits(e, u)', Writing(e, w),
         socket'[e] = "open" =>
           /\ socket[e] = "open" /\ writes'[e] = writes[e] /\ out'[e] = out[e]
           /\ Opened(e)' => Opened(e)
  PROVE  Writing(e, w)'
BY DEF Writing, NextWrite, Opening

LEMMA BeforeIfStays ==
  ASSUME NEW e, NEW w, \A u : Fits(e, u) => Fits(e, u)', Before(e, w), wire'[e] = wire[e],
         socket'[e] # "closed" =>
           /\ socket[e] # "closed" /\ (socket'[e] = "open" <=> socket[e] = "open")
           /\ writes'[e] = writes[e] /\ out'[e] = out[e]
           /\ (Opened(e) /\ Opened(e)') \/ reads'[e] = reads[e]
  PROVE  Before(e, w)'
<1> SUFFICES ASSUME socket'[e] # "closed", ~Opened(e)' PROVE Before(e, w)'
  BY DEF Before
<1>1. socket[e] # "closed" /\ ~Opened(e) /\ reads'[e] = reads[e]
  BY DEF Opened
<1>2. Fits(e, [kind |-> Opening(e)]) /\ Opening(e)' = Opening(e)
  BY <1>1 DEF Before, Opening
<1>3. Fits(e, [kind |-> Opening(e)])'
  <2>1. PICK u : u = [kind |-> Opening(e)]
    OBVIOUS
  <2>2. Fits(e, u)'
    BY <1>2, <2>1
  <2>3. QED BY <1>2, <2>1, <2>2 DEF Fits
<1>4. QED BY <1>1, <1>2, <1>3 DEF Before

LEMMA QueuedIfStays ==
  ASSUME NEW e, NEW w, Queued(e, w), out'[e] = out[e], posted'[e] = posted[e],
         sent'[e] = sent[e], ui' = "running" => ui = "running"
  PROVE  Queued(e, w)'
BY DEF Queued

LEMMA HeardIfStays ==
  ASSUME NEW e, Heard(e), delivered'[e] = delivered[e], Len(delivered[e]) \in Nat,
         tmpIn'[e] = tmpIn[e], reads'[e] = "body" => reads[e] = "body",
         Extends(Peer(e))
  PROVE  Heard(e)'
<1>1. \A k \in 1..Len(delivered[e]) : sent'[Peer(e)][k] = sent[Peer(e)][k]
  BY DEF Heard, Extends
<1>2. Len(delivered[e]) <= Len(sent'[Peer(e)])
  BY DEF Heard, Extends
<1>3. QED BY <1>1, <1>2 DEF Heard

LEMMA SentSame ==
  ASSUME TypeOK, NEW e \in Ends, sent'[e] = sent[e]
  PROVE  Extends(e) /\ (Numbered(e) => Numbered(e)')
BY DEF TypeOK, Extends, Numbered

\* A step that leaves the sender and its reader as they are keeps the stream.
LEMMA SenderStays ==
  ASSUME TypeOK, NEW e \in Ends, Numbered(e), Sound(e),
         wire'[e] = wire[e], out'[e] = out[e], posted'[e] = posted[e],
         sent'[e] = sent[e], ReaderStays(Peer(e)),
         ui' = "running" => ui = "running",
         socket'[e] # "closed" =>
           /\ socket[e] # "closed" /\ (socket'[e] = "open" <=> socket[e] = "open")
           /\ writes'[e] = writes[e]
           /\ (Opened(e) /\ Opened(e)') \/ reads'[e] = reads[e]
  PROVE  Numbered(e)' /\ Sound(e)'
<1>1. PICK w \in Nat : Queued(e, w) /\ Writing(e, w) /\ Before(e, w)
  BY DEF Sound
<1>2. Queued(e, w)'
  BY <1>1, QueuedIfStays
<1>f. \A u : Fits(e, u) => Fits(e, u)'
  BY FitsIfStays
<1>3. Writing(e, w)'
  BY <1>1, <1>f, WritingIfStays DEF Opened
<1>4. Before(e, w)'
  BY <1>1, <1>f, BeforeIfStays
<1>5. Wire(e)'
  BY SentSame, WireIfStays DEF Sound
<1>6. QED BY <1>1, <1>2, <1>3, <1>4, <1>5, SentSame DEF Sound

\* The first of a chain stays first.
LEMMA FirstOfAppend ==
  ASSUME NEW S, NEW s \in Seq(S), NEW x \in S
  PROVE  /\ Append(s, x) # <<>>
         /\ s # <<>> => Append(s, x)[1] = s[1]
         /\ s = <<>> => Append(s, x)[1] = x
<1>1. PICK t : t = Append(s, x)
  OBVIOUS
<1>2. /\ t \in Seq(S) /\ Len(t) = Len(s) + 1 /\ t[Len(s) + 1] = x /\ Len(s) \in Nat
      /\ \A k \in 1..Len(s) : t[k] = s[k]
  BY <1>1, AppendProperties
<1>3. s = <<>> <=> Len(s) = 0
  BY EmptySeq
<1>4. t # <<>>
  BY <1>2
<1>5. s # <<>> => 1 \in 1..Len(s)
  BY <1>2, <1>3
<1>6. s = <<>> => Len(s) + 1 = 1
  BY <1>3
<1>7. QED BY <1>1, <1>2, <1>4, <1>5, <1>6

\* What a write that completes and one that is issued change about the writes
\* of the handshake.
LEMMA OpeningsTail ==
  ASSUME NEW s \in Seq(WriteKind), s # <<>>, \A j, k \in Openings(s) : j = k
  PROVE  /\ \A j, k \in Openings(Tail(s)) : j = k
         /\ Openings(Tail(s)) # {} => Openings(s) # {}
         /\ Head(s) \notin {"header", "body"} => Openings(s) # {} /\ Openings(Tail(s)) = {}
<1>1. PICK t : t = Tail(s)
  OBVIOUS
<1>2. /\ Len(t) = Len(s) - 1 /\ Len(s) \in Nat /\ Len(s) >= 1
      /\ \A k \in 1..Len(t) : t[k] = s[k + 1]
  BY <1>1
<1>3. \A k \in Openings(t) : k \in 1..Len(t) /\ k + 1 \in Openings(s)
  BY <1>2 DEF Openings
<1>4. \A j, k \in Openings(t) : j = k
  BY <1>2, <1>3
<1>5. ASSUME Head(s) \notin {"header", "body"} PROVE Openings(s) # {} /\ Openings(t) = {}
  <2>1. 1 \in Openings(s)
    BY <1>2, <1>5 DEF Openings
  <2>2. QED BY <1>2, <1>3, <2>1
<1>6. QED BY <1>1, <1>3, <1>4, <1>5

LEMMA OpeningsAppend ==
  ASSUME NEW s \in Seq(WriteKind), NEW x \in WriteKind
  PROVE  /\ x \in {"header", "body"} => Openings(Append(s, x)) = Openings(s)
         /\ Openings(s) = {} => \A j, k \in Openings(Append(s, x)) : j = k
<1>1. PICK t : t = Append(s, x)
  OBVIOUS
<1>2. /\ Len(t) = Len(s) + 1 /\ Len(s) \in Nat /\ t[Len(s) + 1] = x
      /\ \A k \in 1..Len(s) : t[k] = s[k]
  BY <1>1
<1>3. ASSUME x \in {"header", "body"} PROVE Openings(t) = Openings(s)
  BY <1>2, <1>3 DEF Openings
<1>4. ASSUME Openings(s) = {} PROVE \A k \in Openings(t) : k = Len(s) + 1
  BY <1>2, <1>4 DEF Openings
<1>5. QED BY <1>1, <1>3, <1>4

\* The client's first message overtakes its answer.
SentTooSoon(e) ==
  e = "client" /\ Spoiled' /\ sent[e] # <<>> /\ delivered[e] = <<>>

\* What every step keeps.
Kept ==
  /\ ServerStarts' /\ ClientStarts'
  /\ \A e \in Ends :
       Numbered(e)' /\ Heard(e)' /\ (Sound(e) => Sound(e)' \/ SentTooSoon(e))

-----------------------------------------------------------------------------
(***************************************************************************)
(* Steps that add nothing to a stream and take nothing from it.            *)
(***************************************************************************)
Quiet(f) ==
  \/ Connect \/ Reconnect \/ NetworkAnswers \/ NetworkBreaks
  \/ EndDisconnect \/ ProcessExit \/ ReadFailed(f) \/ WriteFailed(f)

LEMMA QuietEffect ==
  ASSUME TypeOK, NEW f \in Ends, Quiet(f), NEW e \in Ends
  PROVE  /\ UNCHANGED <<wire, out, posted, sent, tmpIn, delivered>>
         /\ ui' = "running" => ui = "running"
         /\ socket[e] = "closed" => socket'[e] = "closed"
         /\ \/ socket'[e] = socket[e] /\ reads'[e] = reads[e] /\ writes'[e] = writes[e]
            \/ socket'[e] = "closed" /\ reads'[e] \in {reads[e], "none"}
            \/ /\ e = "client" /\ socket[e] = "none" /\ socket'[e] = "connecting"
               /\ reads'[e] = reads[e] /\ writes'[e] = writes[e]
<1>1. CASE Connect
  BY <1>1, EndsFacts DEF Connect, TypeOK
<1>2. CASE Reconnect \/ NetworkAnswers \/ NetworkBreaks \/ EndDisconnect
  BY <1>2 DEF Reconnect, NetworkAnswers, NetworkBreaks, EndDisconnect
<1>3. CASE ProcessExit
  BY <1>3, EndsFacts DEF ProcessExit, TypeOK
<1>4. CASE ReadFailed(f)
  BY <1>4 DEF ReadFailed, TypeOK
<1>5. CASE WriteFailed(f)
  BY <1>5 DEF WriteFailed, TypeOK
<1>6. QED BY <1>1, <1>2, <1>3, <1>4, <1>5 DEF Quiet

LEMMA QuietReader ==
  ASSUME TypeOK, NEW f \in Ends, Quiet(f), NEW e \in Ends
  PROVE  ReaderStays(e)
<1>1. socket'[e] # "closed" =>
        /\ socket[e] # "closed" /\ Fresh(e)' = Fresh(e)
        /\ reads'[e] = "body" <=> reads[e] = "body"
        /\ tmpIn'[e] = tmpIn[e] /\ delivered'[e] = delivered[e]
  BY QuietEffect DEF Fresh
<1>2. QED BY <1>1, ReaderStaysIf

LEMMA KeepsQuiet ==
  ASSUME SInv, NEW f \in Ends, Quiet(f)
  PROVE  Kept
<1>t. TypeOK
  BY DEF SInv, CInv
<1>1. ASSUME NEW e \in Ends
      PROVE  Numbered(e)' /\ Heard(e)' /\ (Sound(e) => Sound(e)')
  <2>1. /\ wire'[e] = wire[e] /\ out'[e] = out[e] /\ posted'[e] = posted[e]
        /\ sent'[e] = sent[e] /\ tmpIn'[e] = tmpIn[e] /\ delivered'[e] = delivered[e]
        /\ sent'[Peer(e)] = sent[Peer(e)]
        /\ ui' = "running" => ui = "running"
        /\ socket'[e] # "closed" =>
             /\ socket[e] # "closed" /\ (socket'[e] = "open" <=> socket[e] = "open")
             /\ writes'[e] = writes[e] /\ reads'[e] = reads[e]
        /\ reads'[e] = "body" => reads[e] = "body"
    BY <1>t, QuietEffect
  <2>2. ReaderStays(Peer(e))
    BY <1>t, QuietReader, EndsFacts
  <2>3. Numbered(e) /\ Heard(e) /\ Len(delivered[e]) \in Nat
    BY <1>t DEF SInv, TypeOK
  <2>4. Numbered(e)'
    BY <1>t, <2>1, <2>3, SentSame
  <2>5. Sound(e) => Sound(e)'
    BY <1>t, <2>1, <2>2, <2>3, SenderStays
  <2>6. Extends(Peer(e))
    BY <1>t, <2>1, SentSame, EndsFacts
  <2>7. Heard(e)'
    BY <2>1, <2>3, <2>6, HeardIfStays
  <2>8. QED BY <2>4, <2>5, <2>7
<1>2. /\ UNCHANGED <<wire, out, posted, sent, tmpIn, delivered>>
      /\ \A e \in Ends :
           /\ socket[e] = "closed" => socket'[e] = "closed"
           /\ \/ socket'[e] = socket[e] /\ reads'[e] = reads[e] /\ writes'[e] = writes[e]
              \/ socket'[e] = "closed" /\ reads'[e] \in {reads[e], "none"}
              \/ /\ e = "client" /\ socket[e] = "none" /\ socket'[e] = "connecting"
                 /\ reads'[e] = reads[e] /\ writes'[e] = writes[e]
  BY <1>t, QuietEffect, EndsFacts
<1>3. ServerStarts /\ ClientStarts
  BY DEF SInv
<1>4. ServerStarts'
  BY <1>2, <1>3, EndsFacts DEF ServerStarts, Fresh
<1>5. ClientStarts'
  BY <1>2, <1>3, EndsFacts DEF ClientStarts, Fresh
<1>6. QED BY <1>1, <1>4, <1>5 DEF Kept

\* The client's socket is connected: it waits for the challenge.
LEMMA KeepsConnected ==
  ASSUME SInv, Connected
  PROVE  Kept
<1>t. TypeOK /\ ServerStarts /\ ClientStarts
  BY DEF SInv, CInv
<1>1. /\ UNCHANGED <<net, posted, writes, wire, out, tmpIn, delivered, sent, ui, validated>>
      /\ socket["client"] = "connecting" /\ socket'["client"] = "open"
      /\ reads["client"] = "none" /\ reads'["client"] = "validation"
      /\ socket'["server"] = socket["server"] /\ reads'["server"] = reads["server"]
  BY <1>t, EndsFacts DEF Connected, TypeOK, ClientStarts
<1>2. ASSUME NEW e \in Ends PROVE ReaderStays(e) /\ Extends(e) /\ Numbered(e)'
  <2>1. ReaderStays(e)
    BY <1>1, ReaderStaysIf DEF Fresh, Ends
  <2>2. Numbered(e)
    BY DEF SInv
  <2>3. QED BY <1>t, <1>1, <2>1, <2>2, SentSame
<1>3. ASSUME NEW e \in Ends PROVE Heard(e)' /\ (Sound(e) => Sound(e)')
  <2>1. Numbered(e) /\ Heard(e) /\ Len(delivered[e]) \in Nat
    BY <1>t DEF SInv, TypeOK
  <2>2. ReaderStays(Peer(e)) /\ Extends(e) /\ Extends(Peer(e))
    BY <1>2, EndsFacts
  <2>3. Heard(e)'
    BY <1>1, <2>1, <2>2, HeardIfStays DEF Ends
  <2>4. ASSUME e = "client", Sound(e) PROVE Sound(e)'
    <3>1. PICK w \in Nat : Queued(e, w) /\ Writing(e, w) /\ Before(e, w)
      BY <2>4 DEF Sound
    <3>2. \A u : Fits(e, u) => Fits(e, u)'
      BY <1>1, <2>2, FitsIfStays
    <3>3. /\ w = 0 /\ wire[e] = <<>> /\ Fits(e, [kind |-> Opening(e)])
          /\ writes[e] = <<>> /\ out[e] = <<>>
      BY <1>1, <2>4, <3>1 DEF Before, Opened
    <3>4. Fits(e, [kind |-> Opening(e)])'
      BY <3>2, <3>3 DEF Fits, Opening
    <3>5. Before(e, w)'
      BY <1>1, <2>4, <3>3, <3>4 DEF Before
    <3>6. Writing(e, w)'
      BY <1>1, <2>4, <3>3 DEF Writing, Opened
    <3>7. Queued(e, w)' /\ Wire(e)'
      BY <1>1, <2>2, <2>4, <3>1, QueuedIfStays, WireIfStays DEF Sound
    <3>8. QED BY <3>1, <3>5, <3>6, <3>7 DEF Sound
  <2>5. ASSUME e = "server", Sound(e) PROVE Sound(e)'
    BY <1>t, <1>1, <2>1, <2>2, <2>5, SenderStays
  <2>6. QED BY <2>3, <2>4, <2>5 DEF Ends
<1>4. ServerStarts'
  BY <1>t, <1>1 DEF ServerStarts, Fresh
<1>5. ClientStarts'
  BY <1>t, <1>1 DEF ClientStarts
<1>6. QED BY <1>2, <1>3, <1>4, <1>5 DEF Kept

\* Disconnect posts the close after whatever is posted already; no message
\* comes after it, because the client's own thread does not send any more.
LEMMA KeepsBeginDisconnect ==
  ASSUME SInv, BeginDisconnect
  PROVE  Kept
<1>t. TypeOK /\ ServerStarts /\ ClientStarts
  BY DEF SInv, CInv
<1>1. /\ UNCHANGED <<net, socket, writes, reads, wire, out, tmpIn, delivered, sent, validated>>
      /\ ui = "running" /\ ui' = "closing"
      /\ posted'["server"] = posted["server"]
      /\ posted' = posted \/ posted'["client"] = Append(posted["client"], Close)
  BY <1>t, EndsFacts DEF BeginDisconnect, TypeOK
<1>2. ASSUME NEW e \in Ends PROVE ReaderStays(e) /\ Extends(e) /\ Numbered(e)'
  <2>1. ReaderStays(e)
    BY <1>1, ReaderStaysIf DEF Fresh
  <2>2. Numbered(e)
    BY DEF SInv
  <2>3. QED BY <1>t, <1>1, <2>1, <2>2, SentSame
<1>3. ASSUME NEW e \in Ends PROVE Heard(e)' /\ (Sound(e) => Sound(e)')
  <2>1. Heard(e) /\ Len(delivered[e]) \in Nat
    BY <1>t DEF SInv, TypeOK
  <2>2. ReaderStays(Peer(e)) /\ Extends(e) /\ Extends(Peer(e))
    BY <1>2, EndsFacts
  <2>3. Heard(e)'
    BY <1>1, <2>1, <2>2, HeardIfStays
  <2> SUFFICES ASSUME Sound(e) PROVE Sound(e)'
    BY <2>3
  <2>4. Wire(e)'
    BY <1>1, <2>2, WireIfStays DEF Sound
  <2>5. PICK w \in Nat : Queued(e, w) /\ Writing(e, w) /\ Before(e, w)
    BY DEF Sound
  <2>f. \A u : Fits(e, u) => Fits(e, u)'
    BY <1>1, <2>2, FitsIfStays
  <2>6. Writing(e, w)' /\ Before(e, w)'
    BY <1>1, <2>f, <2>5, WritingIfStays, BeforeIfStays DEF Opened
  <2>7. CASE posted'[e] = posted[e]
    BY <1>1, <2>4, <2>5, <2>6, <2>7, QueuedIfStays DEF Sound
  <2>8. CASE posted'[e] # posted[e]
    <3>1. e = "client" /\ posted'[e] = Append(posted[e], Close)
      BY <1>1, <2>8 DEF Ends
    <3>2. PICK p : p = posted[e]
      OBVIOUS
    <3>3. PICK q : q = Append(p, Close)
      OBVIOUS
    <3>4. PICK n \in Nat : n = Len(p)
      BY <1>t, <3>2 DEF TypeOK
    <3>5. /\ Len(q) = n + 1 /\ q[n + 1] = Close
          /\ \A k \in 1..n : q[k] = p[k]
      BY <1>t, <3>2, <3>3, <3>4 DEF TypeOK
    <3>6. \A k \in 1..n : p[k] # Close /\ w + Len(out[e]) + k <= Len(sent[e])
                          /\ p[k] = sent[e][w + Len(out[e]) + k]
      BY <1>1, <2>5, <3>2, <3>4 DEF Queued
    <3>7. \A k \in 1..n + 1 :
            IF q[k] = Close
              THEN k = n + 1
              ELSE /\ w + Len(out[e]) + k <= Len(sent[e])
                   /\ q[k] = sent[e][w + Len(out[e]) + k]
      <4> TAKE k \in 1..n + 1
      <4>1. CASE k = n + 1
        BY <3>5, <4>1
      <4>2. CASE k # n + 1
        <5>1. k \in 1..n
          BY <3>4, <4>2
        <5>2. QED BY <3>5, <3>6, <5>1
      <4>3. QED BY <4>1, <4>2
    <3>8. Queued(e, w)'
      <4>1. \A k \in 1..Len(out[e]) : w + k <= Len(sent[e]) /\ out[e][k] = sent[e][w + k]
        BY <2>5 DEF Queued
      <4>2. QED BY <1>1, <3>1, <3>2, <3>3, <3>5, <3>7, <4>1 DEF Queued
    <3>9. QED BY <2>4, <2>5, <2>6, <3>8 DEF Sound
  <2>9. QED BY <2>7, <2>8
<1>4. ServerStarts' /\ ClientStarts'
  BY <1>t, <1>1 DEF ServerStarts, ClientStarts, Fresh, Openings
<1>5. QED BY <1>2, <1>3, <1>4 DEF Kept

-----------------------------------------------------------------------------
(***************************************************************************)
(* Steps that send.                                                        *)
(***************************************************************************)

\* The challenge is the first that the server writes: ServerAccept is posted.
LEMMA KeepsAccept ==
  ASSUME SInv, Accept
  PROVE  Kept
<1>t. TypeOK /\ ServerStarts /\ ClientStarts
  BY DEF SInv, CInv
<1>1. /\ socket["server"] = "none" /\ socket'["server"] = "open"
      /\ sent'["server"] = <<ServerAccept>> /\ posted'["server"] = <<ServerAccept>>
      /\ out'["server"] = <<>> /\ writes'["server"] = <<"challenge">>
      /\ reads'["server"] = "validation"
      /\ UNCHANGED <<net, wire, tmpIn, delivered, ui, validated>>
  BY <1>t, EndsFacts DEF Accept, Accepted, TypeOK
<1>2. /\ socket'["client"] = socket["client"] /\ sent'["client"] = sent["client"]
      /\ posted'["client"] = posted["client"] /\ out'["client"] = out["client"]
      /\ writes'["client"] = writes["client"] /\ reads'["client"] = reads["client"]
  BY <1>t, EndsFacts DEF Accept, Accepted, TypeOK
<1>3. /\ sent["server"] = <<>> /\ wire["server"] = <<>> /\ delivered["server"] = <<>>
      /\ reads["server"] = "none"
      /\ socket["client"] # "closed" => Fresh("client")
  BY <1>t, <1>1 DEF ServerStarts
<1>4. ASSUME NEW e \in Ends PROVE ReaderStays(e)
  BY <1>1, <1>2, <1>3, ReaderStaysIf DEF Fresh, Ends
<1>5. Extends("server") /\ Extends("client") /\ Numbered("server")'
  <2>1. Extends("client")
    BY <1>t, <1>2, SentSame, EndsFacts
  <2>2. Len(sent["server"]) = 0 /\ Len(sent'["server"]) = 1
    BY <1>1, <1>3
  <2>3. Extends("server")
    BY <2>2 DEF Extends
  <2>4. Numbered("server")'
    BY <1>1, <2>2 DEF Numbered, ServerAccept
  <2>5. QED BY <2>1, <2>3, <2>4
<1>6. ASSUME NEW e \in Ends PROVE Heard(e)'
  <2>1. Heard(e) /\ Len(delivered[e]) \in Nat
    BY <1>t DEF SInv, TypeOK
  <2>2. Extends(e) /\ Extends(Peer(e)) /\ ReaderStays(Peer(e))
    BY <1>4, <1>5, EndsFacts DEF Ends, Peer
  <2>3. reads'[e] = "body" => reads[e] = "body"
    BY <1>1, <1>2 DEF Ends
  <2>4. QED BY <1>1, <2>1, <2>2, <2>3, HeardIfStays
<1>7. Numbered("client")' /\ (Sound("client") => Sound("client")')
  <2>1. Numbered("client")
    BY EndsFacts DEF SInv
  <2>2. ReaderStays(Peer("client"))
    BY <1>4, EndsFacts
  <2>3. QED BY <1>t, <1>1, <1>2, <2>1, <2>2, SentSame, SenderStays, EndsFacts
<1>8. Sound("server")'
  <2>1. ServerAccept # Close
    BY MessageFacts
  <2>2. Queued("server", 0)'
    BY <1>1, <2>1 DEF Queued
  <2>3. socket'["client"] # "closed" => Fresh("client")'
    BY <1>2, <1>3 DEF Fresh
  <2>4. Fits("server", [kind |-> "challenge"])'
    BY <1>1, <1>3, <2>3 DEF Fits, Expects, Peer, Opening
  <2>5. Writing("server", 0)'
    BY <1>1, <2>4 DEF Writing, NextWrite, Opening
  <2>6. Before("server", 0)'
    BY DEF Before, Opened
  <2>7. Wire("server")'
    BY <1>1, <1>3 DEF Wire
  <2>8. QED BY <2>2, <2>5, <2>6, <2>7 DEF Sound
<1>9. ServerStarts'
  BY <1>1, <1>3 DEF ServerStarts
<1>10. ClientStarts'
  BY <1>t, <1>1, <1>2 DEF ClientStarts
<1>11. QED BY <1>5, <1>6, <1>7, <1>8, <1>9, <1>10 DEF Ends, Kept

\* A message that is sent is posted after all the others.
LEMMA KeepsSend ==
  ASSUME SInv, NEW d \in Ends, NEW body \in BOOLEAN, Send(d, body)
  PROVE  Kept
<1>t. TypeOK /\ ServerStarts /\ ClientStarts
  BY DEF SInv, CInv
<1>m. PICK m : m = [n |-> Len(sent[d]) + 1, body |-> body]
  OBVIOUS
<1>1. /\ sent' = [sent EXCEPT ![d] = Append(@, m)]
      /\ posted' = [posted EXCEPT ![d] = Append(@, m)]
      /\ UNCHANGED <<net, socket, writes, reads, wire, out, tmpIn, delivered, ui, validated>>
      /\ IF d = "server" THEN socket[d] # "none" ELSE ui = "running"
  BY <1>m DEF Send, MaySend
<1>a. PICK s : s = sent[d]
  OBVIOUS
<1>b. PICK n \in Nat : n = Len(s)
  BY <1>t, <1>a DEF TypeOK
<1>c. PICK t : t = Append(s, m)
  OBVIOUS
<1>2. /\ sent'[d] = t /\ m.n = n + 1 /\ Len(t) = n + 1 /\ t[n + 1] = m
      /\ \A k \in 1..n : t[k] = s[k]
      /\ \A e \in Ends : e # d => sent'[e] = sent[e] /\ posted'[e] = posted[e]
  BY <1>t, <1>m, <1>1, <1>a, <1>b, <1>c DEF TypeOK
<1>3. Extends(d)
  BY <1>a, <1>b, <1>2 DEF Extends
<1>4. ASSUME NEW e \in Ends PROVE ReaderStays(e) /\ Extends(e)
  <2>1. ReaderStays(e)
    BY <1>1, ReaderStaysIf DEF Fresh
  <2>2. QED BY <1>t, <1>2, <1>3, <2>1, SentSame
<1>5. Numbered(d)'
  <2>1. \A k \in 1..n : s[k].n = k
    BY <1>a, <1>b DEF SInv, Numbered
  <2>2. \A k \in 1..n + 1 : t[k].n = k
    <3> TAKE k \in 1..n + 1
    <3>1. CASE k = n + 1
      BY <1>2, <3>1
    <3>2. CASE k # n + 1
      <4>1. k \in 1..n
        BY <1>b, <3>2
      <4>2. QED BY <1>2, <2>1, <4>1
    <3>3. QED BY <3>1, <3>2
  <2>3. QED BY <1>2, <2>2 DEF Numbered
<1>6. ASSUME NEW e \in Ends PROVE Heard(e)' /\ Numbered(e)'
  <2>1. Heard(e) /\ Numbered(e) /\ Len(delivered[e]) \in Nat
    BY <1>t DEF SInv, TypeOK
  <2>2. Extends(Peer(e))
    BY <1>4, EndsFacts
  <2>3. Heard(e)'
    BY <1>1, <2>1, <2>2, HeardIfStays
  <2>4. Numbered(e)'
    BY <1>t, <1>2, <1>5, <2>1, SentSame
  <2>5. QED BY <2>3, <2>4
<1>7. ASSUME NEW e \in Ends, Sound(e) PROVE Sound(e)'
  <2>1. Numbered(e) /\ ReaderStays(Peer(e)) /\ Extends(e)
    BY <1>4, EndsFacts DEF SInv
  <2>2. CASE e # d
    BY <1>t, <1>7, <1>1, <1>2, <2>1, <2>2, SenderStays
  <2>3. CASE e = d
    <3>1. PICK w \in Nat : Queued(d, w) /\ Writing(d, w) /\ Before(d, w)
      BY <1>7, <2>3 DEF Sound
    <3>f. \A u : Fits(d, u) => Fits(d, u)'
      BY <1>1, <2>1, <2>3, FitsIfStays
    <3>2. Writing(d, w)' /\ Before(d, w)' /\ Wire(d)'
      <4>1. Writing(d, w)' /\ Before(d, w)'
        BY <1>1, <3>f, <3>1, WritingIfStays, BeforeIfStays DEF Opened
      <4>2. QED BY <1>1, <1>7, <2>1, <2>3, <4>1, WireIfStays DEF Sound
    <3>3. PICK p : p = posted[d]
      OBVIOUS
    <3>4. PICK i \in Nat, j \in Nat : i = Len(out[d]) /\ j = Len(p)
      BY <1>t, <3>3 DEF TypeOK
    <3>5. PICK q : q = Append(p, m)
      OBVIOUS
    <3>6. /\ posted'[d] = q /\ Len(q) = j + 1 /\ q[j + 1] = m
          /\ \A k \in 1..j : q[k] = p[k]
      BY <1>t, <1>1, <3>3, <3>4, <3>5 DEF TypeOK
    <3>7. /\ \A k \in 1..i : w + k <= n /\ out[d][k] = s[w + k]
          /\ \A k \in 1..j : w + i + k <= n /\ p[k] = s[w + i + k] /\ p[k] # Close
          /\ w + i + j = n
      BY <1>1, <1>a, <1>b, <3>1, <3>3, <3>4 DEF Queued, Ends
    <3>w. w \in Nat /\ i \in Nat /\ j \in Nat /\ n \in Nat /\ w + i + j = n
      BY <1>b, <3>1, <3>4, <3>7, Zenon
    <3>8. \A k \in 1..i : w + k <= n + 1 /\ out[d][k] = t[w + k]
      <4> TAKE k \in 1..i
      <4>1. w + k \in 1..n
        BY <1>b, <3>4, <3>7
      <4>2. out[d][k] = s[w + k]
        BY <3>7
      <4>3. t[w + k] = s[w + k]
        BY <1>2, <4>1
      <4>4. w + k <= n + 1
        BY <1>b, <4>1
      <4>5. QED BY <4>2, <4>3, <4>4
    <3>9. m # Close
      BY <1>b, <1>2 DEF Close, NoMessage
    <3>10. \A k \in 1..j + 1 :
             w + i + k <= n + 1 /\ q[k] = t[w + i + k] /\ q[k] # Close
      <4> TAKE k \in 1..j + 1
      <4>1. CASE k = j + 1
        <5>1. w + i + k = n + 1
          BY <3>w, <4>1
        <5>2. QED BY <1>2, <1>b, <3>6, <3>9, <4>1, <5>1
      <4>2. CASE k # j + 1
        <5>1. k \in 1..j
          BY <3>4, <4>2
        <5>2. w + i + k \in 1..n
          BY <1>b, <3>1, <3>4, <3>7, <5>1
        <5>3. w + i + k <= n + 1 /\ t[w + i + k] = s[w + i + k]
          BY <1>2, <1>b, <5>2
        <5>4. q[k] = p[k] /\ p[k] = s[w + i + k] /\ p[k] # Close
          BY <3>6, <3>7, <5>1
        <5>5. QED BY <5>3, <5>4
      <4>3. QED BY <4>1, <4>2
    <3>11. w + i + (j + 1) = n + 1
      BY <3>w
    <3>12. Queued(d, w)'
      <4>1. out'[d] = out[d] /\ ui' = ui
        BY <1>1
      <4>2. \A k \in 1..Len(out'[d]) : w + k <= Len(sent'[d]) /\ out'[d][k] = sent'[d][w + k]
        BY <1>2, <3>4, <3>8, <4>1
      <4>3. \A k \in 1..Len(posted'[d]) :
              /\ w + Len(out'[d]) + k <= Len(sent'[d])
              /\ posted'[d][k] = sent'[d][w + Len(out'[d]) + k]
              /\ posted'[d][k] # Close
        BY <1>2, <3>4, <3>6, <3>10, <4>1
      <4>4. w + Len(out'[d]) + Len(posted'[d]) = Len(sent'[d])
        BY <1>2, <3>4, <3>6, <3>11, <4>1
      <4>5. QED BY <4>2, <4>3, <4>4 DEF Queued
    <3>13. QED BY <2>3, <3>1, <3>2, <3>12 DEF Sound
  <2>4. QED BY <2>2, <2>3
<1>8. ServerStarts'
  BY <1>t, <1>1, <1>2, EndsFacts DEF ServerStarts, Fresh
<1>9. ClientStarts'
  BY <1>t, <1>1 DEF ClientStarts, Openings
<1>10. QED BY <1>6, <1>7, <1>8, <1>9 DEF Kept

\* The oldest posted message goes to those that wait.
LEMMA QueuedRuns ==
  ASSUME TypeOK, NEW d \in Ends, NEW w \in Nat, Queued(d, w),
         posted[d] # <<>>, Head(posted[d]) # Close,
         out'[d] = Append(out[d], Head(posted[d])), posted'[d] = Tail(posted[d]),
         sent'[d] = sent[d], ui' = ui
  PROVE  Queued(d, w)' /\ Head(posted[d]).n \in Nat
         /\ w + Len(out[d]) + 1 <= Len(sent[d])
         /\ Head(posted[d]) = sent[d][w + Len(out[d]) + 1]
<1>1. PICK p : p = posted[d]
  OBVIOUS
<1>2. PICK o : o = out[d]
  OBVIOUS
<1>3. PICK i \in Nat, j \in Nat, n \in Nat : i = Len(o) /\ j = Len(p) /\ n = Len(sent[d])
  BY <1>1, <1>2 DEF TypeOK
<1>4. PICK x : x = p[1]
  OBVIOUS
<1>5. p \in Seq(Message \cup {Close}) /\ p # <<>> /\ o \in Seq(Message)
  BY <1>1, <1>2 DEF TypeOK
<1>6. Head(p) = x /\ x \in Message /\ j >= 1 /\ x # Close
  BY <1>1, <1>3, <1>4, <1>5
<1>7. PICK q : q = Tail(p)
  OBVIOUS
<1>8. Len(q) = j - 1 /\ \A k \in 1..j - 1 : q[k] = p[k + 1]
  BY <1>3, <1>5, <1>7
<1>9. PICK r : r = Append(o, x)
  OBVIOUS
<1>10. Len(r) = i + 1 /\ r[i + 1] = x /\ \A k \in 1..i : r[k] = o[k]
  BY <1>3, <1>5, <1>6, <1>9
<1>11. posted'[d] = q /\ out'[d] = r
  BY <1>1, <1>2, <1>6, <1>7, <1>9
<1>12. /\ \A k \in 1..i : w + k <= n /\ o[k] = sent[d][w + k]
       /\ \A k \in 1..j :
            IF p[k] = Close
              THEN k = j /\ d = "client" /\ ui # "running"
              ELSE w + i + k <= n /\ p[k] = sent[d][w + i + k]
       /\ ui = "running" \/ d = "server" => w + i + j = n
  BY <1>1, <1>2, <1>3 DEF Queued
<1>13. w + i + 1 <= n /\ x = sent[d][w + i + 1]
  BY <1>3, <1>4, <1>6, <1>12
<1>14. \A k \in 1..i + 1 : w + k <= n /\ r[k] = sent[d][w + k]
  <2> TAKE k \in 1..i + 1
  <2>1. CASE k = i + 1
    <3>1. w + k = w + i + 1
      BY <1>3, <2>1
    <3>2. QED BY <1>10, <1>13, <2>1, <3>1
  <2>2. CASE k # i + 1
    <3>1. k \in 1..i
      BY <1>3, <2>2
    <3>2. QED BY <1>10, <1>12, <3>1
  <2>3. QED BY <2>1, <2>2
<1>15. \A k \in 1..j - 1 :
         IF q[k] = Close
           THEN k = j - 1 /\ d = "client" /\ ui # "running"
           ELSE w + (i + 1) + k <= n /\ q[k] = sent[d][w + (i + 1) + k]
  <2> TAKE k \in 1..j - 1
  <2>1. k + 1 \in 1..j /\ w + (i + 1) + k = w + i + (k + 1)
    BY <1>3
  <2>2. q[k] = p[k + 1]
    BY <1>8
  <2>3. CASE q[k] = Close
    <3>1. k + 1 = j /\ d = "client" /\ ui # "running"
      BY <1>12, <2>1, <2>2, <2>3
    <3>2. k = j - 1
      BY <1>3, <3>1
    <3>3. QED BY <2>3, <3>1, <3>2
  <2>4. CASE q[k] # Close
    BY <1>12, <2>1, <2>2, <2>4
  <2>5. QED BY <2>3, <2>4
<1>16. ui = "running" \/ d = "server" => w + (i + 1) + (j - 1) = n
  <2>1. w + (i + 1) + (j - 1) = w + i + j
    BY <1>3, <1>6
  <2>2. QED BY <1>12, <2>1
<1>17. Queued(d, w)'
  <2>1. Len(out'[d]) = i + 1 /\ Len(posted'[d]) = j - 1 /\ Len(sent'[d]) = n
    BY <1>3, <1>8, <1>10, <1>11
  <2>2. QED BY <1>11, <1>14, <1>15, <1>16, <2>1 DEF Queued
<1>18. QED BY <1>1, <1>2, <1>3, <1>6, <1>13, <1>17 DEF Message

\* The message that was written leaves those that wait.
LEMMA QueuedWrites ==
  ASSUME TypeOK, NEW d \in Ends, NEW w \in Nat, Queued(d, w), out[d] # <<>>,
         out'[d] = Tail(out[d]), posted'[d] = posted[d], sent'[d] = sent[d], ui' = ui
  PROVE  Queued(d, w + 1)'
<1>1. PICK o : o = out[d]
  OBVIOUS
<1>2. PICK i \in Nat, j \in Nat, n \in Nat :
        i = Len(o) /\ j = Len(posted[d]) /\ n = Len(sent[d])
  BY <1>1 DEF TypeOK
<1>3. PICK r : r = Tail(o)
  OBVIOUS
<1>4. o \in Seq(Message) /\ o # <<>>
  BY <1>1 DEF TypeOK
<1>5. i >= 1 /\ Len(r) = i - 1 /\ \A k \in 1..i - 1 : r[k] = o[k + 1]
  BY <1>2, <1>3, <1>4
<1>6. /\ \A k \in 1..i : w + k <= n /\ o[k] = sent[d][w + k]
      /\ \A k \in 1..j :
           IF posted[d][k] = Close
             THEN k = j /\ d = "client" /\ ui # "running"
             ELSE w + i + k <= n /\ posted[d][k] = sent[d][w + i + k]
      /\ ui = "running" \/ d = "server" => w + i + j = n
  BY <1>1, <1>2 DEF Queued
<1>7. \A k \in 1..i - 1 : (w + 1) + k <= n /\ r[k] = sent[d][(w + 1) + k]
  <2> TAKE k \in 1..i - 1
  <2>1. k + 1 \in 1..i /\ (w + 1) + k = w + (k + 1)
    BY <1>2
  <2>2. QED BY <1>5, <1>6, <2>1
<1>8. \A k \in Nat : (w + 1) + (i - 1) + k = w + i + k
  BY <1>2, <1>5
<1>9. \A k \in 1..j :
        IF posted[d][k] = Close
          THEN k = j /\ d = "client" /\ ui # "running"
          ELSE (w + 1) + (i - 1) + k <= n /\ posted[d][k] = sent[d][(w + 1) + (i - 1) + k]
  BY <1>2, <1>6, <1>8
<1>10. ui = "running" \/ d = "server" => (w + 1) + (i - 1) + j = n
  BY <1>2, <1>6, <1>8
<1>11. Len(out'[d]) = i - 1 /\ Len(posted'[d]) = j /\ Len(sent'[d]) = n /\ out'[d] = r
  BY <1>1, <1>2, <1>3, <1>5
<1>12. QED BY <1>7, <1>9, <1>10, <1>11 DEF Queued

\* The first message that waits is the one after those that are written.
LEMMA NextOut ==
  ASSUME TypeOK, NEW d \in Ends, NEW w \in Nat, Queued(d, w), Numbered(d), out[d] # <<>>
  PROVE  out[d][1] \in Message /\ out[d][1].n = w + 1 /\ IsSent(d, out[d][1])
<1>1. out[d] \in Seq(Message) /\ 1 \in 1..Len(out[d]) /\ Len(sent[d]) \in Nat
  BY DEF TypeOK
<1>2. out[d][1] \in Message /\ w + 1 <= Len(sent[d]) /\ out[d][1] = sent[d][w + 1]
  BY <1>1 DEF Queued
<1>3. w + 1 \in 1..Len(sent[d])
  BY <1>1, <1>2
<1>4. sent[d][w + 1].n = w + 1
  BY <1>3 DEF Numbered
<1>5. QED BY <1>2, <1>3, <1>4 DEF IsSent

\* A unit that fits goes to the end of the stream.
LEMMA WireAppends ==
  ASSUME NEW e, wire[e] \in Seq(Unit), NEW u \in Unit, Wire(e), Fits(e, u),
         wire'[e] = Append(wire[e], u), sent'[e] = sent[e],
         u.kind \in {"header", "body"} =>
           IsSent(e, u.msg) /\ (u.kind = "body" => u.msg.body),
         ReaderStays(Peer(e))
  PROVE  Wire(e)' /\ \A v : Follows(u, v) => Fits(e, v)'
<1>1. PICK s : s = wire[e]
  OBVIOUS
<1>2. PICK t : t = Append(s, u)
  OBVIOUS
<1>3. PICK n \in Nat : n = Len(s)
  BY <1>1
<1>4. Len(t) = n + 1 /\ t[n + 1] = u /\ \A k \in 1..n : t[k] = s[k]
  BY <1>1, <1>2, <1>3
<1>5. wire'[e] = t
  BY <1>1, <1>2
<1>6. s = <<>> <=> n = 0
  BY <1>1, <1>3, EmptySeq
<1>7. \A k \in 1..n + 1 :
        t[k].kind \in {"header", "body"} =>
          IsSent(e, t[k].msg)' /\ (t[k].kind = "body" => t[k].msg.body)
  <2> TAKE k \in 1..n + 1
  <2>1. \A m : IsSent(e, m) => IsSent(e, m)'
    BY DEF IsSent
  <2>2. CASE k = n + 1
    BY <1>4, <2>1, <2>2
  <2>3. CASE k # n + 1
    <3>1. k \in 1..n
      BY <1>3, <2>3
    <3>2. s[k].kind \in {"header", "body"} =>
            IsSent(e, s[k].msg) /\ (s[k].kind = "body" => s[k].msg.body)
      BY <1>1, <1>3, <3>1 DEF Wire
    <3>3. QED BY <1>4, <2>1, <3>1, <3>2
  <2>4. QED BY <2>2, <2>3
<1>8. \A j, k \in 1..n + 1 : k = j + 1 => Follows(t[j], t[k])
  <2> SUFFICES ASSUME NEW j \in 1..n + 1, NEW k \in 1..n + 1, k = j + 1
               PROVE  Follows(t[j], t[k])
    OBVIOUS
  <2>1. CASE k = n + 1
    <3>1. j = n /\ n # 0
      BY <1>3, <2>1
    <3>2. Follows(s[n], u)
      BY <1>1, <1>3, <1>6, <3>1 DEF Fits
    <3>3. j \in 1..n
      BY <1>3, <3>1
    <3>4. QED BY <1>4, <2>1, <3>1, <3>2, <3>3
  <2>2. CASE k # n + 1
    <3>1. j \in 1..n /\ k \in 1..n
      BY <1>3, <2>2
    <3>2. Follows(s[j], s[k])
      BY <1>1, <1>3, <3>1 DEF Wire
    <3>3. QED BY <1>4, <3>1, <3>2
  <2>3. QED BY <2>1, <2>2
<1>9. socket'[Peer(e)] # "closed" => Expects(Peer(e), t[1])'
  <2> SUFFICES ASSUME socket'[Peer(e)] # "closed" PROVE Expects(Peer(e), t[1])'
    OBVIOUS
  <2>1. socket[Peer(e)] # "closed" /\ \A v : Expects(Peer(e), v) => Expects(Peer(e), v)'
    BY DEF ReaderStays
  <2>2. CASE n = 0
    <3>1. Expects(Peer(e), u)
      BY <1>1, <1>6, <2>1, <2>2 DEF Fits
    <3>2. t[1] = u
      BY <1>4, <2>2
    <3>3. QED BY <2>1, <3>1, <3>2
  <2>3. CASE n # 0
    <3>1. Expects(Peer(e), s[1])
      BY <1>1, <1>6, <2>1, <2>3 DEF Wire
    <3>2. t[1] = s[1]
      BY <1>3, <1>4, <2>3
    <3>3. QED BY <2>1, <3>1, <3>2
  <2>4. QED BY <2>2, <2>3
<1>10. Wire(e)'
  BY <1>4, <1>5, <1>7, <1>8, <1>9 DEF Wire, Follows, Number
<1>11. t # <<>> /\ t[Len(t)] = u
  BY <1>3, <1>4
<1>12. \A v : Follows(u, v) => Fits(e, v)'
  BY <1>5, <1>11 DEF Fits, Follows, Number
<1>13. QED BY <1>10, <1>12

\* A posted message starts the chain of writes or waits; a posted close ends
\* the client's part.  A client that has not
\* answered the challenge may write the message first.
LEMMA KeepsRunPosted ==
  ASSUME SInv, NEW d \in Ends, RunPosted(d)
  PROVE  Kept
<1>t. TypeOK /\ ServerStarts /\ ClientStarts
  BY DEF SInv, CInv
<1>i. \A e \in Ends : Numbered(e) /\ Heard(e) /\ Len(delivered[e]) \in Nat
  BY <1>t DEF SInv, TypeOK
<1>1. /\ posted[d] # <<>> /\ posted' = [posted EXCEPT ![d] = Tail(@)]
      /\ UNCHANGED <<net, reads, wire, tmpIn, delivered, sent, ui, validated>>
      /\ posted'[d] = Tail(posted[d])
      /\ \A e \in Ends : e # d => posted'[e] = posted[e]
  BY <1>t DEF RunPosted, TypeOK
<1>3. CASE Head(posted[d]) = Close
  <2>1. /\ socket'[d] = "closed" /\ UNCHANGED <<out, writes>>
        /\ \A e \in Ends : e # d => socket'[e] = socket[e]
    BY <1>t, <1>1, <1>3 DEF RunPosted, TypeOK
  <2>3. ASSUME NEW e \in Ends PROVE ReaderStays(e) /\ Extends(e) /\ Numbered(e)'
    <3>1. ReaderStays(e)
      BY <1>1, <2>1, ReaderStaysIf DEF Fresh
    <3>2. QED BY <1>t, <1>i, <1>1, <3>1, SentSame
  <2>4. ASSUME Sound(d) PROVE Sound(d)'
    <3>1. PICK w \in Nat : Queued(d, w) /\ Writing(d, w) /\ Before(d, w)
      BY <2>4 DEF Sound
    <3>p. PICK p : p = posted[d]
      OBVIOUS
    <3>2. p \in Seq(Message \cup {Close}) /\ p # <<>>
      BY <1>t, <1>1, <3>p DEF TypeOK
    <3>3. 1 \in 1..Len(p) /\ p[1] = Close
      BY <1>3, <3>p, <3>2
    <3>4. 1 = Len(p) /\ d = "client" /\ ui # "running"
      BY <3>1, <3>p, <3>3 DEF Queued
    <3>q. PICK q : q = Tail(p)
      OBVIOUS
    <3>5. q \in Seq(Message \cup {Close}) /\ Len(q) = 0
      BY <3>2, <3>4, <3>q
    <3>6. Queued(d, w)'
      <4>1. \A k \in 1..Len(out[d]) : w + k <= Len(sent[d]) /\ out[d][k] = sent[d][w + k]
        BY <3>1 DEF Queued
      <4>2. Len(posted'[d]) = 0 /\ ui' # "running"
        BY <1>1, <3>p, <3>q, <3>4, <3>5
      <4>3. /\ \A k \in 1..Len(posted'[d]) : FALSE
            /\ out'[d] = out[d] /\ sent'[d] = sent[d]
        BY <1>1, <2>1, <4>2
      <4>4. QED BY <3>4, <4>1, <4>2, <4>3 DEF Queued
    <3>7. Writing(d, w)' /\ Before(d, w)'
      BY <2>1 DEF Writing, Before
    <3>8. Wire(d)'
      BY <1>1, <2>3, <2>4, WireIfStays, EndsFacts DEF Sound
    <3>9. QED BY <3>1, <3>6, <3>7, <3>8 DEF Sound
  <2>5. ASSUME NEW e \in Ends PROVE Heard(e)' /\ (Sound(e) => Sound(e)')
    <3>1. ReaderStays(Peer(e)) /\ Extends(Peer(e))
      BY <2>3, EndsFacts
    <3>2. Heard(e)'
      BY <1>i, <1>1, <3>1, HeardIfStays
    <3>3. CASE e = d
      BY <2>4, <3>2, <3>3
    <3>4. CASE e # d
      BY <1>t, <1>i, <1>1, <2>1, <3>1, <3>2, <3>4, SenderStays
    <3>5. QED BY <3>3, <3>4
  <2>6. ServerStarts' /\ ClientStarts'
    <3>1. ServerStarts'
      <4>1. CASE d = "client"
        BY <1>t, <1>1, <2>1, <4>1, EndsFacts DEF ServerStarts
      <4>2. CASE d # "client"
        BY <1>t, <1>1, <2>1, <4>2, EndsFacts DEF ServerStarts, Fresh, Ends
      <4>3. QED BY <4>1, <4>2
    <3>2. ClientStarts'
      <4>1. CASE d = "client"
        BY <2>1, <4>1, EndsFacts DEF ClientStarts
      <4>2. CASE d # "client"
        BY <1>t, <1>1, <2>1, <4>2, EndsFacts DEF ClientStarts, Openings
      <4>3. QED BY <4>1, <4>2
    <3>3. QED BY <3>1, <3>2
  <2>7. QED BY <2>3, <2>5, <2>6 DEF Kept
<1>4. CASE Head(posted[d]) # Close
  <2>m. PICK m : m = Head(posted[d])
    OBVIOUS
  <2>1. /\ UNCHANGED socket
        /\ out'[d] = Append(out[d], m)
        /\ writes'[d] = IF out[d] = <<>> THEN Append(writes[d], "header") ELSE writes[d]
        /\ \A e \in Ends : e # d => out'[e] = out[e] /\ writes'[e] = writes[e]
    BY <1>t, <1>4, <2>m DEF RunPosted, StartWriting, TypeOK
  <2>2. ASSUME NEW e \in Ends PROVE ReaderStays(e) /\ Extends(e) /\ Numbered(e)'
    <3>1. ReaderStays(e)
      BY <1>1, <2>1, ReaderStaysIf DEF Fresh
    <3>2. QED BY <1>t, <1>i, <1>1, <3>1, SentSame
  <2>5. m \in Message /\ writes[d] \in Seq(WriteKind) /\ "header" \in WriteKind
    BY <1>t, <1>1, <1>4, <2>m DEF TypeOK, WriteKind
  <2>6. ASSUME Sound(d) PROVE Sound(d)' \/ SentTooSoon(d)
    <3>2. \A u : Fits(d, u) => Fits(d, u)'
      BY <1>1, <2>2, FitsIfStays, EndsFacts
    <3>w. Wire(d)'
      BY <1>1, <2>2, <2>6, WireIfStays, EndsFacts DEF Sound
    <3>a. PICK w \in Nat : Queued(d, w) /\ Writing(d, w) /\ Before(d, w)
      BY <2>6 DEF Sound
    <3>q. /\ Queued(d, w)' /\ w + Len(out[d]) + 1 <= Len(sent[d])
          /\ m = sent[d][w + Len(out[d]) + 1]
      BY <1>t, <1>1, <3>a, <1>4, <2>m, <2>1, QueuedRuns
    <3>3. PICK o : o = Append(out[d], m)
      OBVIOUS
    <3>4. o # <<>> /\ (out[d] # <<>> => o[1] = out[d][1]) /\ (out[d] = <<>> => o[1] = m)
      <4>1. PICK n \in Nat : n = Len(out[d])
        BY <1>t DEF TypeOK
      <4>2. /\ Len(o) = n + 1 /\ o[n + 1] = m
            /\ \A k \in 1..n : o[k] = out[d][k]
        BY <1>t, <2>5, <3>3, <4>1 DEF TypeOK
      <4>3. out[d] = <<>> <=> n = 0
        BY <1>t, <4>1, EmptySeq DEF TypeOK
      <4>4. QED BY <4>1, <4>2, <4>3
    <3>b. ASSUME socket[d] # "closed", ~Opened(d),
                 socket[d] # "open" \/ reads[d] # "none"
          PROVE  SentTooSoon(d)
      <4>1. /\ d = "client" /\ w = 0 /\ wire[d] = <<>>
            /\ Fits(d, [kind |-> Opening(d)]) /\ writes[d] = <<>> /\ out[d] = <<>>
        BY <3>a, <3>b DEF Before, Opened, Ends
      <4>2. writes'[d] = <<"header">> /\ writes'[d] # <<>>
        BY <2>1, <2>5, <4>1
      <4>3. socket[Peer(d)] # "closed" => Fresh(Peer(d))
        <5>1. SUFFICES ASSUME socket[Peer(d)] # "closed" PROVE Fresh(Peer(d))
          OBVIOUS
        <5>2. PICK u : u = [kind |-> Opening(d)]
          OBVIOUS
        <5>3. u.kind = "answer" /\ Expects(Peer(d), u)
          BY <4>1, <5>1, <5>2 DEF Fits, Opening
        <5>4. QED BY <5>3 DEF Expects
      <4>4. Spoiled'
        BY <1>1, <2>1, <4>1, <4>2, <4>3, TailPair DEF Spoiled, Fresh, Peer
      <4>5. reads[d] \in {"none", "validation"}
        BY <1>t, <3>b, <4>1 DEF TypeOK, ReadKind, Opened
      <4>6. delivered[d] = <<>>
        BY <1>t, <3>b, <4>1, <4>5 DEF ClientStarts
      <4>7. sent[d] # <<>>
        <5>1. Len(out[d]) = 0 /\ Len(sent[d]) \in Nat
          BY <1>t, <4>1 DEF TypeOK
        <5>2. Len(sent[d]) # 0
          BY <3>a, <3>q, <5>1
        <5>3. QED BY <5>2
      <4>8. QED BY <4>1, <4>4, <4>6, <4>7 DEF SentTooSoon
    <3>n. SUFFICES ASSUME socket[d] # "closed" /\ ~Opened(d) =>
                            socket[d] = "open" /\ reads[d] = "none"
                   PROVE  Sound(d)'
      BY <3>b
    <3>c. Writing(d, w)'
      <4>0. SUFFICES ASSUME socket[d] = "open" PROVE Writing(d, w)'
        BY <2>1 DEF Writing
      <4>5. CASE out[d] = <<>> /\ writes[d] = <<>>
        <5>1. m.n = w + 1
          <6>1. Len(out[d]) = 0 /\ Len(sent[d]) \in Nat
            BY <1>t, <4>5 DEF TypeOK
          <6>2. w + 1 \in 1..Len(sent[d]) /\ m = sent[d][w + 1]
            BY <3>a, <3>q, <6>1
          <6>3. QED BY <1>i, <6>2 DEF Numbered
        <5>2. Fits(d, [kind |-> "header", msg |-> m])
          <6>1. Opened(d)
            BY <3>a, <3>n, <4>0, <4>5 DEF Before
          <6>2. QED BY <3>a, <2>5, <4>0, <4>5, <5>1, <6>1 DEF Writing
        <5>3. writes'[d] = <<"header">>
          BY <2>1, <4>5
        <5>4. NextWrite(d)' = [kind |-> "header", msg |-> m]
          BY <2>1, <3>3, <3>4, <4>5, <5>3 DEF NextWrite
        <5>5. Fits(d, NextWrite(d))'
          <6>1. Fits(d, [kind |-> "header", msg |-> m])'
            BY <3>2, <5>2
          <6>2. QED BY <5>4, <6>1 DEF Fits
        <5>6. out'[d] # <<>> /\ writes'[d] # <<>>
          <6>1. out'[d] # <<>>
            BY <2>1, <3>3, <3>4
          <6>2. writes'[d] # <<>>
            BY <5>3
          <6>3. QED BY <6>1, <6>2
        <5>7. QED BY <5>3, <5>5, <5>6 DEF Writing
      <4>6. CASE out[d] = <<>> /\ writes[d] # <<>>
        <5>1. writes[d] = <<Opening(d)>> /\ w = 0 /\ Fits(d, NextWrite(d))
          BY <3>a, <4>0, <4>6 DEF Writing
        <5>2. writes'[d] = <<Opening(d), "header">>
          <6>1. writes'[d] = Append(<<Opening(d)>>, "header")
            BY <2>1, <4>6, <5>1
          <6>2. QED BY <6>1, AppendPair
        <5>3. Opening(d) \notin {"header", "body"}
          BY DEF Opening
        <5>4. NextWrite(d) = [kind |-> Opening(d)] /\ NextWrite(d)' = [kind |-> Opening(d)]
          BY <5>1, <5>2, <5>3 DEF NextWrite, Opening
        <5>5. Fits(d, NextWrite(d))'
          <6>1. Fits(d, [kind |-> Opening(d)])'
            BY <3>2, <5>1, <5>4
          <6>2. QED BY <5>4, <6>1 DEF Fits
        <5>6. out'[d] # <<>> /\ writes'[d] # <<>>
          <6>1. out'[d] # <<>>
            BY <2>1, <3>3, <3>4
          <6>2. writes'[d] # <<>>
            BY <5>2
          <6>3. QED BY <6>1, <6>2
        <5>7. Opening(d)' = Opening(d)
          BY DEF Opening
        <5>8. QED BY <5>1, <5>2, <5>5, <5>6, <5>7 DEF Writing
      <4>7. CASE out[d] # <<>>
        <5>1. writes'[d] = writes[d] /\ out'[d] = o
          BY <2>1, <3>3, <4>7
        <5>2. writes[d] # <<>> /\ Fits(d, NextWrite(d))
          <6>1. \A x : <<x, "header">> # <<>>
            OBVIOUS
          <6>2. \/ writes[d] = <<Opening(d), "header">>
                \/ writes[d] = <<"header">> \/ writes[d] = <<"body">>
            BY <3>a, <4>0, <4>7 DEF Writing
          <6>3. writes[d] # <<>>
            BY <6>1, <6>2, TailPair, Zenon
          <6>4. QED BY <3>a, <4>0, <6>3 DEF Writing
        <5>3. NextWrite(d)' = NextWrite(d)
          BY <3>4, <4>7, <5>1 DEF NextWrite
        <5>4. Fits(d, NextWrite(d))'
          <6>1. PICK v : v = NextWrite(d)
            OBVIOUS
          <6>2. Fits(d, v)'
            BY <3>2, <5>2, <6>1
          <6>3. QED BY <5>3, <6>1, <6>2 DEF Fits
        <5>5. \/ writes[d] = <<Opening(d), "header">> /\ w = 0
              \/ writes[d] = <<"header">>
              \/ writes[d] = <<"body">> /\ o[1].body
          BY <3>a, <4>0, <3>4, <4>7 DEF Writing
        <5>6. QED BY <3>4, <5>1, <5>2, <5>4, <5>5 DEF Writing, Opening
      <4>8. QED BY <4>5, <4>6, <4>7
    <3>d. Before(d, w)'
      <4>0. SUFFICES ASSUME socket[d] # "closed", ~Opened(d)
                     PROVE  Before(d, w)'
        BY <1>1, <2>1 DEF Before, Opened
      <4>1. /\ socket[d] = "open" /\ reads[d] = "none"
            /\ w = 0 /\ wire[d] = <<>> /\ Fits(d, [kind |-> Opening(d)])
            /\ writes[d] # <<>> /\ writes[d][1] = Opening(d)
        BY <3>a, <3>n, <4>0 DEF Before
      <4>2. writes'[d] # <<>> /\ writes'[d][1] = Opening(d)
        BY <2>1, <2>5, <4>1, FirstOfAppend
      <4>3. Fits(d, [kind |-> Opening(d)])'
        BY <3>2, <4>1 DEF Fits, Opening
      <4>4. QED BY <1>1, <2>1, <4>1, <4>2, <4>3 DEF Before, Opening
    <3>e. QED BY <3>a, <3>c, <3>d, <3>q, <3>w DEF Sound
  <2>8. ASSUME NEW e \in Ends PROVE Heard(e)' /\ (Sound(e) => Sound(e)' \/ SentTooSoon(e))
    <3>1. ReaderStays(Peer(e)) /\ Extends(Peer(e))
      BY <2>2, EndsFacts
    <3>2. Heard(e)'
      BY <1>i, <1>1, <3>1, HeardIfStays
    <3>3. CASE e = d
      BY <2>6, <3>2, <3>3
    <3>4. CASE e # d
      BY <1>t, <1>i, <1>1, <2>1, <3>1, <3>2, <3>4, SenderStays
    <3>5. QED BY <3>3, <3>4
  <2>9. ServerStarts'
    <3>1. CASE d = "server"
      <4>1. posted["server"] # <<>>
        BY <1>1, <3>1
      <4>2. QED BY <1>t, <1>1, <2>1, <3>1, <4>1 DEF ServerStarts
    <3>2. CASE d # "server"
      BY <1>t, <1>1, <2>1, <3>2, EndsFacts DEF ServerStarts, Fresh
    <3>3. QED BY <3>1, <3>2
  <2>10. ClientStarts'
    <3>1. Openings(writes'["client"]) = Openings(writes["client"])
      <4>1. CASE d = "client"
        BY <2>1, <2>5, <4>1, OpeningsAppend
      <4>2. CASE d # "client"
        BY <2>1, <4>2, EndsFacts
      <4>3. QED BY <4>1, <4>2
    <3>2. QED BY <1>t, <1>1, <2>1, <3>1 DEF ClientStarts
  <2>11. QED BY <2>2, <2>8, <2>9, <2>10 DEF Kept
<1>5. QED BY <1>3, <1>4

\* An end that writes its part of the handshake: the client's is the answer,
\* which it is about to write only between the challenge and the first header.
LEMMA KeepsWriteOpening ==
  ASSUME SInv, NEW d \in Ends, WriteDone(d), Head(writes[d]) \notin {"header", "body"}
  PROVE  Kept
<1>t. TypeOK /\ ServerStarts /\ ClientStarts
  BY DEF SInv, CInv
<1>i. \A e \in Ends : Numbered(e) /\ Heard(e) /\ Len(delivered[e]) \in Nat
  BY <1>t DEF SInv, TypeOK
<1>k. PICK x : x = Head(writes[d])
  OBVIOUS
<1>u. PICK u : u = [kind |-> x]
  OBVIOUS
<1>1. /\ writes[d] # <<>> /\ socket[d] = "open"
      /\ wire' = [wire EXCEPT ![d] = Append(@, u)]
      /\ writes' = [writes EXCEPT ![d] = Tail(@)]
      /\ reads' = IF d = "client" THEN [reads EXCEPT !["client"] = "header"] ELSE reads
      /\ UNCHANGED <<net, socket, posted, out, tmpIn, delivered, sent, ui, validated>>
  BY <1>k, <1>u DEF WriteDone
<1>2. /\ wire'[d] = Append(wire[d], u) /\ writes'[d] = Tail(writes[d])
      /\ \A e \in Ends : e # d => wire'[e] = wire[e] /\ writes'[e] = writes[e]
      /\ \A e \in Ends : e # "client" \/ d # "client" => reads'[e] = reads[e]
      /\ d = "client" => reads'["client"] = "header"
  BY <1>t, <1>1, EndsFacts DEF TypeOK
<1>o. /\ writes[d] \in Seq(WriteKind) /\ Head(writes[d]) = writes[d][1]
      /\ 1 \in 1..Len(writes[d]) /\ x \notin {"header", "body"}
  BY <1>t, <1>1, <1>k DEF TypeOK
<1>6. d = "client" => reads["client"] = "none" /\ Openings(writes'["client"]) = {}
  <2>1. SUFFICES ASSUME d = "client"
                 PROVE  reads["client"] = "none" /\ Openings(writes'["client"]) = {}
    OBVIOUS
  <2>2. \A j, k \in Openings(writes[d]) : j = k
    BY <1>t, <1>1, <2>1 DEF ClientStarts
  <2>3. Openings(writes[d]) # {} /\ Openings(Tail(writes[d])) = {}
    BY <1>1, <1>o, <2>2, OpeningsTail
  <2>4. reads["client"] = "none"
    BY <1>t, <1>1, <2>1, <2>3 DEF ClientStarts
  <2>5. QED BY <1>2, <2>1, <2>3, <2>4
<1>7. ASSUME NEW e \in Ends PROVE ReaderStays(e) /\ Extends(e) /\ Numbered(e)'
  <2>1. ReaderStays(e)
    <3>1. (reads'[e] = "body" <=> reads[e] = "body") /\ Fresh(e)' = Fresh(e)
      <4>1. CASE e = "client" /\ d = "client"
        BY <1>1, <1>2, <1>6, <4>1 DEF Fresh
      <4>2. CASE ~(e = "client" /\ d = "client")
        BY <1>1, <1>2, <4>2 DEF Fresh
      <4>3. QED BY <4>1, <4>2
    <3>2. QED BY <1>1, <3>1, ReaderStaysIf
  <2>2. QED BY <1>t, <1>i, <1>1, <2>1, SentSame
<1>8. ASSUME Sound(d) PROVE Sound(d)'
  <2>a. PICK w \in Nat : Queued(d, w) /\ Writing(d, w) /\ Before(d, w)
    BY <1>8 DEF Sound
  <2>b. /\ w = 0 /\ x = Opening(d) /\ Fits(d, NextWrite(d)) /\ writes[d][1] = x
        /\ \/ writes[d] = <<Opening(d)>> /\ out[d] = <<>>
           \/ writes[d] = <<Opening(d), "header">> /\ out[d] # <<>>
    <3>1. writes[d] \in Seq(WriteKind) /\ Head(writes[d]) = writes[d][1]
      BY <1>t, <1>1 DEF TypeOK
    <3>2. writes[d][1] = x /\ x \notin {"header", "body"}
      BY <1>k, <3>1
    <3>3. \/ writes[d] = <<Opening(d)>> /\ out[d] = <<>> /\ w = 0
          \/ writes[d] = <<Opening(d), "header">> /\ out[d] # <<>> /\ w = 0
      BY <1>1, <2>a, <3>2 DEF Writing
    <3>4. Fits(d, NextWrite(d))
      BY <1>1, <2>a DEF Writing
    <3>5. QED BY <3>2, <3>3, <3>4
  <2>s. /\ out[d] = <<>> => writes'[d] = <<>>
        /\ out[d] # <<>> => writes'[d] = <<"header">>
    <3>1. CASE out[d] = <<>>
      <4>1. writes[d] = <<Opening(d)>>
        BY <2>b, <3>1, Zenon
      <4>2. writes'[d] = Tail(<<Opening(d)>>)
        BY <1>2, <4>1, Zenon
      <4>3. QED BY <3>1, <4>2, TailPair, Zenon
    <3>2. CASE out[d] # <<>>
      <4>1. writes[d] = <<Opening(d), "header">>
        BY <2>b, <3>2, Zenon
      <4>2. writes'[d] = Tail(<<Opening(d), "header">>)
        BY <1>2, <4>1, Zenon
      <4>3. QED BY <3>2, <4>2, TailPair, Zenon
    <3>3. QED BY <3>1, <3>2
  <2>u. u \in Unit /\ u.kind \notin {"header", "body"} /\ Number(u) = 0 /\ NextWrite(d) = u
    BY <1>u, <2>b DEF Opening, Unit, Number, NextWrite
  <2>w. Wire(d)' /\ \A v : Follows(u, v) => Fits(d, v)'
    <3>1. Fits(d, u)
      BY <2>b, <2>u
    <3>2. wire[d] \in Seq(Unit) /\ ReaderStays(Peer(d))
      BY <1>t, <1>7, EndsFacts DEF TypeOK
    <3>3. QED BY <1>8, <1>1, <1>2, <2>u, <3>1, <3>2, WireAppends DEF Sound
  <2>c. Writing(d, 0)'
    <3>1. \A m : m.n = 1 => Fits(d, [kind |-> "header", msg |-> m])'
      <4> SUFFICES ASSUME NEW m, m.n = 1 PROVE Fits(d, [kind |-> "header", msg |-> m])'
        OBVIOUS
      <4>1. Follows(u, [kind |-> "header", msg |-> m])
        BY <2>u DEF Follows
      <4>2. QED BY <2>w, <4>1
    <3>2. CASE out[d] = <<>>
      <4>1. writes'[d] = <<>>
        BY <2>s, <3>2
      <4>2. out'[d] = <<>> /\ (0 + 1 = 1)
        BY <1>1, <3>2
      <4>3. QED BY <3>1, <4>1, <4>2 DEF Writing
    <3>3. CASE out[d] # <<>>
      <4>1. writes'[d] = <<"header">>
        BY <2>s, <3>3
      <4>m. PICK m : m = out[d][1]
        OBVIOUS
      <4>2. m.n = 1
        BY <1>t, <1>i, <2>a, <2>b, <3>3, <4>m, NextOut
      <4>3. Fits(d, [kind |-> "header", msg |-> m])'
        BY <3>1, <4>2
      <4>4. NextWrite(d)' = [kind |-> "header", msg |-> m]
        BY <1>1, <4>1, <4>m, TailPair DEF NextWrite
      <4>5. Fits(d, NextWrite(d))'
        BY <1>1, <4>3, <4>4 DEF Fits
      <4>6. out'[d] # <<>>
        BY <1>1, <3>3
      <4>7. writes'[d] # <<>>
        BY <4>1
      <4>8. QED BY <4>1, <4>5, <4>6, <4>7 DEF Writing
    <3>4. QED BY <3>2, <3>3
  <2>q. Queued(d, 0)'
    BY <1>1, <2>a, <2>b, QueuedIfStays
  <2>d. Before(d, 0)'
    <3>1. Opened(d)'
      BY <1>2 DEF Opened, Ends
    <3>2. QED BY <3>1 DEF Before
  <2>e. QED BY <2>c, <2>d, <2>q, <2>w DEF Sound
<1>11. ASSUME NEW e \in Ends PROVE Heard(e)' /\ (Sound(e) => Sound(e)')
  <2>1. ReaderStays(Peer(e)) /\ Extends(Peer(e))
    BY <1>7, EndsFacts
  <2>2. reads'[e] = "body" => reads[e] = "body"
    BY <1>2
  <2>3. Heard(e)'
    BY <1>i, <1>1, <2>1, <2>2, HeardIfStays
  <2>4. CASE e = d
    BY <1>8, <2>3, <2>4
  <2>5. CASE e # d
    <3>1. reads'[e] = reads[e]
      BY <1>2, <2>5
    <3>2. QED BY <1>t, <1>i, <1>1, <1>2, <2>1, <2>3, <2>5, <3>1, SenderStays
  <2>6. QED BY <2>4, <2>5
<1>12. ServerStarts'
  <2>1. CASE d = "server"
    BY <1>t, <1>1, <1>2, <2>1, EndsFacts DEF ServerStarts
  <2>2. CASE d # "server"
    <3>1. d = "client"
      BY <2>2 DEF Ends
    <3>2. socket["server"] # "none"
      BY <1>t, <1>1, <1>6, <3>1 DEF ServerStarts, Fresh
    <3>3. QED BY <1>t, <1>1, <1>2, <3>1, <3>2, EndsFacts DEF ServerStarts
  <2>3. QED BY <2>1, <2>2
<1>13. ClientStarts'
  <2>1. CASE d # "client"
    BY <1>t, <1>1, <1>2, <2>1, EndsFacts DEF ClientStarts, Openings
  <2>2. CASE d = "client"
    BY <1>1, <1>2, <1>6, <2>2 DEF ClientStarts
  <2>3. QED BY <2>1, <2>2
<1>14. QED BY <1>7, <1>11, <1>12, <1>13 DEF Kept

\* An end that writes a header or a body of the first message that waits: the
\* body or the next header is written next.
LEMMA KeepsWriteMessage ==
  ASSUME SInv, NEW d \in Ends, WriteDone(d), Head(writes[d]) \in {"header", "body"}
  PROVE  Kept
<1>t. TypeOK /\ ServerStarts /\ ClientStarts /\ CInv
  BY DEF SInv, CInv
<1>i. \A e \in Ends : Numbered(e) /\ Heard(e) /\ Len(delivered[e]) \in Nat
  BY <1>t DEF SInv, TypeOK
<1>w. writes[d] # <<>> /\ socket[d] = "open"
  BY DEF WriteDone
<1>m. PICK m : m = out[d][1]
  OBVIOUS
<1>k. PICK x : x = Head(writes[d])
  OBVIOUS
<1>u. PICK u : u = [kind |-> x, msg |-> m]
  OBVIOUS
<1>o. /\ out[d] \in Seq(Message) /\ out[d] # <<>> /\ Head(out[d]) = m
      /\ writes[d] \in Seq(WriteKind) /\ x = writes[d][1]
  BY <1>t, <1>w, <1>m, <1>k, WrittenWaits DEF TypeOK
<1>1. /\ wire' = [wire EXCEPT ![d] = Append(@, u)]
      /\ UNCHANGED <<net, socket, posted, tmpIn, delivered, sent, ui, validated, reads>>
      /\ \/ /\ x = "header" /\ m.body
            /\ writes' = [writes EXCEPT ![d] = Append(Tail(@), "body")]
            /\ UNCHANGED out
         \/ /\ ~(x = "header" /\ m.body)
            /\ out' = [out EXCEPT ![d] = Tail(@)]
            /\ writes' = [writes EXCEPT ![d] =
                            IF Len(out[d]) > 1 THEN Append(Tail(@), "header") ELSE Tail(@)]
  BY <1>k, <1>u, <1>o DEF WriteDone, NextMessage
<1>2. /\ wire'[d] = Append(wire[d], u)
      /\ \A e \in Ends : e # d =>
           wire'[e] = wire[e] /\ writes'[e] = writes[e] /\ out'[e] = out[e]
  BY <1>t, <1>1 DEF TypeOK
<1>7. ASSUME NEW e \in Ends PROVE ReaderStays(e) /\ Extends(e) /\ Numbered(e)'
  <2>1. ReaderStays(e)
    BY <1>1, ReaderStaysIf DEF Fresh
  <2>2. QED BY <1>t, <1>i, <1>1, <2>1, SentSame
<1>8. ASSUME Sound(d) PROVE Sound(d)'
  <2>a. PICK w \in Nat : Queued(d, w) /\ Writing(d, w) /\ Before(d, w)
    BY <1>8 DEF Sound
  <2>b. /\ writes[d] = <<x>> /\ (x = "body" => m.body) /\ Fits(d, NextWrite(d))
    <3>1. x \in {"header", "body"}
      BY <1>k
    <3>2. Opening(d) \notin {"header", "body"}
      BY DEF Opening
    <3>3. \/ writes[d] = <<Opening(d)>>
          \/ writes[d] = <<Opening(d), "header">>
          \/ writes[d] = <<"header">>
          \/ writes[d] = <<"body">> /\ m.body
      BY <1>w, <1>m, <2>a DEF Writing
    <3>4. writes[d][1] \in {"header", "body"}
      BY <1>o, <3>1
    <3>5. \/ writes[d] = <<"header">>
          \/ writes[d] = <<"body">> /\ m.body
      BY <3>2, <3>3, <3>4
    <3>6. Fits(d, NextWrite(d))
      BY <1>w, <2>a DEF Writing
    <3>7. \/ writes[d] = <<"header">> /\ x = "header"
          \/ writes[d] = <<"body">> /\ x = "body" /\ m.body
      BY <1>o, <3>5
    <3>8. QED BY <3>6, <3>7
  <2>m. /\ m \in Message /\ m.n = w + 1 /\ IsSent(d, m)
    BY <1>t, <1>i, <1>m, <1>o, <2>a, NextOut
  <2>u. /\ u \in Unit /\ u.kind = x /\ u.msg = m /\ x \in {"header", "body"}
        /\ Number(u) = w + 1 /\ NextWrite(d) = u
    BY <1>m, <1>k, <1>u, <1>o, <2>m DEF Unit, Number, NextWrite
  <2>w. Wire(d)' /\ \A v : Follows(u, v) => Fits(d, v)'
    <3>1. Fits(d, u)
      BY <2>b, <2>u
    <3>2. wire[d] \in Seq(Unit) /\ ReaderStays(Peer(d))
      BY <1>t, <1>7, EndsFacts DEF TypeOK
    <3>3. u.kind \in {"header", "body"} =>
            IsSent(d, u.msg) /\ (u.kind = "body" => u.msg.body)
      BY <2>b, <2>m, <2>u
    <3>4. QED BY <1>8, <1>1, <1>2, <2>u, <3>1, <3>2, <3>3, WireAppends DEF Sound
  <2>s. Tail(writes[d]) = <<>>
    BY <2>b, TailPair
  <2>c. \E v \in Nat : Queued(d, v)' /\ Writing(d, v)'
    <3>1. CASE x = "header" /\ m.body
      <4>1. writes'[d] = <<"body">> /\ out' = out
        <5>1. writes'[d] = Append(Tail(writes[d]), "body") /\ out' = out
          BY <1>t, <1>1, <3>1 DEF TypeOK
        <5>2. Append(<<>>, "body") = <<"body">>
          OBVIOUS
        <5>3. QED BY <2>s, <5>1, <5>2
      <4>2. Queued(d, w)'
        BY <1>1, <2>a, <4>1, QueuedIfStays
      <4>3. Follows(u, [kind |-> "body", msg |-> m])
        BY <2>u, <3>1 DEF Follows
      <4>4. Fits(d, [kind |-> "body", msg |-> m])'
        BY <2>w, <4>3
      <4>5. NextWrite(d)' = [kind |-> "body", msg |-> m]
        BY <1>m, <4>1, TailPair DEF NextWrite
      <4>6. Fits(d, NextWrite(d))'
        BY <4>4, <4>5 DEF Fits
      <4>7. writes'[d] # <<>> /\ out'[d] # <<>> /\ out'[d][1].body
        BY <1>m, <1>o, <3>1, <4>1, TailPair
      <4>8. Writing(d, w)'
        BY <4>1, <4>6, <4>7 DEF Writing
      <4>9. QED BY <2>a, <4>2, <4>8
    <3>2. CASE ~(x = "header" /\ m.body)
      <4>1. /\ out'[d] = Tail(out[d])
            /\ writes'[d] = IF Len(out[d]) > 1 THEN <<"header">> ELSE <<>>
        <5>1. /\ out'[d] = Tail(out[d])
              /\ writes'[d] = IF Len(out[d]) > 1 THEN Append(Tail(writes[d]), "header")
                                                 ELSE Tail(writes[d])
          BY <1>t, <1>1, <3>2 DEF TypeOK
        <5>2. Append(<<>>, "header") = <<"header">>
          OBVIOUS
        <5>3. QED BY <2>s, <5>1, <5>2
      <4>2. Queued(d, w + 1)'
        BY <1>t, <1>o, <1>1, <2>a, <4>1, QueuedWrites
      <4>3. \A n : n.n = (w + 1) + 1 => Fits(d, [kind |-> "header", msg |-> n])'
        <5> SUFFICES ASSUME NEW n, n.n = (w + 1) + 1
                     PROVE  Fits(d, [kind |-> "header", msg |-> n])'
          OBVIOUS
        <5>1. Follows(u, [kind |-> "header", msg |-> n])
          BY <2>u, <3>2 DEF Follows
        <5>2. QED BY <2>w, <5>1
      <4>q. PICK q : q = Tail(out[d])
        OBVIOUS
      <4>4. PICK i \in Nat, j \in Nat :
              /\ i = Len(out[d]) /\ j = Len(q) /\ j = i - 1 /\ q \in Seq(Message)
        BY <1>o, <4>q
      <4>j. i \in Nat /\ j \in Nat /\ j = i - 1
        BY <4>4, Zenon
      <4>5. CASE Len(out[d]) > 1
        <5>1. writes'[d] = <<"header">>
          BY <4>1, <4>5
        <5>2. q # <<>> /\ out'[d] = q
          <6>1. i > 1
            BY <4>4, <4>5
          <6>2. j # 0
            BY <4>j, <6>1
          <6>3. QED BY <4>1, <4>4, <4>q, <6>2, EmptySeq
        <5>n. PICK n : n = q[1]
          OBVIOUS
        <5>3. n.n = (w + 1) + 1
          <6>1. out'[d][1].n = (w + 1) + 1
            <7>1. 1 \in 1..Len(q) /\ Len(sent[d]) \in Nat
              BY <1>t, <4>4, <4>5 DEF TypeOK
            <7>2. (w + 1) + 1 <= Len(sent[d]) /\ q[1] = sent[d][(w + 1) + 1]
              BY <1>1, <4>2, <5>2, <7>1 DEF Queued
            <7>3. (w + 1) + 1 \in 1..Len(sent[d])
              BY <2>a, <7>1, <7>2
            <7>4. QED BY <1>i, <5>2, <7>2, <7>3 DEF Numbered
          <6>2. QED BY <5>2, <5>n, <6>1
        <5>4. Fits(d, [kind |-> "header", msg |-> n])'
          BY <4>3, <5>3
        <5>5. NextWrite(d)' = [kind |-> "header", msg |-> n]
          BY <5>1, <5>2, <5>n, TailPair DEF NextWrite
        <5>6. Fits(d, NextWrite(d))'
          BY <5>4, <5>5 DEF Fits
        <5>7. writes'[d] # <<>> /\ out'[d] # <<>>
          BY <5>1, <5>2, TailPair
        <5>8. Writing(d, w + 1)'
          BY <5>1, <5>6, <5>7 DEF Writing
        <5>9. QED BY <2>a, <4>2, <5>8
      <4>6. CASE ~(Len(out[d]) > 1)
        <5>1. writes'[d] = <<>>
          BY <4>1, <4>6
        <5>2. out'[d] = <<>>
          <6>1. ~(i > 1)
            BY <4>4, <4>6
          <6>3. j = 0
            BY <4>j, <6>1
          <6>4. Len(q) = 0
            BY <4>4, <6>3
          <6>2. q = <<>>
            BY <4>4, <6>4, EmptySeq
          <6>5. QED BY <4>1, <4>q, <6>2
        <5>3. Writing(d, w + 1)'
          BY <4>3, <5>1, <5>2 DEF Writing
        <5>4. QED BY <2>a, <4>2, <5>3
      <4>7. QED BY <4>5, <4>6
    <3>3. QED BY <3>1, <3>2
  <2>d. \A v : Before(d, v)'
    <3>1. Opened(d)
      BY <1>w, <1>o, <1>k, <2>a DEF Before, Opening
    <3>2. QED BY <1>1, <3>1 DEF Before, Opened
  <2>e. QED BY <2>c, <2>d, <2>w DEF Sound
<1>10. ASSUME NEW e \in Ends PROVE Heard(e)' /\ (Sound(e) => Sound(e)')
  <2>1. ReaderStays(Peer(e)) /\ Extends(Peer(e))
    BY <1>7, EndsFacts
  <2>2. Heard(e)'
    BY <1>i, <1>1, <2>1, HeardIfStays
  <2>3. CASE e = d
    BY <1>8, <2>2, <2>3
  <2>4. CASE e # d
    BY <1>t, <1>i, <1>1, <1>2, <2>1, <2>2, <2>4, SenderStays
  <2>5. QED BY <2>3, <2>4
<1>11. ServerStarts'
  <2>1. CASE d = "server"
    BY <1>t, <1>w, <1>1, <2>1 DEF ServerStarts
  <2>2. CASE d # "server"
    BY <1>t, <1>1, <1>2, <2>2, EndsFacts DEF ServerStarts, Fresh
  <2>3. QED BY <2>1, <2>2
<1>12. ClientStarts'
  <2>1. CASE d # "client"
    BY <1>t, <1>1, <1>2, <2>1, EndsFacts DEF ClientStarts, Openings
  <2>2. CASE d = "client"
    <3>1. PICK s : s = Tail(writes[d])
      OBVIOUS
    <3>2. s \in Seq(WriteKind) /\ writes'[d] \in {Append(s, "body"), Append(s, "header"), s}
      BY <1>t, <1>w, <1>o, <1>1, <3>1 DEF TypeOK
    <3>3. \A j, k \in Openings(writes[d]) : j = k
      BY <1>t, <1>w, <2>2 DEF ClientStarts
    <3>4. /\ \A j, k \in Openings(s) : j = k
          /\ Openings(s) # {} => Openings(writes[d]) # {}
      BY <1>w, <1>o, <3>1, <3>3, OpeningsTail
    <3>5. "body" \in WriteKind /\ "header" \in WriteKind
      BY DEF WriteKind
    <3>6. Openings(writes'[d]) = Openings(s)
      BY <3>2, <3>5, OpeningsAppend
    <3>7. QED BY <1>t, <1>1, <2>2, <3>4, <3>6 DEF ClientStarts
  <2>3. QED BY <2>1, <2>2
<1>13. QED BY <1>7, <1>10, <1>11, <1>12 DEF Kept

-----------------------------------------------------------------------------
(***************************************************************************)
(* Steps that receive.                                                     *)
(***************************************************************************)

\* The first unit leaves the stream; the reader expects what follows it.
LEMMA WireTakes ==
  ASSUME NEW p, wire[p] \in Seq(Unit), wire[p] # <<>>, wire'[p] = Tail(wire[p]),
         sent'[p] = sent[p], Wire(p),
         socket'[Peer(p)] # "closed" =>
           \A u : Follows(Head(wire[p]), u) => Expects(Peer(p), u)'
  PROVE  Wire(p)' /\ \A u : Fits(p, u) => Fits(p, u)'
<1>1. PICK s : s = wire[p]
  OBVIOUS
<1>2. PICK t : t = Tail(s)
  OBVIOUS
<1>3. PICK n \in Nat : n = Len(s)
  BY <1>1
<1>4. /\ n >= 1 /\ Head(s) = s[1] /\ t \in Seq(Unit)
      /\ Len(t) = n - 1 /\ \A k \in 1..n - 1 : t[k] = s[k + 1]
  BY <1>1, <1>2, <1>3
<1>5. wire'[p] = t
  BY <1>1, <1>2
<1>6. t = <<>> <=> n = 1
  <2>1. t = <<>> <=> Len(t) = 0
    BY <1>4, EmptySeq
  <2>2. n - 1 = 0 <=> n = 1
    BY <1>3
  <2>3. QED BY <1>4, <2>1, <2>2
<1>7. \A k \in 1..n - 1 :
        t[k].kind \in {"header", "body"} =>
          IsSent(p, t[k].msg)' /\ (t[k].kind = "body" => t[k].msg.body)
  <2> TAKE k \in 1..n - 1
  <2>1. k + 1 \in 1..n
    BY <1>3
  <2>2. s[k + 1].kind \in {"header", "body"} =>
          IsSent(p, s[k + 1].msg) /\ (s[k + 1].kind = "body" => s[k + 1].msg.body)
    BY <1>1, <1>3, <2>1 DEF Wire
  <2>3. \A m : IsSent(p, m) => IsSent(p, m)'
    BY DEF IsSent
  <2>4. QED BY <1>4, <2>2, <2>3
<1>8. \A j, k \in 1..n - 1 : k = j + 1 => Follows(t[j], t[k])
  <2> SUFFICES ASSUME NEW j \in 1..n - 1, NEW k \in 1..n - 1, k = j + 1
               PROVE  Follows(t[j], t[k])
    OBVIOUS
  <2>1. j + 1 \in 1..n /\ k + 1 \in 1..n /\ k + 1 = (j + 1) + 1
    BY <1>3
  <2>2. Follows(s[j + 1], s[k + 1])
    BY <1>1, <1>3, <2>1 DEF Wire
  <2>3. QED BY <1>4, <2>2
<1>9. t # <<>> /\ socket'[Peer(p)] # "closed" => Expects(Peer(p), t[1])'
  <2> SUFFICES ASSUME t # <<>>, socket'[Peer(p)] # "closed"
               PROVE  Expects(Peer(p), t[1])'
    OBVIOUS
  <2>1. 1 \in 1..n - 1 /\ 1 \in 1..n /\ 2 \in 1..n
    BY <1>3, <1>4, <1>6
  <2>2. Follows(s[1], s[2])
    BY <1>1, <1>3, <2>1 DEF Wire
  <2>3. PICK v : v = t[1]
    OBVIOUS
  <2>4. v = s[2]
    BY <1>4, <2>1, <2>3
  <2>5. Expects(Peer(p), v)'
    BY <1>1, <1>4, <2>2, <2>4
  <2>6. QED BY <2>3, <2>5 DEF Expects
<1>10. Wire(p)'
  <2>1. Len(t) = n - 1
    BY <1>4
  <2>2. (\A k \in 1..Len(wire[p]) :
           wire[p][k].kind \in {"header", "body"} =>
             IsSent(p, wire[p][k].msg) /\ (wire[p][k].kind = "body" => wire[p][k].msg.body))'
    BY <1>5, <1>7, <2>1
  <2>3. (\A j, k \in 1..Len(wire[p]) : k = j + 1 => Follows(wire[p][j], wire[p][k]))'
    <3>1. \A j, k \in 1..Len(wire'[p]) :
            k = j + 1 => Follows(wire'[p][j], wire'[p][k])
      BY <1>5, <1>8, <2>1
    <3>2. QED BY <3>1 DEF Follows, Number
  <2>4. (wire[p] # <<>> /\ socket[Peer(p)] # "closed" => Expects(Peer(p), wire[p][1]))'
    BY <1>5, <1>9
  <2>5. QED BY <2>2, <2>3, <2>4 DEF Wire
<1>11. ASSUME NEW u, Fits(p, u) PROVE Fits(p, u)'
  <2>1. Follows(s[n], u)
    BY <1>1, <1>3, <1>4, <1>11 DEF Fits
  <2>2. CASE n = 1
    <3>1. t = <<>> /\ (socket'[Peer(p)] # "closed" => Expects(Peer(p), u)')
      BY <1>1, <1>4, <1>6, <2>1, <2>2
    <3>2. QED BY <1>5, <3>1 DEF Fits
  <2>3. CASE n # 1
    <3>1. t # <<>> /\ n - 1 \in 1..n - 1 /\ (n - 1) + 1 = n
      BY <1>3, <1>4, <1>6, <2>3
    <3>2. t[Len(t)] = s[n]
      BY <1>4, <3>1
    <3>3. QED BY <1>5, <2>1, <3>1, <3>2 DEF Fits, Follows, Number
  <2>4. QED BY <2>2, <2>3
<1>12. QED BY <1>10, <1>11

\* What arrives first on a sound stream is what is expected, and if a message, one that was sent.
LEMMA FirstArrives ==
  ASSUME TypeOK, NEW e \in Ends, Sound(Peer(e)), socket[e] = "open",
         wire[Peer(e)] # <<>>
  PROVE  /\ Expects(e, Head(wire[Peer(e)])) /\ Head(wire[Peer(e)]) \in Unit
         /\ Head(wire[Peer(e)]).kind \in {"header", "body"} =>
              /\ IsSent(Peer(e), Head(wire[Peer(e)]).msg)
              /\ Head(wire[Peer(e)]).kind = "body" => Head(wire[Peer(e)]).msg.body
<1>1. PICK s : s = wire[Peer(e)]
  OBVIOUS
<1>2. s \in Seq(Unit) /\ s # <<>> /\ Wire(Peer(e)) /\ Peer(Peer(e)) = e
  BY <1>1, EndsFacts DEF Sound, TypeOK
<1>3. Head(s) = s[1] /\ 1 \in 1..Len(s) /\ Head(s) \in Unit
  BY <1>2
<1>4. QED BY <1>1, <1>2, <1>3 DEF Wire

\* The stream of an end whose reader took something from it.
LEMMA SoundIfTaken ==
  ASSUME NEW e, Sound(e), Wire(e)', \A u : Fits(e, u) => Fits(e, u)', wire[e] # <<>>,
         out'[e] = out[e], posted'[e] = posted[e], sent'[e] = sent[e],
         socket'[e] = socket[e], writes'[e] = writes[e], reads'[e] = reads[e], ui' = ui
  PROVE  Sound(e)'
<1>1. PICK w \in Nat : Queued(e, w) /\ Writing(e, w) /\ Before(e, w)
  BY DEF Sound
<1>2. Queued(e, w)'
  BY <1>1, QueuedIfStays
<1>3. Writing(e, w)'
  BY <1>1, WritingIfStays DEF Opened
<1>4. socket[e] = "closed" \/ Opened(e)
  BY <1>1 DEF Before
<1>5. Before(e, w)'
  BY <1>4 DEF Before, Opened
<1>6. QED BY <1>1, <1>2, <1>3, <1>5 DEF Sound

\* The client reads the challenge, and answers it first if it has sent nothing
\* before.
LEMMA KeepsSolveChallenge ==
  ASSUME SInv, SolveChallenge
  PROVE  Kept
<1>t. TypeOK /\ ServerStarts /\ ClientStarts /\ Sound("server")
  BY DEF SInv, CInv
<1>p. Peer("client") = "server" /\ Peer("server") = "client" /\ "client" \in Ends
      /\ "server" \in Ends
  BY DEF Peer, Ends
<1>i. \A e \in Ends : Numbered(e) /\ Heard(e) /\ Len(delivered[e]) \in Nat
  BY <1>t DEF SInv, TypeOK
<1>1. /\ wire["server"] \in Seq(Unit) /\ wire["server"] # <<>>
      /\ wire' = [wire EXCEPT !["server"] = Tail(@)]
      /\ reads["client"] = "validation" /\ socket["client"] = "open"
      /\ reads' = [reads EXCEPT !["client"] = "none"]
      /\ writes' = [writes EXCEPT !["client"] =
                      Append(@, IF Head(wire["server"]).kind = "challenge"
                                  THEN "answer" ELSE "wrong")]
      /\ UNCHANGED <<net, posted, out, sent, ui, socket, tmpIn, delivered, validated>>
  BY <1>t, <1>p, ReadEffect DEF SolveChallenge, Arriving
<1>v. PICK v : v = Head(wire["server"])
  OBVIOUS
<1>2. v = [kind |-> "challenge"]
  <2>1. Expects("client", v)
    BY <1>t, <1>1, <1>v, <1>p, FirstArrives
  <2>2. QED BY <1>1, <1>p, <2>1 DEF Expects, Fresh, Opening
<1>3. /\ delivered["client"] = <<>> /\ Openings(writes["client"]) = {}
      /\ writes["client"] \in Seq(WriteKind) /\ "answer" \in WriteKind
  <2>1. delivered["client"] = <<>>
    BY <1>t, <1>1 DEF ClientStarts
  <2>2. Openings(writes["client"]) = {}
    BY <1>t, <1>1 DEF ClientStarts
  <2>3. QED BY <1>t, <1>p, <2>1, <2>2 DEF TypeOK, WriteKind
<1>4. /\ wire'["server"] = Tail(wire["server"]) /\ wire'["client"] = wire["client"]
      /\ reads'["client"] = "none" /\ reads'["server"] = reads["server"]
      /\ writes'["client"] = Append(writes["client"], "answer")
      /\ writes'["server"] = writes["server"]
  BY <1>t, <1>p, <1>1, <1>v, <1>2 DEF TypeOK
<1>5. ASSUME NEW e \in Ends PROVE Numbered(e)' /\ Extends(e)
  BY <1>t, <1>i, <1>1, SentSame
<1>6. Wire("server")' /\ \A u : Fits("server", u) => Fits("server", u)'
  <2>1. ASSUME NEW u, Follows(v, u) PROVE Expects("client", u)'
    <3>1. u.kind = "header" /\ u.msg.n = 0 + 1
      BY <1>2, <2>1 DEF Follows, Number
    <3>2. ~Fresh("client")' /\ reads'["client"] # "body" /\ Len(delivered'["client"]) = 0
      BY <1>1, <1>3, <1>4 DEF Fresh
    <3>3. QED BY <3>1, <3>2 DEF Expects
  <2>2. QED BY <1>t, <1>p, <1>1, <1>v, <1>4, <2>1, WireTakes DEF Sound
<1>7. Sound("server")'
  BY <1>t, <1>p, <1>1, <1>4, <1>6, SoundIfTaken
<1>8. ReaderStays("server")
  BY <1>1, <1>4, ReaderStaysIf DEF Fresh
<1>9. ASSUME Sound("client") PROVE Sound("client")'
  <2>1. PICK w \in Nat :
          Queued("client", w) /\ Writing("client", w) /\ Before("client", w)
    BY <1>9 DEF Sound
  <2>2. /\ w = 0 /\ wire["client"] = <<>> /\ Fits("client", [kind |-> Opening("client")])
        /\ writes["client"] = <<>> /\ out["client"] = <<>>
    BY <1>1, <2>1 DEF Before, Opened
  <2>3. Queued("client", 0)'
    BY <1>1, <2>1, <2>2, QueuedIfStays
  <2>4. writes'["client"] = <<"answer">>
    <3>1. Append(<<>>, "answer") = <<"answer">>
      OBVIOUS
    <3>2. QED BY <1>4, <2>2, <3>1
  <2>5. Fits("client", [kind |-> "answer"])'
    <3>1. Fits("client", [kind |-> "answer"])
      BY <2>2 DEF Opening
    <3>2. QED BY <1>p, <1>4, <1>8, <3>1, FitsIfStays
  <2>6. NextWrite("client")' = [kind |-> "answer"]
    BY <2>4 DEF NextWrite
  <2>7. Fits("client", NextWrite("client"))'
    BY <2>5, <2>6 DEF Fits
  <2>8. out'["client"] = <<>> /\ writes'["client"] # <<>>
    <3>1. \A x : <<x>> # <<>>
      OBVIOUS
    <3>2. QED BY <1>1, <2>2, <2>4, <3>1
  <2>9. Writing("client", 0)'
    BY <2>4, <2>7, <2>8 DEF Writing, Opening
  <2>10. Before("client", 0)'
    <3>1. writes'["client"][1] = "answer" /\ wire'["client"] = <<>>
      BY <1>4, <2>2, <2>4
    <3>2. QED BY <1>1, <1>4, <2>5, <2>8, <3>1 DEF Before, Opening
  <2>11. Wire("client")'
    BY <1>4, <1>5, <1>8, <1>9, <1>p, WireIfStays DEF Sound
  <2>12. QED BY <2>3, <2>9, <2>10, <2>11 DEF Sound
<1>10. Heard("client")' /\ Heard("server")'
  BY <1>i, <1>p, <1>1, <1>4, <1>5, HeardIfStays
<1>11. ServerStarts'
  <2>1. socket["server"] # "none"
    BY <1>t, <1>1 DEF ServerStarts
  <2>2. QED BY <1>t, <1>1, <1>4, <2>1 DEF ServerStarts
<1>12. ClientStarts'
  <2>1. \A j, k \in Openings(writes'["client"]) : j = k
    BY <1>3, <1>4, OpeningsAppend
  <2>2. QED BY <1>1, <1>3, <1>4, <2>1 DEF ClientStarts
<1>13. QED BY <1>5, <1>7, <1>9, <1>10, <1>11, <1>12 DEF Ends, Kept

\* Whatever else a reader past the handshake does, the end it reads from goes
\* on, and so does its own stream.
LEMMA KeepsStreamsReading ==
  ASSUME SInv, NEW e \in Ends, Sound(Peer(e)), socket[e] = "open", wire[Peer(e)] # <<>>,
         wire' = [wire EXCEPT ![Peer(e)] = Tail(@)],
         UNCHANGED <<posted, out, sent, ui, socket, writes>>,
         \A d \in Ends : d # e =>
           reads'[d] = reads[d] /\ tmpIn'[d] = tmpIn[d] /\ delivered'[d] = delivered[d],
         Opened(e) /\ Opened(e)',
         \A u : Follows(Head(wire[Peer(e)]), u) => Expects(e, u)'
  PROVE  \A d \in Ends : Numbered(d)' /\ (Sound(d) => Sound(d)')
<1>t. TypeOK /\ \A d \in Ends : Numbered(d)
  BY DEF SInv, CInv
<1>p. PICK p : p = Peer(e)
  OBVIOUS
<1>1. /\ p \in Ends /\ p # e /\ Peer(p) = e /\ \A d \in Ends : d = e \/ d = p
  BY <1>p DEF Ends, Peer
<1>2. wire[p] \in Seq(Unit) /\ wire'[p] = Tail(wire[p]) /\ wire'[e] = wire[e]
  BY <1>t, <1>p, <1>1 DEF TypeOK
<1>3. Wire(p)' /\ \A u : Fits(p, u) => Fits(p, u)'
  BY <1>p, <1>1, <1>2, WireTakes DEF Sound
<1>4. Sound(p)'
  BY <1>p, <1>1, <1>3, SoundIfTaken
<1>5. ReaderStays(p)
  BY <1>1, ReaderStaysIf DEF Fresh
<1>6. Sound(e) => Sound(e)'
  BY <1>t, <1>p, <1>1, <1>2, <1>5, SenderStays
<1>7. \A d \in Ends : Numbered(d)'
  BY <1>t, SentSame
<1>8. QED BY <1>1, <1>4, <1>6, <1>7

\* A client whose first unit is the answer has spoiled nothing, and what else
\* comes first closes the server's end.
LEMMA KeepsCheckAnswer ==
  ASSUME SInv, CheckAnswer
  PROVE  Kept
<1>t. TypeOK /\ ServerStarts /\ ClientStarts /\ (Sound("client") \/ Spoiled)
  BY DEF SInv, CInv
<1>p. Peer("client") = "server" /\ Peer("server") = "client" /\ "client" \in Ends
      /\ "server" \in Ends
  BY DEF Peer, Ends
<1>i. \A e \in Ends : Numbered(e) /\ Heard(e) /\ Len(delivered[e]) \in Nat
  BY <1>t DEF SInv, TypeOK
<1>v. PICK v : v = Head(wire["client"])
  OBVIOUS
<1>1. /\ wire["client"] # <<>> /\ wire' = [wire EXCEPT !["client"] = Tail(@)]
      /\ v = wire["client"][1]
      /\ reads["server"] = "validation" /\ socket["server"] = "open"
      /\ UNCHANGED <<net, posted, out, sent, ui, writes, tmpIn, delivered>>
  BY <1>t, <1>p, <1>v, ReadEffect DEF CheckAnswer
<1>2. Sound("client") => v = [kind |-> "answer"]
  <2>1. Sound("client") => Expects("server", v)
    BY <1>t, <1>1, <1>v, <1>p, FirstArrives
  <2>2. QED BY <1>1, <1>p, <2>1 DEF Expects, Fresh, Opening
<1>3. delivered["server"] = <<>>
  BY <1>t, <1>1 DEF ServerStarts
<1>4. ASSUME NEW e \in Ends PROVE Extends(e) /\ Numbered(e)'
  BY <1>t, <1>i, <1>1, SentSame
<1>5. CASE v.kind = "answer"
  <2>1. Sound("client") /\ v = [kind |-> "answer"]
    BY <1>t, <1>1, <1>2, <1>5 DEF Spoiled
  <2>2. UNCHANGED socket /\ reads' = [reads EXCEPT !["server"] = "header"]
    BY <1>p, <1>v, <1>5 DEF CheckAnswer, Arriving
  <2>3. reads'["server"] = "header" /\ reads'["client"] = reads["client"]
    BY <1>t, <1>p, <2>2 DEF TypeOK
  <2>4. ASSUME NEW u, Follows(v, u) PROVE Expects("server", u)'
    <3>1. u.kind = "header" /\ u.msg.n = 0 + 1
      BY <2>1, <2>4 DEF Follows, Number
    <3>2. ~Fresh("server")' /\ reads'["server"] # "body" /\ Len(delivered'["server"]) = 0
      BY <1>1, <1>3, <2>2, <2>3 DEF Fresh
    <3>3. QED BY <3>1, <3>2 DEF Expects
  <2>5. \A e \in Ends : Numbered(e)' /\ (Sound(e) => Sound(e)')
    <3>1. \A d \in Ends : d # "server" =>
            reads'[d] = reads[d] /\ tmpIn'[d] = tmpIn[d] /\ delivered'[d] = delivered[d]
      BY <1>1, <2>3 DEF Ends
    <3>2. Opened("server") /\ Opened("server")'
      BY DEF Opened
    <3>3. QED BY <1>p, <1>1, <1>v, <2>1, <2>2, <2>4, <3>1, <3>2, KeepsStreamsReading
  <2>6. ASSUME NEW e \in Ends PROVE Heard(e)'
    <3>1. reads'[e] = "body" => reads[e] = "body"
      BY <2>3 DEF Ends
    <3>2. QED BY <1>i, <1>1, <1>4, <3>1, HeardIfStays, EndsFacts
  <2>7. ServerStarts'
    BY <1>1, <2>2, <2>3 DEF ServerStarts
  <2>8. ClientStarts'
    BY <1>t, <1>1, <2>2, <2>3 DEF ClientStarts, Openings
  <2>9. QED BY <2>5, <2>6, <2>7, <2>8 DEF Kept
<1>6. CASE v.kind # "answer"
  <2>1. ~Sound("client")
    BY <1>2, <1>6
  <2>2. /\ socket' = [socket EXCEPT !["server"] = "closed"]
        /\ reads' = [reads EXCEPT !["server"] = "none"]
    BY <1>p, <1>v, <1>6 DEF CheckAnswer, Arriving
  <2>3. /\ socket'["server"] = "closed" /\ socket'["client"] = socket["client"]
        /\ reads'["server"] = "none" /\ reads'["client"] = reads["client"]
        /\ wire'["server"] = wire["server"]
    BY <1>t, <1>p, <1>1, <2>2 DEF TypeOK
  <2>4. ReaderStays("client")
    BY <1>1, <2>3, ReaderStaysIf DEF Fresh
  <2>5. Sound("server") => Sound("server")'
    BY <1>t, <1>i, <1>p, <1>1, <2>3, <2>4, SenderStays
  <2>6. ASSUME NEW e \in Ends PROVE Heard(e)'
    <3>1. reads'[e] = "body" => reads[e] = "body"
      BY <2>3 DEF Ends
    <3>2. QED BY <1>i, <1>1, <1>4, <3>1, HeardIfStays, EndsFacts
  <2>7. ServerStarts'
    BY <2>3 DEF ServerStarts
  <2>8. ClientStarts'
    BY <1>t, <1>1, <2>3 DEF ClientStarts, Openings
  <2>9. QED BY <1>4, <2>1, <2>5, <2>6, <2>7, <2>8 DEF Ends, Kept
<1>7. QED BY <1>5, <1>6

\* A delivered message is the next that was sent, with its body if it has one.
LEMMA HeardDelivers ==
  ASSUME TypeOK, NEW e \in Ends, NEW in, Heard(e), Deliver(e, in),
         IsSent(Peer(e), in.msg), in.msg.n = Len(delivered[e]) + 1,
         in.msg.body => in.bodyOf = in.msg.n, sent' = sent
  PROVE  Heard(e)' /\ Len(delivered'[e]) = Len(delivered[e]) + 1
<1>1. PICK s : s = delivered[e]
  OBVIOUS
<1>2. PICK n \in Nat : n = Len(s)
  BY <1>1 DEF TypeOK
<1>3. PICK t : t = Append(s, in)
  OBVIOUS
<1>4. /\ delivered'[e] = t /\ reads'[e] = "header"
      /\ Len(t) = n + 1 /\ t[n + 1] = in /\ \A k \in 1..n : t[k] = s[k]
  BY <1>1, <1>2, <1>3 DEF Deliver, TypeOK
<1>5. n + 1 <= Len(sent[Peer(e)]) /\ sent[Peer(e)][n + 1] = in.msg
  BY <1>1, <1>2 DEF IsSent
<1>6. \A k \in 1..n + 1 :
        t[k].msg = sent[Peer(e)][k] /\ (t[k].msg.body => t[k].bodyOf = k)
  <2> TAKE k \in 1..n + 1
  <2>1. CASE k = n + 1
    BY <1>1, <1>2, <1>4, <1>5, <2>1
  <2>2. CASE k # n + 1
    <3>1. k \in 1..n
      BY <1>2, <2>2
    <3>2. s[k].msg = sent[Peer(e)][k] /\ (s[k].msg.body => s[k].bodyOf = k)
      BY <1>1, <1>2, <3>1 DEF Heard
    <3>3. QED BY <1>4, <3>1, <3>2
  <2>3. QED BY <2>1, <2>2
<1>7. QED BY <1>1, <1>2, <1>4, <1>5, <1>6 DEF Heard

\* A header is read: its message is delivered, or its body read next.
LEMMA KeepsReadHeader ==
  ASSUME SInv, NEW e \in Ends, ReadHeader(e)
  PROVE  Kept
<1>t. TypeOK /\ ServerStarts /\ ClientStarts
  BY DEF SInv, CInv
<1>i. \A d \in Ends : Heard(d) /\ Len(delivered[d]) \in Nat
  BY <1>t DEF SInv, TypeOK
<1>v. PICK v : v = Head(wire[Peer(e)])
  OBVIOUS
<1>m. PICK m : m = v.msg
  OBVIOUS
<1>n. PICK in : in = [tmpIn[e] EXCEPT !.msg = m]
  OBVIOUS
<1>1. /\ wire[Peer(e)] # <<>> /\ wire' = [wire EXCEPT ![Peer(e)] = Tail(@)]
      /\ reads[e] = "header" /\ socket[e] = "open"
      /\ UNCHANGED <<net, posted, out, sent, ui, socket, writes, validated>>
      /\ v.kind = "header"
      /\ IF m.body THEN /\ tmpIn' = [tmpIn EXCEPT ![e] = in]
                        /\ reads' = [reads EXCEPT ![e] = "body"]
                        /\ UNCHANGED delivered
                   ELSE Deliver(e, in)
  BY <1>t, <1>v, <1>m, <1>n, ReadEffect DEF ReadHeader, Arriving
<1>s. Sound(Peer(e))
  <2>1. e = "server" => ~Fresh(e)
    BY <1>1 DEF Fresh
  <2>2. e = "server" => Sound("client")
    BY <1>1, <2>1 DEF SInv, Spoiled
  <2>3. QED BY <2>2 DEF SInv, Ends, Peer
<1>2. m.n = Len(delivered[e]) + 1 /\ IsSent(Peer(e), m) /\ in.msg = m /\ v \in Unit
  <2>1. Expects(e, v) /\ IsSent(Peer(e), m) /\ v \in Unit
    BY <1>t, <1>s, <1>1, <1>v, <1>m, FirstArrives
  <2>2. m.n = Len(delivered[e]) + 1
    BY <1>1, <1>m, <2>1 DEF Expects, Fresh
  <2>3. in.msg = m
    BY <1>t, <1>n DEF TypeOK
  <2>4. QED BY <2>1, <2>2, <2>3
<1>3. /\ \A d \in Ends : d # e =>
           reads'[d] = reads[d] /\ tmpIn'[d] = tmpIn[d] /\ delivered'[d] = delivered[d]
      /\ reads'[e] = IF m.body THEN "body" ELSE "header"
  BY <1>t, <1>1 DEF Deliver, TypeOK
<1>4. Heard(e)' /\ \A u : Follows(v, u) => Expects(e, u)'
  <2>1. CASE m.body
    <3>1. tmpIn'[e] = in /\ delivered'[e] = delivered[e] /\ reads'[e] = "body"
      BY <1>t, <1>1, <2>1 DEF TypeOK
    <3>2. Heard(e)'
      BY <1>i, <1>1, <1>2, <3>1 DEF Heard
    <3>3. ASSUME NEW u, Follows(v, u) PROVE Expects(e, u)'
      <4>1. u = [kind |-> "body", msg |-> m]
        BY <1>1, <1>m, <2>1, <3>3 DEF Follows
      <4>2. ~Fresh(e)'
        BY <1>1, <3>1 DEF Fresh
      <4>3. QED BY <1>2, <3>1, <4>1, <4>2 DEF Expects
    <3>4. QED BY <3>2, <3>3
  <2>2. CASE ~m.body
    <3>1. Heard(e)' /\ Len(delivered'[e]) = Len(delivered[e]) + 1
      BY <1>t, <1>i, <1>1, <1>2, <2>2, HeardDelivers
    <3>2. ASSUME NEW u, Follows(v, u) PROVE Expects(e, u)'
      <4>1. u.kind = "header" /\ u.msg.n = m.n + 1
        BY <1>1, <1>m, <2>2, <3>2 DEF Follows, Number
      <4>2. ~Fresh(e)' /\ reads'[e] # "body"
        BY <1>1, <1>3, <2>2 DEF Fresh
      <4>3. u.msg.n = Len(delivered'[e]) + 1
        BY <1>2, <3>1, <4>1
      <4>4. QED BY <4>1, <4>2, <4>3 DEF Expects
    <3>3. QED BY <3>1, <3>2
  <2>3. QED BY <2>1, <2>2
<1>5. \A d \in Ends : Numbered(d)' /\ (Sound(d) => Sound(d)')
  <2>1. Opened(e) /\ Opened(e)'
    BY <1>1, <1>3 DEF Opened
  <2>2. QED BY <1>s, <1>v, <1>1, <1>3, <1>4, <2>1, KeepsStreamsReading
<1>6. ASSUME NEW d \in Ends, d # e PROVE Heard(d)'
  <2>1. Extends(Peer(d))
    BY <1>t, <1>1, SentSame, EndsFacts
  <2>2. QED BY <1>i, <1>3, <1>6, <2>1, HeardIfStays
<1>7. ServerStarts' /\ ClientStarts'
  <2>1. reads'[e] \in {"header", "body"}
    BY <1>3
  <2>2. ServerStarts'
    <3>1. CASE e = "client"
      <4>1. socket["server"] # "none"
        BY <1>t, <1>1, <3>1 DEF ServerStarts, Peer
      <4>2. reads'["server"] = reads["server"] /\ delivered'["server"] = delivered["server"]
        BY <1>3, <3>1, EndsFacts
      <4>3. QED BY <1>t, <1>1, <4>1, <4>2 DEF ServerStarts
    <3>2. CASE e = "server"
      BY <1>1, <2>1, <3>2 DEF ServerStarts
    <3>3. QED BY <3>1, <3>2 DEF Ends
  <2>3. ClientStarts'
    <3>1. CASE e = "client"
      BY <1>t, <1>1, <2>1, <3>1 DEF ClientStarts, Openings
    <3>2. CASE e = "server"
      <4>1. reads'["client"] = reads["client"] /\ delivered'["client"] = delivered["client"]
        BY <1>3, <3>2, EndsFacts
      <4>2. QED BY <1>t, <1>1, <4>1 DEF ClientStarts, Openings
    <3>3. QED BY <3>1, <3>2 DEF Ends
  <2>4. QED BY <2>2, <2>3
<1>8. QED BY <1>4, <1>5, <1>6, <1>7 DEF Kept

\* A body is read: it is the one of the message whose header was read before.
LEMMA KeepsReadBody ==
  ASSUME SInv, NEW e \in Ends, ReadBody(e)
  PROVE  Kept
<1>t. TypeOK /\ ServerStarts /\ ClientStarts
  BY DEF SInv, CInv
<1>i. \A d \in Ends : Heard(d) /\ Len(delivered[d]) \in Nat
  BY <1>t DEF SInv, TypeOK
<1>v. PICK v : v = Head(wire[Peer(e)])
  OBVIOUS
<1>m. PICK m : m = v.msg
  OBVIOUS
<1>n. PICK in : in = [tmpIn[e] EXCEPT !.bodyOf = m.n]
  OBVIOUS
<1>1. /\ wire[Peer(e)] # <<>> /\ wire' = [wire EXCEPT ![Peer(e)] = Tail(@)]
      /\ reads[e] = "body" /\ socket[e] = "open"
      /\ UNCHANGED <<net, posted, out, sent, ui, socket, writes, validated>>
      /\ v.kind = "body" /\ Deliver(e, in)
  BY <1>t, <1>v, <1>m, <1>n, ReadEffect DEF ReadBody, Arriving
<1>s. Sound(Peer(e))
  <2>1. e = "server" => ~Fresh(e)
    BY <1>1 DEF Fresh
  <2>2. e = "server" => Sound("client")
    BY <1>1, <2>1 DEF SInv, Spoiled
  <2>3. QED BY <2>2 DEF SInv, Ends, Peer
<1>2. /\ m.n = Len(delivered[e]) + 1 /\ IsSent(Peer(e), m) /\ in.msg = m
      /\ in.bodyOf = m.n /\ m = tmpIn[e].msg
  <2>1. Expects(e, v) /\ IsSent(Peer(e), m)
    BY <1>t, <1>s, <1>1, <1>v, <1>m, FirstArrives
  <2>2. v = [kind |-> "body", msg |-> tmpIn[e].msg]
    BY <1>1, <2>1 DEF Expects, Fresh
  <2>3. m = tmpIn[e].msg
    BY <1>m, <2>2
  <2>4. m.n = Len(delivered[e]) + 1
    BY <1>i, <1>1, <2>3 DEF Heard
  <2>5. in.msg = m /\ in.bodyOf = m.n
    BY <1>t, <1>n, <2>3 DEF TypeOK
  <2>6. QED BY <2>1, <2>3, <2>4, <2>5
<1>3. /\ \A d \in Ends : d # e =>
           reads'[d] = reads[d] /\ tmpIn'[d] = tmpIn[d] /\ delivered'[d] = delivered[d]
      /\ reads'[e] = "header"
  BY <1>t, <1>1 DEF Deliver, TypeOK
<1>4. Heard(e)' /\ Len(delivered'[e]) = Len(delivered[e]) + 1
  BY <1>t, <1>i, <1>1, <1>2, HeardDelivers
<1>5. ASSUME NEW u, Follows(v, u) PROVE Expects(e, u)'
  <2>1. u.kind = "header" /\ u.msg.n = m.n + 1
    BY <1>1, <1>m, <1>5 DEF Follows, Number
  <2>2. ~Fresh(e)' /\ reads'[e] # "body"
    BY <1>1, <1>3 DEF Fresh
  <2>3. u.msg.n = Len(delivered'[e]) + 1
    BY <1>2, <1>4, <2>1
  <2>4. QED BY <2>1, <2>2, <2>3 DEF Expects
<1>6. \A d \in Ends : Numbered(d)' /\ (Sound(d) => Sound(d)')
  <2>1. Opened(e) /\ Opened(e)'
    BY <1>1, <1>3 DEF Opened
  <2>2. QED BY <1>s, <1>v, <1>1, <1>3, <1>5, <2>1, KeepsStreamsReading
<1>7. ASSUME NEW d \in Ends, d # e PROVE Heard(d)'
  <2>1. Extends(Peer(d))
    BY <1>t, <1>1, SentSame, EndsFacts
  <2>2. QED BY <1>i, <1>3, <1>7, <2>1, HeardIfStays
<1>8. ServerStarts' /\ ClientStarts'
  <2>1. reads'[e] \in {"header", "body"}
    BY <1>3
  <2>2. ServerStarts'
    <3>1. CASE e = "client"
      <4>1. socket["server"] # "none"
        BY <1>t, <1>1, <3>1 DEF ServerStarts, Peer
      <4>2. reads'["server"] = reads["server"] /\ delivered'["server"] = delivered["server"]
        BY <1>3, <3>1, EndsFacts
      <4>3. QED BY <1>t, <1>1, <4>1, <4>2 DEF ServerStarts
    <3>2. CASE e = "server"
      BY <1>1, <2>1, <3>2 DEF ServerStarts
    <3>3. QED BY <3>1, <3>2 DEF Ends
  <2>3. ClientStarts'
    <3>1. CASE e = "client"
      BY <1>t, <1>1, <2>1, <3>1 DEF ClientStarts, Openings
    <3>2. CASE e = "server"
      <4>1. reads'["client"] = reads["client"] /\ delivered'["client"] = delivered["client"]
        BY <1>3, <3>2, EndsFacts
      <4>2. QED BY <1>t, <1>1, <4>1 DEF ClientStarts, Openings
    <3>3. QED BY <3>1, <3>2 DEF Ends
  <2>4. QED BY <2>2, <2>3
<1>9. QED BY <1>4, <1>6, <1>7, <1>8 DEF Kept

-----------------------------------------------------------------------------
(***************************************************************************)
(* What holds of every client, and of one that waits.                      *)
(***************************************************************************)

LEMMA StepKeeps == SInv /\ [Next]_connVars => Kept
<1> SUFFICES ASSUME SInv, [Next]_connVars PROVE Kept
  OBVIOUS
<1>1. CASE \/ Connect \/ Reconnect \/ NetworkAnswers \/ NetworkBreaks
           \/ EndDisconnect \/ ProcessExit
  BY <1>1, KeepsQuiet, EndsFacts DEF Quiet
<1>2. CASE Connected \/ Accept \/ SolveChallenge \/ CheckAnswer \/ BeginDisconnect
  BY <1>2, KeepsConnected, KeepsAccept, KeepsSolveChallenge, KeepsCheckAnswer,
     KeepsBeginDisconnect
<1>3. ASSUME NEW e \in Ends, AsioStep(e) PROVE Kept
  <2>1. CASE WriteFailed(e) \/ ReadFailed(e)
    BY <2>1, KeepsQuiet DEF Quiet
  <2>2. CASE WriteDone(e)
    BY <2>2, KeepsWriteOpening, KeepsWriteMessage
  <2>3. CASE RunPosted(e) \/ ReadHeader(e) \/ ReadBody(e)
    BY <2>3, KeepsRunPosted, KeepsReadHeader, KeepsReadBody
  <2>4. QED BY <1>3, <2>1, <2>2, <2>3 DEF AsioStep
<1>4. ASSUME NEW e \in Ends, NEW body \in BOOLEAN, Send(e, body) PROVE Kept
  BY <1>4, KeepsSend
<1>5. CASE UNCHANGED connVars
  <2>1. TypeOK /\ ServerStarts /\ ClientStarts
    BY DEF SInv, CInv
  <2>2. ServerStarts' /\ ClientStarts'
    BY <1>5, <2>1 DEF connVars, ServerStarts, ClientStarts, Fresh, Openings
  <2>3. ASSUME NEW e \in Ends PROVE ReaderStays(e) /\ Extends(e)
    BY <1>5, <2>1, ReaderStaysIf, SentSame DEF connVars, Fresh
  <2>4. ASSUME NEW e \in Ends PROVE Numbered(e)' /\ Heard(e)' /\ (Sound(e) => Sound(e)')
    <3>1. Numbered(e) /\ Heard(e) /\ Len(delivered[e]) \in Nat
      BY <2>1 DEF SInv, TypeOK
    <3>2. Heard(e)'
      BY <1>5, <2>3, <3>1, HeardIfStays, EndsFacts DEF connVars
    <3>3. ReaderStays(Peer(e))
      BY <2>3, EndsFacts
    <3>4. Numbered(e)'
      BY <1>5, <2>1, <3>1, SentSame DEF connVars
    <3>5. Sound(e) => Sound(e)'
      BY <1>5, <2>1, <3>1, <3>3, SenderStays DEF connVars
    <3>6. QED BY <3>2, <3>4, <3>5
  <2>5. QED BY <2>2, <2>4 DEF Kept
<1>6. QED BY <1>1, <1>2, <1>3, <1>4, <1>5 DEF Next

\* A message that has overtaken the answer is what the server reads first.
LEMMA SpoiledStays == SInv /\ Spoiled /\ [Next]_connVars => Spoiled'
<1> SUFFICES ASSUME SInv, Spoiled, [Next]_connVars, socket'["server"] # "closed"
             PROVE  Spoiled'
  BY DEF Spoiled
<1>t. TypeOK
  BY DEF SInv, CInv
<1>e. "client" \in Ends /\ "server" \in Ends /\ Peer("client") = "server"
      /\ Peer("server") = "client"
  BY DEF Ends, Peer
<1>w. wire["client"] \in Seq(Unit) /\ writes["client"] \in Seq(WriteKind)
  BY <1>t, <1>e DEF TypeOK
<1>0. ASSUME socket["server"] # "closed", Fresh("server")', wire'["client"] = wire["client"],
             \/ socket'["client"] = "closed"
             \/ /\ socket["client"] # "closed"
                /\ \/ writes'["client"] = writes["client"]
                   \/ \E x \in WriteKind : writes'["client"] = Append(writes["client"], x)
      PROVE  Spoiled'
  <2>1. ASSUME writes["client"] # <<>>, writes["client"][1] \in {"header", "body"},
               socket'["client"] # "closed"
        PROVE  writes'["client"] # <<>> /\ writes'["client"][1] \in {"header", "body"}
    BY <1>0, <1>w, <2>1, FirstOfAppend
  <2>2. QED BY <1>0, <2>1 DEF Spoiled
<1>1. ASSUME NEW f \in Ends, Quiet(f) PROVE Spoiled'
  <2>1. /\ socket["server"] # "closed" /\ wire' = wire
        /\ socket'["server"] = socket["server"] /\ reads'["server"] = reads["server"]
        /\ \/ socket'["client"] = "closed"
           \/ socket["client"] # "closed" /\ writes'["client"] = writes["client"]
    BY <1>t, <1>e, <1>1, QuietEffect
  <2>2. Fresh("server")'
    BY <2>1 DEF Spoiled, Fresh
  <2>3. QED BY <1>0, <2>1, <2>2
<1>2. CASE \/ Connected \/ BeginDisconnect \/ UNCHANGED connVars
           \/ \E e \in Ends, body \in BOOLEAN : Send(e, body)
  <2>1. /\ socket'["server"] = socket["server"] /\ reads'["server"] = reads["server"]
        /\ wire' = wire /\ writes' = writes
        /\ socket["client"] = "closed" => socket'["client"] = "closed"
    BY <1>t, <1>e, <1>2 DEF Connected, BeginDisconnect, connVars, Send, TypeOK
  <2>2. Fresh("server")'
    BY <2>1 DEF Spoiled, Fresh
  <2>3. QED BY <1>0, <2>1, <2>2
<1>3. CASE Accept
  <2>1. /\ socket["server"] = "none" /\ reads'["server"] = "validation" /\ wire' = wire
        /\ writes'["client"] = writes["client"] /\ socket'["client"] = socket["client"]
    BY <1>t, <1>e, <1>3 DEF Accept, Accepted, TypeOK
  <2>2. QED BY <1>0, <2>1 DEF Fresh
<1>4. ASSUME NEW e \in Ends, RunPosted(e) PROVE Spoiled'
  <2>1. /\ socket["server"] # "closed" /\ wire' = wire /\ reads' = reads
        /\ socket'["server"] = socket["server"]
    BY <1>t, <1>e, <1>4 DEF RunPosted, TypeOK
  <2>2. \/ socket'["client"] = "closed"
        \/ /\ socket'["client"] = socket["client"]
           /\ \/ writes'["client"] = writes["client"]
              \/ writes'["client"] = Append(writes["client"], "header")
    BY <1>t, <1>e, <1>4 DEF RunPosted, StartWriting, TypeOK
  <2>3. "header" \in WriteKind /\ Fresh("server")'
    BY <2>1 DEF WriteKind, Spoiled, Fresh
  <2>4. QED BY <1>0, <2>1, <2>2, <2>3
<1>5. ASSUME NEW e \in Ends, WriteDone(e) PROVE Spoiled'
  <2>1. /\ socket' = socket /\ reads'["server"] = reads["server"] /\ Fresh("server")'
    <3>1. socket' = socket /\ reads'["server"] = reads["server"]
      BY <1>t, <1>e, <1>5 DEF WriteDone, TypeOK
    <3>2. QED BY <3>1 DEF Spoiled, Fresh
  <2>2. CASE e = "server"
    <3>1. wire'["client"] = wire["client"] /\ writes'["client"] = writes["client"]
      BY <1>t, <1>e, <1>5, <2>2 DEF WriteDone, NextMessage, TypeOK
    <3>2. QED BY <1>0, <2>1, <3>1
  <2>3. CASE e = "client"
    <3>a. PICK w : w = Head(writes["client"])
      OBVIOUS
    <3>b. PICK u : u = IF w \in {"header", "body"}
                         THEN [kind |-> w, msg |-> Head(out["client"])]
                         ELSE [kind |-> w]
      OBVIOUS
    <3>c. u.kind = w
      BY <3>b
    <3>g. w \in {"challenge", "answer", "wrong"} \/ w \in {"header", "body"}
      BY <1>5, <2>3, <3>a DEF WriteDone
    <3>1. /\ wire'["client"] = Append(wire["client"], u)
          /\ u.kind = Head(writes["client"])
      <4>1. CASE w \in {"challenge", "answer", "wrong"}
        <5>1. wire' = [wire EXCEPT !["client"] = Append(@, u)]
          BY <1>5, <2>3, <3>a, <3>b, <4>1 DEF WriteDone
        <5>2. QED BY <1>t, <1>e, <3>a, <3>c, <5>1 DEF TypeOK
      <4>2. CASE w \in {"header", "body"}
        <5>1. wire' = [wire EXCEPT !["client"] = Append(@, u)]
          BY <1>5, <2>3, <3>a, <3>b, <4>2 DEF WriteDone
        <5>2. QED BY <1>t, <1>e, <3>a, <3>c, <5>1 DEF TypeOK
      <4>3. QED BY <3>g, <4>1, <4>2
    <3>2. writes["client"] # <<>> /\ socket["client"] = "open"
      BY <1>5, <2>3 DEF WriteDone
    <3>3. /\ Append(wire["client"], u) # <<>>
          /\ wire["client"] # <<>> => Append(wire["client"], u)[1] = wire["client"][1]
          /\ wire["client"] = <<>> => Append(wire["client"], u)[1] = u
      <4>1. wire["client"] \in Seq(Unit \cup {u}) /\ u \in Unit \cup {u}
        BY <1>w
      <4>2. QED BY <4>1, FirstOfAppend
    <3>4. Head(writes["client"]) = writes["client"][1]
      BY <1>w, <3>2
    <3>5. QED BY <2>1, <3>1, <3>2, <3>3, <3>4 DEF Spoiled
  <2>4. QED BY <2>2, <2>3 DEF Ends
<1>6. CASE SolveChallenge
  <2>1. /\ socket' = socket /\ reads'["server"] = reads["server"]
        /\ wire'["client"] = wire["client"]
        /\ \/ writes'["client"] = Append(writes["client"], "answer")
           \/ writes'["client"] = Append(writes["client"], "wrong")
    BY <1>t, <1>e, <1>6 DEF SolveChallenge, ReadDone, TypeOK
  <2>2. "answer" \in WriteKind /\ "wrong" \in WriteKind /\ Fresh("server")'
    BY <2>1 DEF WriteKind, Spoiled, Fresh
  <2>3. QED BY <1>0, <2>1, <2>2
<1>7. CASE CheckAnswer
  <2>1. socket["server"] = "open" /\ wire["client"] # <<>>
        /\ Head(wire["client"]) = wire["client"][1]
    BY <1>e, <1>w, <1>7 DEF CheckAnswer, ReadDone, Arriving
  <2>2. Head(wire["client"]).kind # "answer"
    BY <2>1 DEF Spoiled
  <2>3. socket'["server"] = "closed"
    BY <1>t, <1>e, <1>7, <2>2 DEF CheckAnswer, Arriving, TypeOK
  <2>4. QED BY <2>3
<1>8. ASSUME NEW e \in Ends, ReadHeader(e) \/ ReadBody(e) PROVE Spoiled'
  <2>1. /\ socket[e] = "open" /\ reads[e] \in {"header", "body"}
        /\ UNCHANGED <<socket, writes>>
        /\ wire' = [wire EXCEPT ![Peer(e)] = Tail(@)]
        /\ reads' = [reads EXCEPT ![e] = reads'[e]]
    BY <1>t, <1>8 DEF ReadHeader, ReadBody, ReadDone, Deliver, TypeOK
  <2>2. e = "client"
    BY <2>1 DEF Spoiled, Fresh, Ends
  <2>3. wire'["client"] = wire["client"] /\ reads'["server"] = reads["server"]
    BY <1>t, <1>e, <2>1, <2>2 DEF TypeOK
  <2>4. Fresh("server")'
    BY <2>1, <2>3 DEF Spoiled, Fresh
  <2>5. QED BY <1>0, <2>1, <2>3, <2>4
<1>9. QED BY <1>e, <1>1, <1>2, <1>3, <1>4, <1>5, <1>6, <1>7, <1>8 DEF Next, AsioStep, Quiet

LEMMA NextSInv == SInv /\ [Next]_connVars => SInv'
<1> SUFFICES ASSUME SInv, [Next]_connVars PROVE SInv'
  OBVIOUS
<1>1. CInv'
  BY NextCInv DEF SInv
<1>2. Kept
  BY StepKeeps
<1>3. Sound("server")'
  BY <1>2, EndsFacts DEF SInv, Kept, SentTooSoon
<1>4. Sound("client")' \/ Spoiled'
  BY <1>2, SpoiledStays, EndsFacts DEF SInv, Kept, SentTooSoon
<1>5. QED BY <1>1, <1>2, <1>3, <1>4 DEF SInv, Kept

LEMMA SInvHolds == Spec => []SInv
<1>1. Init => SInv
  BY InitStream DEF Waits
<1>2. QED BY <1>1, NextSInv, PTL DEF Spec

\* A client that waits sends when it has a message of the server, so that
\* nothing of it overtakes its answer.
LEMMA NextWaits == ~EarlySend /\ Waits /\ [Next]_connVars => Waits'
<1> SUFFICES ASSUME ~EarlySend, Waits, [Next]_connVars PROVE Waits'
  OBVIOUS
<1>t. TypeOK /\ SInv /\ Sound("client") /\ "client" \in Ends
  BY EndsFacts DEF Waits, SInv, CInv
<1>1. SInv'
  BY <1>t, NextSInv
<1>2. Sound("client")'
  BY <1>t, StepKeeps DEF Waits, Kept, SentTooSoon
<1>3. \/ sent'["client"] = sent["client"] /\ delivered'["client"] = delivered["client"]
      \/ delivered'["client"] # <<>>
  <2>1. ASSUME NEW e \in Ends, NEW body \in BOOLEAN, Send(e, body)
        PROVE  \/ sent'["client"] = sent["client"] /\ delivered'["client"] = delivered["client"]
               \/ delivered'["client"] # <<>>
    BY <1>t, <2>1 DEF Send, MaySend, TypeOK
  <2>2. CASE Accept
    BY <1>t, <2>2 DEF Accept, Accepted, TypeOK
  <2>3. ASSUME NEW e \in Ends, ReadHeader(e) \/ ReadBody(e)
        PROVE  \/ sent'["client"] = sent["client"] /\ delivered'["client"] = delivered["client"]
               \/ delivered'["client"] # <<>>
    <3>1. sent' = sent /\ (delivered' = delivered \/ \E in : Deliver(e, in))
      BY <2>3 DEF ReadHeader, ReadBody, ReadDone
    <3>2. ASSUME NEW in, Deliver(e, in), e = "client" PROVE delivered'["client"] # <<>>
      <4>1. PICK s : s = delivered["client"]
        OBVIOUS
      <4>2. PICK t : t = Append(s, in)
        OBVIOUS
      <4>3. Len(t) = Len(s) + 1 /\ Len(s) \in Nat
        BY <1>t, <4>1, <4>2 DEF TypeOK
      <4>4. t # <<>>
        BY <4>3
      <4>5. QED BY <1>t, <3>2, <4>1, <4>2, <4>4 DEF Deliver, TypeOK
    <3>3. ASSUME NEW in, Deliver(e, in), e # "client"
          PROVE  delivered'["client"] = delivered["client"]
      BY <1>t, <3>3 DEF Deliver, TypeOK
    <3>4. QED BY <3>1, <3>2, <3>3
  <2>4. CASE \/ Connect \/ Reconnect \/ NetworkAnswers \/ NetworkBreaks \/ Connected
             \/ BeginDisconnect \/ EndDisconnect \/ ProcessExit
             \/ SolveChallenge \/ CheckAnswer \/ UNCHANGED connVars
    BY <2>4 DEF Connect, Reconnect, NetworkAnswers, NetworkBreaks, Connected, BeginDisconnect,
                EndDisconnect, ProcessExit, SolveChallenge, CheckAnswer, ReadDone, connVars
  <2>5. ASSUME NEW e \in Ends,
               RunPosted(e) \/ WriteDone(e) \/ WriteFailed(e) \/ ReadFailed(e)
        PROVE  UNCHANGED <<sent, delivered>>
    BY <2>5 DEF RunPosted, WriteDone, WriteFailed, ReadFailed
  <2>6. QED BY <2>1, <2>2, <2>3, <2>4, <2>5 DEF Next, AsioStep
<1>4. QED BY <1>1, <1>2, <1>3 DEF Waits

-----------------------------------------------------------------------------
(***************************************************************************)
(* The theorems.                                                           *)
(***************************************************************************)

\* With a client that waits for the server's first message before it sends
\* (Startup::tryLoginRemembered), both ends agree on where they are in the
\* stream, however messages with and without bodies are sent, the network
\* breaks and either end closes (ReadHeader, ReadBody and ReadValidation,
\* clever_Connection.h).
THEOREM InSync == ~EarlySend => (Spec => []FramingInSync)
<1>1. Waits => FramingInSync
  <2> SUFFICES ASSUME Waits, NEW e \in Ends, socket[e] = "open", Arriving(e) # <<>>
               PROVE  LET first == Head(Arriving(e))
                      IN  CASE reads[e] = "validation" ->
                                 first.kind = IF e = "client" THEN "challenge" ELSE "answer"
                            [] reads[e] = "header" -> first.kind = "header"
                            [] reads[e] = "body"   -> first.kind = "body" /\ first.msg = tmpIn[e].msg
                            [] reads[e] = "none"   -> TRUE
    BY DEF FramingInSync
  <2>1. Expects(e, Head(Arriving(e))) /\ reads[e] \in ReadKind
    <3>1. TypeOK /\ Sound(Peer(e))
      BY DEF Waits, SInv, CInv, Ends, Peer
    <3>2. QED BY <3>1, FirstArrives DEF Arriving, TypeOK
  <2>2. CASE reads[e] = "validation"
    <3>1. Head(Arriving(e)) = [kind |-> Opening(Peer(e))]
      BY <2>1, <2>2 DEF Expects, Fresh
    <3>2. QED BY <2>2, <3>1 DEF Opening, Peer, Ends
  <2>3. CASE reads[e] = "header"
    BY <2>1, <2>3 DEF Expects, Fresh
  <2>4. CASE reads[e] = "body"
    <3>1. Head(Arriving(e)) = [kind |-> "body", msg |-> tmpIn[e].msg]
      BY <2>1, <2>4 DEF Expects, Fresh
    <3>2. QED BY <2>4, <3>1
  <2>5. CASE reads[e] = "none"
    BY <2>5
  <2>6. QED BY <2>1, <2>2, <2>3, <2>4, <2>5 DEF ReadKind
<1> SUFFICES ASSUME ~EarlySend PROVE Spec => []FramingInSync
  OBVIOUS
<1>2. Waits /\ [Next]_connVars => Waits'
  BY NextWaits
<1>3. QED BY <1>1, <1>2, InitStream, PTL DEF Spec

\* Whatever a client sends and when, messages are handed over in the order in
\* which they were sent, each once and none skipped, and a body with its own
\* header: what overtakes the answer is read as one, and the server closes
\* (AddToIncomingMessageQueue and ReadValidation, clever_Connection.h).
THEOREM OrderKept == Spec => []DeliveredInOrder
<1>1. SInv => DeliveredInOrder
  BY DEF SInv, Heard, DeliveredInOrder
<1>2. QED BY <1>1, SInvHolds, PTL

-----------------------------------------------------------------------------
(***************************************************************************)
(* Connection implements Channel.                                          *)
(***************************************************************************)
Underway(e) == SubSeq(sent[Peer(e)], Len(delivered[e]) + 1, Len(sent[Peer(e)]))
LastHeard(e) == IF delivered[e] = <<>> THEN NoMessage
                                       ELSE Whole(delivered[e][Len(delivered[e])])

\* The steps at which something is sent or handed over.
SendsOne(e, m) ==
  /\ sent' = [sent EXCEPT ![e] = Append(@, m)]
  /\ UNCHANGED delivered
HandsOver(e, in) ==
  /\ Deliver(e, in)
  /\ UNCHANGED sent

\* Every other step leaves both alone.
LEMMA StepKinds ==
  ASSUME TypeOK, ServerStarts, [Next]_connVars
  PROVE  \/ \E e \in Ends, m \in Message : SendsOne(e, m)
         \/ \E e \in Ends : \E in : HandsOver(e, in)
         \/ UNCHANGED <<sent, delivered>>
<1> USE DEF TypeOK
<1>1. CASE \/ Connect \/ Reconnect \/ NetworkAnswers \/ NetworkBreaks \/ Connected
           \/ BeginDisconnect \/ EndDisconnect \/ ProcessExit
           \/ SolveChallenge \/ CheckAnswer \/ UNCHANGED connVars
  BY <1>1 DEF Connect, Reconnect, NetworkAnswers, NetworkBreaks, Connected, BeginDisconnect,
              EndDisconnect, ProcessExit, SolveChallenge, CheckAnswer, ReadDone, connVars
<1>2. CASE Accept
  <2>1. sent["server"] = <<>>
    BY <1>2 DEF Accept, Accepted, ServerStarts
  <2>2. Append(sent["server"], ServerAccept) = <<ServerAccept>>
    BY <2>1
  <2>3. sent' = [sent EXCEPT !["server"] = Append(@, ServerAccept)]
        /\ UNCHANGED delivered
    BY <1>2, <2>2 DEF Accept, Accepted
  <2>4. QED BY <2>3, EndsFacts, MessageFacts DEF SendsOne
<1>3. ASSUME NEW e \in Ends, RunPosted(e) \/ WriteDone(e) \/ WriteFailed(e) \/ ReadFailed(e)
      PROVE  UNCHANGED <<sent, delivered>>
  BY <1>3 DEF RunPosted, WriteDone, WriteFailed, ReadFailed
<1>4. ASSUME NEW e \in Ends, ReadHeader(e) \/ ReadBody(e)
      PROVE  (\E in : HandsOver(e, in)) \/ UNCHANGED <<sent, delivered>>
  <2>1. UNCHANGED sent
    BY <1>4 DEF ReadHeader, ReadBody, ReadDone
  <2>2. (\E in : Deliver(e, in)) \/ UNCHANGED delivered
    BY <1>4 DEF ReadHeader, ReadBody
  <2>3. QED BY <2>1, <2>2 DEF HandsOver
<1>5. ASSUME NEW e \in Ends, NEW body \in BOOLEAN, Send(e, body)
      PROVE  \E m \in Message : SendsOne(e, m)
  <2>1. Len(sent[e]) \in Nat /\ Len(sent[e]) + 1 <= MaxSend(e)
    BY <1>5, Bounds DEF Send, MaySend
  <2>2. Len(sent[e]) + 1 \in 1..LastMessage
    BY <2>1, Bounds
  <2>3. [n |-> Len(sent[e]) + 1, body |-> body] \in Message
    BY <2>2 DEF Message
  <2>4. QED BY <1>5, <2>3 DEF Send, SendsOne
<1>6. QED BY <1>1, <1>2, <1>3, <1>4, <1>5 DEF Next, AsioStep

\* The part of a sequence after its n-th.
LEMMA Remainder ==
  ASSUME NEW S, NEW s \in Seq(S), NEW n \in Nat, n <= Len(s)
  PROVE  /\ \A x \in S : SubSeq(Append(s, x), n + 1, Len(Append(s, x)))
                           = Append(SubSeq(s, n + 1, Len(s)), x)
         /\ n < Len(s) =>
              /\ SubSeq(s, n + 1, Len(s)) # <<>>
              /\ Head(SubSeq(s, n + 1, Len(s))) = s[n + 1]
              /\ Tail(SubSeq(s, n + 1, Len(s))) = SubSeq(s, n + 2, Len(s))
<1>1. PICK l \in Nat : l = Len(s)
  OBVIOUS
<1>2. ASSUME NEW x \in S
      PROVE  SubSeq(Append(s, x), n + 1, Len(Append(s, x)))
               = Append(SubSeq(s, n + 1, Len(s)), x)
  <2>1. PICK t : t = Append(s, x)
    OBVIOUS
  <2>2. t \in Seq(S) /\ Len(t) = l + 1 /\ t[l + 1] = x /\ \A k \in 1..l : t[k] = s[k]
    BY <1>1, <2>1, AppendProperties
  <2>3. PICK r : r = SubSeq(s, n + 1, l)
    OBVIOUS
  <2>4. r \in Seq(S) /\ Len(r) = l - n /\ \A k \in 1..l - n : r[k] = s[n + k]
    <3>1. \A i \in n + 1..l : s[i] \in S
      BY <1>1
    <3>2. r \in Seq(S) /\ Len(r) = (IF n + 1 <= l THEN l - (n + 1) + 1 ELSE 0)
          /\ \A i \in 1..l - (n + 1) + 1 : r[i] = s[n + 1 + i - 1]
      BY <1>1, <2>3, <3>1, SubSeqProperties
    <3>3. QED BY <1>1, <3>2
  <2>5. PICK q : q = SubSeq(t, n + 1, l + 1)
    OBVIOUS
  <2>6. q \in Seq(S) /\ Len(q) = l + 1 - n /\ \A k \in 1..l + 1 - n : q[k] = t[n + k]
    <3>1. \A i \in n + 1..l + 1 : t[i] \in S
      BY <1>1, <2>2
    <3>2. q \in Seq(S) /\ Len(q) = (IF n + 1 <= l + 1 THEN l + 1 - (n + 1) + 1 ELSE 0)
          /\ \A i \in 1..l + 1 - (n + 1) + 1 : q[i] = t[n + 1 + i - 1]
      BY <1>1, <2>5, <3>1, SubSeqProperties
    <3>3. QED BY <1>1, <3>2
  <2>7. PICK p : p = Append(r, x)
    OBVIOUS
  <2>8. /\ p \in Seq(S) /\ Len(p) = l - n + 1 /\ p[l - n + 1] = x
        /\ \A k \in 1..l - n : p[k] = r[k]
    BY <2>4, <2>7, AppendProperties
  <2>9. ASSUME NEW k \in 1..l + 1 - n PROVE q[k] = p[k]
    <3>1. CASE k = l + 1 - n
      <4>1. n + k = l + 1 /\ k = l - n + 1
        BY <1>1, <3>1
      <4>2. QED BY <2>2, <2>6, <2>8, <3>1, <4>1
    <3>2. CASE k # l + 1 - n
      <4>1. k \in 1..l - n /\ n + k \in 1..l
        BY <1>1, <3>2
      <4>2. QED BY <2>2, <2>4, <2>6, <2>8, <4>1
    <3>3. QED BY <3>1, <3>2
  <2>10. Len(q) = Len(p)
    BY <1>1, <2>6, <2>8
  <2>11. q = p
    BY <2>6, <2>8, <2>9, <2>10, SeqEqual
  <2>12. QED BY <1>1, <2>1, <2>2, <2>3, <2>5, <2>7, <2>11
<1>3. ASSUME n < Len(s)
      PROVE  /\ SubSeq(s, n + 1, Len(s)) # <<>>
             /\ Head(SubSeq(s, n + 1, Len(s))) = s[n + 1]
             /\ Tail(SubSeq(s, n + 1, Len(s))) = SubSeq(s, n + 2, Len(s))
  <2>1. n + 1 \in 1..Len(s) /\ Len(s) \in n + 1..Len(s)
    BY <1>1, <1>3
  <2>2. Len(SubSeq(s, n + 1, Len(s))) = Len(s) - n
    BY <1>1, <1>3
  <2>3. SubSeq(s, n + 1, Len(s)) # <<>>
    <3>1. l - n # 0
      BY <1>1, <1>3
    <3>2. Len(SubSeq(s, n + 1, Len(s))) # Len(<<>>)
      BY <1>1, <2>2, <3>1, EmptySeq
    <3>3. QED BY <3>2
  <2>4. n + 1 + 1 = n + 2
    OBVIOUS
  <2>5. QED BY <2>1, <2>3, <2>4, HeadTailOfSubSeq
<1>4. QED BY <1>2, <1>3

\* A send appends to what is under way to the peer.
LEMMA SendMaps ==
  ASSUME TypeOK, \A e \in Ends : Heard(e),
         NEW e \in Ends, NEW m \in Message, SendsOne(e, m)
  PROVE  Wires!Next
<1> DEFINE d == Peer(e)
<1>1. d \in Ends /\ d # e /\ Peer(d) = e /\ \A c \in Ends : c # d => Peer(c) # e
  BY EndsFacts DEF Ends, Peer
<1>2. /\ sent[e] \in Seq(Message) /\ Len(delivered[d]) \in Nat
      /\ Len(delivered[d]) <= Len(sent[e])
  BY <1>1 DEF TypeOK, Heard
<1>3. sent'[e] = Append(sent[e], m) /\ \A c \in Ends : c # e => sent'[c] = sent[c]
  BY DEF SendsOne, TypeOK
<1>4. Underway(d)' = Append(Underway(d), m)
  <2>1. UNCHANGED delivered
    BY DEF SendsOne
  <2>2. PICK s : s = sent[e]
    OBVIOUS
  <2>3. PICK n : n = Len(delivered[d])
    OBVIOUS
  <2>4. s \in Seq(Message) /\ n \in Nat /\ n <= Len(s)
    BY <1>2, <2>2, <2>3
  <2>5. SubSeq(Append(s, m), n + 1, Len(Append(s, m))) = Append(SubSeq(s, n + 1, Len(s)), m)
    BY <2>4, Remainder
  <2>6. sent[Peer(d)] = s /\ sent'[Peer(d)] = Append(s, m)
    BY <1>1, <1>3, <2>2
  <2>7. Len(delivered[d]) = n /\ Len(delivered'[d]) = n
    BY <2>1, <2>3
  <2>8. QED BY <2>5, <2>6, <2>7 DEF Underway
<1>5. \A c \in Ends : c # d => Underway(c)' = Underway(c)
  BY <1>1, <1>3, EndsFacts DEF Underway, SendsOne
<1>6. [c \in Ends |-> Underway(c)]' = [[c \in Ends |-> Underway(c)] EXCEPT ![d] = Append(@, m)]
  BY <1>1, <1>4, <1>5
<1>7. UNCHANGED [c \in Ends |-> LastHeard(c)]
  BY DEF SendsOne, LastHeard
<1>8. Wires!Send(d, m)
  BY <1>6, <1>7 DEF Wires!Send, Underway, LastHeard
<1>9. QED BY <1>1, <1>8 DEF Wires!Next

\* What is handed over is the oldest message under way.
LEMMA HandOverMaps ==
  ASSUME TypeOK, \A e \in Ends : Heard(e)', \A e \in Ends : Numbered(e),
         NEW e \in Ends, NEW in, HandsOver(e, in)
  PROVE  Wires!Next
<1>1. PICK s : s = sent[Peer(e)]
  OBVIOUS
<1>2. PICK n : n = Len(delivered[e])
  OBVIOUS
<1>3. s \in Seq(Message) /\ n \in Nat /\ sent' = sent
  <2>1. sent[Peer(e)] \in Seq(Message)
    BY EndsFacts DEF TypeOK
  <2>2. Len(delivered[e]) \in Nat
    BY DEF TypeOK
  <2>3. QED BY <1>1, <1>2, <2>1, <2>2 DEF HandsOver
<1>4. /\ Len(delivered'[e]) = n + 1
      /\ delivered'[e][n + 1] = in /\ delivered'[e] # <<>>
      /\ \A c \in Ends : c # e => delivered'[c] = delivered[c]
  <2>1. PICK s0 : s0 = delivered[e]
    OBVIOUS
  <2>2. PICK t : t = Append(s0, in)
    OBVIOUS
  <2>3. delivered'[e] = t /\ \A c \in Ends : c # e => delivered'[c] = delivered[c]
    BY <2>1, <2>2 DEF HandsOver, Deliver, TypeOK
  <2>4. Len(t) = n + 1 /\ t[n + 1] = in
    BY <1>2, <2>1, <2>2 DEF TypeOK
  <2>5. t # <<>>
    BY <1>3, <2>4
  <2>6. QED BY <2>3, <2>4, <2>5
<1>5. n + 1 <= Len(s) /\ in.msg = s[n + 1] /\ (in.msg.body => in.bodyOf = n + 1)
  <2>1. Len(delivered'[e]) <= Len(sent'[Peer(e)])
        /\ \A k \in 1..Len(delivered'[e]) :
             /\ delivered'[e][k].msg = sent'[Peer(e)][k]
             /\ delivered'[e][k].msg.body => delivered'[e][k].bodyOf = k
    BY DEF Heard
  <2>2. n + 1 \in 1..n + 1
    BY <1>3
  <2>3. QED BY <1>1, <1>3, <1>4, <2>1, <2>2
<1>6. in.msg.n = n + 1
  BY <1>1, <1>3, <1>5, EndsFacts DEF Numbered
<1>7. Underway(e) # <<>> /\ Head(Underway(e)) = in.msg /\ Underway(e)' = Tail(Underway(e))
  <2>1. n < Len(s) /\ n <= Len(s)
    BY <1>3, <1>5
  <2>2. /\ SubSeq(s, n + 1, Len(s)) # <<>>
        /\ Head(SubSeq(s, n + 1, Len(s))) = s[n + 1]
        /\ Tail(SubSeq(s, n + 1, Len(s))) = SubSeq(s, n + 2, Len(s))
    BY <1>3, <2>1, Remainder
  <2>3. n + 1 + 1 = n + 2
    BY <1>3
  <2>4. QED BY <1>1, <1>2, <1>3, <1>4, <1>5, <2>2, <2>3 DEF Underway
<1>8. LastHeard(e)' = in.msg
  BY <1>4, <1>5, <1>6 DEF LastHeard, Whole
<1>9. ASSUME NEW c \in Ends, c # e
      PROVE  Underway(c)' = Underway(c) /\ LastHeard(c)' = LastHeard(c)
  BY <1>3, <1>4, <1>9 DEF Underway, LastHeard
<1>10. /\ [c \in Ends |-> Underway(c)]' = [[c \in Ends |-> Underway(c)] EXCEPT ![e] = Tail(@)]
       /\ [c \in Ends |-> LastHeard(c)]'
            = [[c \in Ends |-> LastHeard(c)] EXCEPT ![e] = Head(Underway(e))]
  BY <1>7, <1>8, <1>9
<1>11. Wires!Receive(e)
  BY <1>7, <1>10 DEF Wires!Receive, Underway, LastHeard
<1>12. QED BY <1>11 DEF Wires!Next

\* Every step of Connection is one of Channel, or none.
LEMMA ChannelStep ==
  ASSUME TypeOK, ServerStarts, [Next]_connVars,
         \A e \in Ends : Heard(e) /\ Heard(e)' /\ Numbered(e)
  PROVE  [Wires!Next]_(Wires!vars)
<1>1. ASSUME NEW e \in Ends, NEW m \in Message, SendsOne(e, m) PROVE Wires!Next
  BY <1>1, SendMaps
<1>2. ASSUME NEW e \in Ends, NEW in, HandsOver(e, in) PROVE Wires!Next
  BY <1>2, HandOverMaps
<1>3. CASE UNCHANGED <<sent, delivered>>
  <2>1. UNCHANGED <<[c \in Ends |-> Underway(c)], [c \in Ends |-> LastHeard(c)]>>
    BY <1>3 DEF Underway, LastHeard
  <2>2. QED BY <2>1 DEF Wires!vars, Underway, LastHeard
<1>4. QED BY <1>1, <1>2, <1>3, StepKinds

\* What the two applications see of all the asynchronous work of
\* clever_Connection.h is a Channel: every step of either end sends one
\* message, hands over the oldest one, or does not show.
THEOREM ImplementsChannel == Spec => ChannelSpec
<1>1. Init => Wires!Init
  <2> SUFFICES ASSUME Init PROVE Wires!Init
    OBVIOUS
  <2>1. ASSUME NEW e \in Ends PROVE Underway(e) = <<>> /\ LastHeard(e) = NoMessage
    <3>1. sent[Peer(e)] = <<>> /\ delivered[e] = <<>>
      BY EndsFacts DEF Init
    <3>2. QED BY <3>1 DEF Underway, LastHeard
  <2>2. QED BY <2>1 DEF Wires!Init, Underway, LastHeard
<1>2. SInv /\ SInv' /\ [Next]_connVars => [Wires!Next]_(Wires!vars)
  BY ChannelStep DEF SInv, CInv
<1>3. QED BY <1>1, <1>2, SInvHolds, PTL DEF Spec, ChannelSpec, Wires!Spec

=============================================================================
