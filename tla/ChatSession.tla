---------------------------- MODULE ChatSession ----------------------------
(***************************************************************************)
(* The encrypted chat (Chat/sockets): a server that talks to one client    *)
(* after the other, and the TCP connections between them.  Both programs   *)
(* run the same loop: select on socket and keyboard, show what is read,    *)
(* send what is typed in encrypted blocks of a fixed size.                 *)
(***************************************************************************)
EXTENDS Integers, SequencesExt

CONSTANTS
  Clients,
  Says,            \* bound: the lines each side of a connection says
  SndBuf, RcvBuf   \* room for half blocks in TCP's buffers

(* A read takes a block of two halves if they are there.                   *)
Block == 2

(* A connection is named by its client and has two sides.                  *)
Sides == Clients \X {"client", "server"}
ClientSide(c) == <<c, "client">>
ServerSide(c) == <<c, "server">>
IsServer(s) == s[2] = "server"
Peer(s) == IF IsServer(s) THEN ClientSide(s[1]) ELSE ServerSide(s[1])

(* TCP's buffers are larger than the 256 bytes of a block.                 *)
ASSUME ChatAssumption ==
  /\ Says \in [Sides -> Nat]
  /\ SndBuf \in Nat \ {0} /\ RcvBuf \in Nat /\ RcvBuf >= Block

VARIABLES
  backlog,     \* the clients that have connected and not been accepted
  running,     \* the server's process has not ended
  session,     \* its crypto session is open
  at,          \* of each side, where its program is in the loop
  said, todo,  \* how many lines it has said; how much of the last is to write
  crypt,       \* whether encrypt has encrypted it
  snd, rcv,    \* the halves of blocks on their way from it, and arrived at it
  closed,      \* its socket is closed
  reset,       \* it has been told that the connection is reset
  shown,       \* the lines it has shown, 0 for what nobody has said
  short        \* it has read less than a block

netVars == <<snd, rcv, closed, reset>>
sideVars == <<at, said, todo, crypt, shown, short>>
chatVars == <<backlog, running, session, at, said, todo, crypt, snd, rcv, closed, reset,
              shown, short>>

Half == [line : Nat \ {0}, part : 1 .. Block, crypt : BOOLEAN]

ChatInit ==
  /\ backlog = << >> /\ running = TRUE /\ session = TRUE
  /\ at = [s \in Sides |-> "none"] /\ said = [s \in Sides |-> 0] /\ todo = [s \in Sides |-> 0]
  /\ crypt = [s \in Sides |-> FALSE]
  /\ snd = [s \in Sides |-> << >>] /\ rcv = [s \in Sides |-> << >>]
  /\ closed = [s \in Sides |-> FALSE] /\ reset = [s \in Sides |-> FALSE]
  /\ shown = [s \in Sides |-> << >>] /\ short = [s \in Sides |-> FALSE]

Talking(s) == at[s] \in {"select", "write"}
Serving == \E c \in Clients : Talking(ServerSide(c))

(* A client has a session of its own as long as it runs.                   *)
HasSession(s) == IsServer(s) => session

-----------------------------------------------------------------------------
(***************************************************************************)
(* TCP.                                                                    *)
(***************************************************************************)
(* Closing a socket with unread data resets the connection, as does        *)
(* closing one that was not accepted.                                      *)
CloseAll(S, Unaccepted) ==
  LET Abort(s) == s \in S /\ (rcv[s] # << >> \/ s \in Unaccepted) IN
  /\ closed' = [s \in Sides |-> closed[s] \/ s \in S]
  /\ reset' = [s \in Sides |-> (reset[s] \/ Abort(Peer(s))) /\ s \notin S]
  /\ snd' = [s \in Sides |-> IF Abort(s) THEN << >> ELSE snd[s]]
  /\ rcv' = [s \in Sides |-> IF s \in S THEN << >> ELSE rcv[s]]

Deliver(s) ==
  LET p == Peer(s) IN
  /\ snd[s] # << >>
  /\ IF closed[p]
     THEN /\ snd' = [snd EXCEPT ![s] = << >>, ![p] = << >>]
          /\ reset' = [reset EXCEPT ![s] = ~closed[s]]
          /\ UNCHANGED rcv
     ELSE /\ Len(rcv[p]) < RcvBuf
          /\ snd' = [snd EXCEPT ![s] = Tail(@)] /\ rcv' = [rcv EXCEPT ![p] = Append(@, Head(snd[s]))]
          /\ UNCHANGED reset
  /\ UNCHANGED <<backlog, running, session, closed, sideVars>>

(* Variant, for mutation: the end of the stream is not told from nothing.  *)
NeverAtEnd(s) == FALSE

(* read returns 0. *)
AtEnd(s) == rcv[s] = << >> /\ ~reset[s] /\ closed[Peer(s)] /\ snd[Peer(s)] = << >>

-----------------------------------------------------------------------------
(***************************************************************************)
(* The programs.                                                           *)
(***************************************************************************)
Connect(c) ==
  /\ running /\ at[ClientSide(c)] = "none"
  /\ at' = [at EXCEPT ![ClientSide(c)] = "select"]
  /\ backlog' = Append(backlog, c)
  /\ UNCHANGED <<running, session, said, todo, crypt, netVars, shown, short>>

Accept ==
  /\ running /\ ~Serving /\ backlog # << >>
  /\ at' = [at EXCEPT ![ServerSide(Head(backlog))] = "select"]
  /\ backlog' = Tail(backlog)
  /\ UNCHANGED <<running, session, said, todo, crypt, netVars, shown, short>>

Readable(s) == rcv[s] # << >> \/ reset[s] \/ AtEnd(s)

(* Variant, for mutation: the keyboard comes first.                        *)
MayTalkAlways(s) == TRUE

MayTalk(s) == ~Readable(s)

(* encrypt leaves the line as it is when there is no session. *)
Talk(s) ==
  /\ at[s] = "select" /\ MayTalk(s) /\ said[s] < Says[s]
  /\ said' = [said EXCEPT ![s] = @ + 1]
  /\ crypt' = [crypt EXCEPT ![s] = HasSession(s)]
  /\ todo' = [todo EXCEPT ![s] = Block] /\ at' = [at EXCEPT ![s] = "write"]
  /\ UNCHANGED <<backlog, running, session, netVars, shown, short>>

(* Variant, for mutation: write is called once, and may write less.        *)
LeftOnce(s) == IF Len(snd[s]) + 1 = SndBuf THEN 0 ELSE todo[s] - 1

(* What is left to write after a half: insist_write goes on until all is.  *)
Left(s) == todo[s] - 1

(* Variant, for mutation: the loop ends when what is left is negative.     *)
WrittenLate(s) == Left(s) < 0

Written(s) == Left(s) = 0

(* insist_write *)
Write(s) ==
  /\ at[s] = "write" /\ ~reset[s] /\ Len(snd[s]) < SndBuf
  /\ snd' = [snd EXCEPT ![s] = Append(@, [line |-> said[s], part |-> Block + 1 - todo[s],
                                          crypt |-> crypt[s]])]
  /\ todo' = [todo EXCEPT ![s] = Left(s)]
  /\ at' = [at EXCEPT ![s] = IF Written(s) THEN "select" ELSE "write"]
  /\ UNCHANGED <<backlog, running, session, said, crypt, rcv, closed, reset, shown, short>>

(* What decrypt makes of the halves in the buffer. *)
Decrypted(s, halves) ==
  IF /\ Len(halves) = Block
     /\ \A k \in 1 .. Block : /\ halves[k].part = k /\ halves[k].line = halves[1].line
                              /\ halves[k].crypt = HasSession(s)
  THEN halves[1].line ELSE 0

ToRead(s) == IF Len(rcv[s]) < Block THEN Len(rcv[s]) ELSE Block

ReadBlock(s) ==
  /\ at[s] = "select" /\ rcv[s] # << >>
  /\ shown' = [shown EXCEPT ![s] = Append(@, Decrypted(s, SubSeq(rcv[s], 1, ToRead(s))))]
  /\ short' = [short EXCEPT ![s] = @ \/ ToRead(s) < Block]
  /\ rcv' = [rcv EXCEPT ![s] = SubSeq(@, ToRead(s) + 1, Len(@))]
  /\ UNCHANGED <<backlog, running, session, at, said, todo, crypt, snd, closed, reset>>

(* finishcrypto: the server's next ioctl on that descriptor fails.  What a *)
(* side has said and shown is forgotten when its program leaves.           *)
Leave(s) ==
  /\ at' = [at EXCEPT ![s] = "gone"]
  /\ said' = [said EXCEPT ![s] = 0] /\ todo' = [todo EXCEPT ![s] = 0]
  /\ crypt' = [crypt EXCEPT ![s] = FALSE]
  /\ shown' = [shown EXCEPT ![s] = << >>] /\ short' = [short EXCEPT ![s] = FALSE]
  /\ session' = (session /\ ~IsServer(s))
  /\ UNCHANGED <<backlog, running>>

ReadEof(s) == at[s] = "select" /\ AtEnd(s) /\ CloseAll({s}, {}) /\ Leave(s)

(* The server goes on with what its buffer holds.                          *)
ReadError(s) ==
  /\ at[s] = "select" /\ rcv[s] = << >> /\ reset[s]
  /\ IF IsServer(s)
     THEN /\ shown' = [shown EXCEPT ![s] = Append(@, 0)]
          /\ reset' = [reset EXCEPT ![s] = FALSE]
          /\ UNCHANGED <<backlog, running, session, at, said, todo, crypt, short, snd, rcv, closed>>
     ELSE CloseAll({s}, {}) /\ Leave(s)

(* The server leaves the socket open; a client ends by SIGPIPE.            *)
SocketWriteFails(s) ==
  /\ at[s] = "write" /\ reset[s]
  /\ Leave(s)
  /\ IF IsServer(s) THEN UNCHANGED netVars ELSE CloseAll({s}, {})

(* SIGINT *)
ClientEnds(c) ==
  /\ Talking(ClientSide(c))
  /\ CloseAll({ClientSide(c)}, {}) /\ Leave(ClientSide(c))

(* SIGINT: who has connected and not been accepted is reset.               *)
ServerEnds ==
  LET ours == {s \in Sides : IsServer(s) /\ at[Peer(s)] # "none"}
      Only(f, x) == [s \in Sides |-> IF IsServer(s) THEN x ELSE f[s]] IN
  /\ running /\ running' = FALSE /\ session' = FALSE /\ backlog' = << >>
  /\ CloseAll(ours, {s \in ours : at[s] = "none"})
  /\ at' = Only(at, "gone") /\ said' = Only(said, 0) /\ todo' = Only(todo, 0)
  /\ crypt' = Only(crypt, FALSE) /\ shown' = Only(shown, << >>) /\ short' = Only(short, FALSE)

Goes(s) == Write(s) \/ ReadBlock(s) \/ ReadEof(s) \/ ReadError(s) \/ SocketWriteFails(s)

ChatNext ==
  \/ \E c \in Clients : Connect(c) \/ ClientEnds(c)
  \/ Accept \/ ServerEnds
  \/ \E s \in Sides : Talk(s) \/ Goes(s) \/ Deliver(s)

(* Everyone goes on, and so does TCP; nobody need say a word, or leave.    *)
ChatFairness ==
  /\ WF_chatVars(Accept)
  /\ \A s \in Sides : WF_chatVars(Goes(s)) /\ WF_chatVars(Deliver(s))

ChatSpec == ChatInit /\ [][ChatNext]_chatVars /\ ChatFairness

-----------------------------------------------------------------------------
ChatTypeOK ==
  /\ backlog \in Seq(Clients) /\ running \in BOOLEAN /\ session \in BOOLEAN
  /\ at \in [Sides -> {"none", "select", "write", "gone"}]
  /\ said \in [Sides -> Nat] /\ todo \in [Sides -> 0 .. Block]
  /\ crypt \in [Sides -> BOOLEAN]
  /\ snd \in [Sides -> Seq(Half)] /\ rcv \in [Sides -> Seq(Half)]
  /\ closed \in [Sides -> BOOLEAN] /\ reset \in [Sides -> BOOLEAN]
  /\ shown \in [Sides -> Seq(Nat)] /\ short \in [Sides -> BOOLEAN]

(* The two programs of a connection talk, neither has lost a part of a     *)
(* block, and the server has its crypto session: so until the first client *)
(* leaves.                                                                 *)
InSession(c) ==
  /\ session
  /\ \A s \in {ClientSide(c), ServerSide(c)} : Talking(s) /\ ~short[s] /\ ~closed[s]

(* What the sockets and the program of s still hold of what s has said.    *)
OnItsWay(s) == todo[s] + Len(snd[s]) + Len(rcv[Peer(s)])

(* What a side shows is what the other has said, line by line, and what    *)
(* has not been shown is on its way: the loops of both programs, whatever  *)
(* the buffers hold.  (socket-server.c:164-213, socket-client.c:129-181)   *)
ShownAsSaid ==
  \A c \in Clients : InSession(c) =>
    \A s \in {ClientSide(c), ServerSide(c)} :
      LET p == Peer(s) IN
      /\ shown[s] = [k \in 1 .. Len(shown[s]) |-> k]
      /\ Block * (said[p] - Len(shown[s])) = OnItsWay(p)

(* Two programs that write to each other are never both stuck in full      *)
(* buffers: the loops look at the socket before the keyboard.              *)
(* (socket-server.c:170, 194, socket-client.c:142, 161)                    *)
SomeoneCanWrite ==
  \A c \in Clients :
    (at[ClientSide(c)] = "write" /\ at[ServerSide(c)] = "write") =>
      \E s \in {ClientSide(c), ServerSide(c)} :
        Len(snd[s]) < SndBuf \/ Len(rcv[Peer(s)]) < RcvBuf

(* A line that is said is written, sent, read and shown, unless one of the *)
(* two leaves: nobody waits for ever in write, or talks on instead.        *)
SaidIsShown ==
  \A s \in Sides : \A n \in 1 .. Says[s] :
    (Talking(s) /\ Talking(Peer(s)) /\ said[s] >= n) ~>
      (Len(shown[Peer(s)]) >= n \/ ~Talking(s) \/ ~Talking(Peer(s)))

(* Whenever a client has gone, the server comes to leave its connection,   *)
(* wherever in the loop it was; so the next in line is served.             *)
(* (socket-server.c:172-181, 204-207)                                      *)
LeaverIsNoticed ==
  \A c \in Clients :
    (Talking(ServerSide(c)) /\ at[ClientSide(c)] = "gone") ~> ~Talking(ServerSide(c))

(* The inductive invariant of the proofs: of two programs that write to    *)
(* each other, one has room for all that is under way from it.             *)
RoomFor(s) == OnItsWay(s) <= SndBuf + RcvBuf

RoomInv ==
  \A s \in Sides :
    /\ Len(snd[s]) <= SndBuf /\ Len(rcv[s]) <= RcvBuf
    /\ at[s] = "write" => todo[s] > 0 /\ said[s] > 0
    /\ (at[s] = "write" /\ at[Peer(s)] = "write") => (RoomFor(s) \/ RoomFor(Peer(s)))

(* As long as session and connection are whole, also before the server has *)
(* accepted it, the halves that are under way from s are those that come   *)
(* after what Peer(s) has shown, in the order they were written.           *)
Intact(s) == session /\ \A t \in {s, Peer(s)} : at[t] # "gone" /\ ~short[t] /\ ~closed[t]

IsNth(half, n) == half.crypt /\ Block * (half.line - 1) + half.part = n

InOrder(s) ==
  LET p == Peer(s)
      past == Block * Len(shown[p])
  IN /\ shown[p] = [k \in 1 .. Len(shown[p]) |-> k]
     /\ Block * said[s] = past + OnItsWay(s)
     /\ at[s] = "write" => crypt[s]
     /\ \A k \in 1 .. Len(rcv[p]) : IsNth(rcv[p][k], past + k)
     /\ \A k \in 1 .. Len(snd[s]) : IsNth(snd[s][k], past + Len(rcv[p]) + k)

SideInv(s) ==
  /\ reset[s] => closed[Peer(s)]
  /\ (IsServer(s) /\ at[s] = "gone") => ~session
  /\ at[s] # "write" => todo[s] = 0

StreamInv == \A s \in Sides : SideInv(s) /\ (Intact(s) => InOrder(s))

=============================================================================
