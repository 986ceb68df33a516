----------------------------- MODULE ChatProofs -----------------------------
(***************************************************************************)
(* Proofs about ChatSession, for any set of clients, any lines they say    *)
(* and buffers of any size that holds a block.                             *)
(***************************************************************************)
EXTENDS ChatSession, SequenceTheorems, TLAPS

LEMMA PeerFacts ==
  ASSUME NEW s \in Sides
  PROVE  /\ Peer(s) \in Sides /\ Peer(Peer(s)) = s /\ Peer(s) # s
         /\ IsServer(Peer(s)) <=> ~IsServer(s)
  BY DEF Sides, Peer, IsServer, ClientSide, ServerSide

LEMMA SidesOf ==
  ASSUME NEW c \in Clients
  PROVE  /\ ClientSide(c) \in Sides /\ ServerSide(c) \in Sides
         /\ Peer(ClientSide(c)) = ServerSide(c) /\ Peer(ServerSide(c)) = ClientSide(c)
         /\ ~IsServer(ClientSide(c)) /\ IsServer(ServerSide(c))
  BY DEF Sides, Peer, IsServer, ClientSide, ServerSide

(* What closing sockets does to the four variables of TCP. *)
LEMMA Closing ==
  ASSUME ChatTypeOK, NEW S, NEW U, CloseAll(S, U)
  PROVE  /\ snd' \in [Sides -> Seq(Half)] /\ rcv' \in [Sides -> Seq(Half)]
         /\ closed' \in [Sides -> BOOLEAN] /\ reset' \in [Sides -> BOOLEAN]
         /\ \A s \in Sides :
              /\ snd'[s] = snd[s] \/ snd'[s] = << >>
              /\ rcv'[s] = rcv[s] \/ rcv'[s] = << >>
              /\ s \in S => closed'[s]
              /\ s \notin S => closed'[s] = closed[s] /\ snd'[s] = snd[s] /\ rcv'[s] = rcv[s]
              /\ reset'[s] => reset[s] \/ Peer(s) \in S
              /\ closed[s] => closed'[s]
<1> DEFINE Abort(s) == s \in S /\ (rcv[s] # << >> \/ s \in U)
<1>1. /\ closed' = [s \in Sides |-> closed[s] \/ s \in S]
      /\ reset' = [s \in Sides |-> (reset[s] \/ Abort(Peer(s))) /\ s \notin S]
      /\ snd' = [s \in Sides |-> IF Abort(s) THEN << >> ELSE snd[s]]
      /\ rcv' = [s \in Sides |-> IF s \in S THEN << >> ELSE rcv[s]]
  BY DEF CloseAll
<1>2. << >> \in Seq(Half)
  OBVIOUS
<1>3. closed' \in [Sides -> BOOLEAN] /\ reset' \in [Sides -> BOOLEAN]
  BY <1>1, Zenon DEF ChatTypeOK
<1>4. snd' \in [Sides -> Seq(Half)] /\ rcv' \in [Sides -> Seq(Half)]
  BY <1>1, <1>2 DEF ChatTypeOK
<1>5. ASSUME NEW s \in Sides
      PROVE /\ snd'[s] = IF Abort(s) THEN << >> ELSE snd[s]
            /\ rcv'[s] = IF s \in S THEN << >> ELSE rcv[s]
            /\ closed'[s] = (closed[s] \/ s \in S)
            /\ reset'[s] = ((reset[s] \/ Abort(Peer(s))) /\ s \notin S)
  BY <1>1, Zenon
<1>6. ASSUME NEW s \in Sides
      PROVE /\ snd'[s] = snd[s] \/ snd'[s] = << >>
            /\ rcv'[s] = rcv[s] \/ rcv'[s] = << >>
            /\ s \in S => closed'[s]
            /\ s \notin S => closed'[s] = closed[s] /\ snd'[s] = snd[s] /\ rcv'[s] = rcv[s]
            /\ reset'[s] => reset[s] \/ Peer(s) \in S
            /\ closed[s] => closed'[s]
  <2>1. closed[s] \in BOOLEAN
    BY DEF ChatTypeOK
  <2> QED
    BY <1>5, <2>1, Zenon
<1> QED
  BY <1>3, <1>4, <1>6

-----------------------------------------------------------------------------
LEMMA InitChat == ChatInit => ChatTypeOK /\ RoomInv /\ StreamInv
<1> SUFFICES ASSUME ChatInit PROVE ChatTypeOK /\ RoomInv /\ StreamInv
  OBVIOUS
<1>1. << >> \in Seq(Half) /\ << >> \in Seq(Nat) /\ << >> \in Seq(Clients)
  OBVIOUS
<1>2. ChatTypeOK
  BY <1>1 DEF ChatInit, ChatTypeOK, Block
<1>3. RoomInv
  BY PeerFacts, ChatAssumption DEF ChatInit, RoomInv
<1>4. ASSUME NEW s \in Sides PROVE InOrder(s)
  <2>1. Peer(s) \in Sides
    BY PeerFacts
  <2>2. /\ said[s] = 0 /\ todo[s] = 0 /\ at[s] = "none" /\ snd[s] = << >>
        /\ rcv[Peer(s)] = << >> /\ shown[Peer(s)] = << >>
    BY <2>1 DEF ChatInit
  <2>3. [k \in 1 .. 0 |-> k] = << >>
    OBVIOUS
  <2> QED
    BY <2>2, <2>3 DEF InOrder, OnItsWay, Block
<1>5. StreamInv
  BY <1>4 DEF ChatInit, StreamInv, SideInv
<1> QED
  BY <1>2, <1>3, <1>5

(* Every step keeps the types; a line is written only after it was said.   *)
LEMMA StepChatTypes == ChatTypeOK /\ RoomInv /\ [ChatNext]_chatVars => ChatTypeOK'
<1> SUFFICES ASSUME ChatTypeOK, RoomInv, [ChatNext]_chatVars PROVE ChatTypeOK'
  OBVIOUS
<1> DEFINE SideTypes ==
      /\ at \in [Sides -> {"none", "select", "write", "gone"}]
      /\ said \in [Sides -> Nat] /\ todo \in [Sides -> 0 .. Block]
      /\ crypt \in [Sides -> BOOLEAN]
      /\ shown \in [Sides -> Seq(Nat)] /\ short \in [Sides -> BOOLEAN]
    NetTypes ==
      /\ snd \in [Sides -> Seq(Half)] /\ rcv \in [Sides -> Seq(Half)]
      /\ closed \in [Sides -> BOOLEAN] /\ reset \in [Sides -> BOOLEAN]
    RestTypes == backlog \in Seq(Clients) /\ running \in BOOLEAN /\ session \in BOOLEAN
<1>0. SideTypes /\ NetTypes /\ RestTypes
  BY DEF ChatTypeOK
<1>00. SUFFICES SideTypes' /\ NetTypes' /\ RestTypes'
  BY Zenon DEF ChatTypeOK
<1>a. UNCHANGED netVars => NetTypes'
  BY <1>0 DEF netVars
<1>b. ASSUME NEW s \in Sides, Leave(s) PROVE SideTypes' /\ RestTypes'
  <2>1. << >> \in Seq(Nat)
    OBVIOUS
  <2> QED
    BY <1>0, <1>b, <2>1 DEF Leave, Block
<1>c. ASSUME NEW S, NEW U, CloseAll(S, U) PROVE NetTypes'
  BY <1>c, Closing
<1>1. CASE UNCHANGED chatVars
  BY <1>0, <1>1 DEF chatVars
<1>2. ASSUME NEW c \in Clients, Connect(c) PROVE SideTypes' /\ NetTypes' /\ RestTypes'
  BY <1>0, <1>2, <1>a, SidesOf, AppendProperties DEF Connect
<1>3. ASSUME NEW c \in Clients, ClientEnds(c) PROVE SideTypes' /\ NetTypes' /\ RestTypes'
  <2>1. Leave(ClientSide(c)) /\ CloseAll({ClientSide(c)}, {})
    BY <1>3 DEF ClientEnds
  <2> QED
    BY <2>1, <1>b, <1>c, SidesOf
<1>4. CASE Accept
  <2>1. Tail(backlog) \in Seq(Clients)
    BY <1>0, <1>4, HeadTailProperties DEF Accept
  <2> QED
    BY <1>0, <1>4, <1>a, <2>1 DEF Accept
<1>5. CASE ServerEnds
  <2>1. NetTypes'
    BY <1>5, <1>c DEF ServerEnds
  <2>2. << >> \in Seq(Clients) /\ << >> \in Seq(Nat)
    OBVIOUS
  <2>3. RestTypes'
    BY <1>0, <1>5, <2>2 DEF ServerEnds
  <2>4. /\ at' \in [Sides -> {"none", "select", "write", "gone"}]
        /\ said' \in [Sides -> Nat] /\ todo' \in [Sides -> 0 .. Block]
    BY <1>0, <1>5 DEF ServerEnds, Block
  <2>5. shown' \in [Sides -> Seq(Nat)]
    BY <1>0, <1>5, <2>2 DEF ServerEnds
  <2>6. crypt' \in [Sides -> BOOLEAN] /\ short' \in [Sides -> BOOLEAN]
    BY <1>0, <1>5 DEF ServerEnds
  <2> QED
    BY <2>1, <2>3, <2>4, <2>5, <2>6
<1>6. ASSUME NEW s \in Sides, Talk(s) PROVE SideTypes' /\ NetTypes' /\ RestTypes'
  <2>1. HasSession(s) \in BOOLEAN
    BY <1>0, Zenon DEF HasSession, IsServer
  <2>2. crypt' \in [Sides -> BOOLEAN]
    BY <1>0, <1>6, <2>1, Zenon DEF Talk
  <2>3. said' \in [Sides -> Nat] /\ todo' \in [Sides -> 0 .. Block]
    BY <1>0, <1>6 DEF Talk, Block
  <2> QED
    BY <1>0, <1>6, <1>a, <2>2, <2>3 DEF Talk
<1>7. ASSUME NEW s \in Sides, Write(s) PROVE SideTypes' /\ NetTypes' /\ RestTypes'
  <2>1. todo[s] \in 1 .. Block /\ said[s] \in Nat \ {0}
    BY <1>0, <1>7 DEF Write, RoomInv, Block
  <2>2. [line |-> said[s], part |-> Block + 1 - todo[s], crypt |-> crypt[s]] \in Half
    BY <1>0, <2>1 DEF Half, Block
  <2>3. NetTypes'
    BY <1>0, <1>7, <2>2, AppendProperties DEF Write
  <2>4. SideTypes' /\ RestTypes'
    BY <1>0, <1>7, <2>1 DEF Write, Left, Block
  <2> QED
    BY <2>3, <2>4
<1>8. ASSUME NEW s \in Sides, ReadBlock(s) PROVE SideTypes' /\ NetTypes' /\ RestTypes'
  <2>1. rcv[s] \in Seq(Half) /\ ToRead(s) \in 0 .. Len(rcv[s])
    BY <1>0 DEF ToRead, Block
  <2>2. SubSeq(rcv[s], ToRead(s) + 1, Len(rcv[s])) \in Seq(Half) /\ SubSeq(rcv[s], 1, ToRead(s)) \in Seq(Half)
    BY <2>1
  <2>3. Decrypted(s, SubSeq(rcv[s], 1, ToRead(s))) \in Nat
    <3> DEFINE halves == SubSeq(rcv[s], 1, ToRead(s))
    <3>0. halves \in Seq(Half)
      BY <2>2
    <3>1. Len(halves) = Block => halves[1].line \in Nat
      <4> HIDE DEF halves
      <4>1. ASSUME Len(halves) = Block PROVE halves[1] \in Half
        BY <3>0, <4>1, ElementOfSeq DEF Block
      <4> QED
        BY <4>1 DEF Half
    <3> QED
      BY <3>1, Zenon DEF Decrypted
  <2>4. shown' \in [Sides -> Seq(Nat)]
    BY <1>0, <1>8, <2>3, AppendProperties DEF ReadBlock
  <2>5. short' \in [Sides -> BOOLEAN]
    BY <1>0, <1>8 DEF ReadBlock
  <2>6. NetTypes'
    BY <1>0, <1>8, <2>2 DEF ReadBlock
  <2> QED
    BY <1>0, <1>8, <2>4, <2>5, <2>6 DEF ReadBlock
<1>9. ASSUME NEW s \in Sides, ReadEof(s) PROVE SideTypes' /\ NetTypes' /\ RestTypes'
  BY <1>9, <1>b, <1>c DEF ReadEof
<1>10. ASSUME NEW s \in Sides, ReadError(s) PROVE SideTypes' /\ NetTypes' /\ RestTypes'
  <2>1. CASE IsServer(s)
    <3>0. Append(shown[s], 0) \in Seq(Nat)
      BY <1>0, AppendProperties
    <3>1. shown' \in [Sides -> Seq(Nat)]
      BY <1>0, <1>10, <2>1, <3>0 DEF ReadError
    <3> QED
      BY <1>0, <1>10, <2>1, <3>1 DEF ReadError
  <2>2. CASE ~IsServer(s)
    BY <1>10, <1>b, <1>c, <2>2 DEF ReadError
  <2> QED
    BY <2>1, <2>2
<1>11. ASSUME NEW s \in Sides, SocketWriteFails(s) PROVE SideTypes' /\ NetTypes' /\ RestTypes'
  <2>1. NetTypes'
    BY <1>11, <1>a, <1>c DEF SocketWriteFails
  <2>2. SideTypes' /\ RestTypes'
    BY <1>11, <1>b DEF SocketWriteFails
  <2> QED
    BY <2>1, <2>2
<1>12. ASSUME NEW s \in Sides, Deliver(s) PROVE SideTypes' /\ NetTypes' /\ RestTypes'
  <2>1. snd[s] \in Seq(Half) /\ snd[s] # << >> /\ Peer(s) \in Sides
    BY <1>0, <1>12, PeerFacts DEF Deliver
  <2>2. Tail(snd[s]) \in Seq(Half) /\ Head(snd[s]) \in Half /\ << >> \in Seq(Half)
    BY <2>1, HeadTailProperties
  <2>3. SideTypes' /\ RestTypes'
    BY <1>0, <1>12 DEF Deliver, sideVars
  <2>4. NetTypes'
    <3>1. CASE closed[Peer(s)]
      BY <1>0, <1>12, <2>1, <2>2, <3>1 DEF Deliver
    <3>2. CASE ~closed[Peer(s)]
      <4>1. Append(rcv[Peer(s)], Head(snd[s])) \in Seq(Half)
        BY <1>0, <2>1, <2>2, AppendProperties
      <4> QED
        BY <1>0, <1>12, <2>1, <2>2, <3>2, <4>1 DEF Deliver
    <3> QED
      BY <3>1, <3>2
  <2> QED
    BY <2>3, <2>4
<1> QED
  BY <1>1, <1>2, <1>3, <1>4, <1>5, <1>6, <1>7, <1>8, <1>9, <1>10, <1>11, <1>12 DEF ChatNext, Goes

-----------------------------------------------------------------------------
LEMMA Sizes ==
  ASSUME ChatTypeOK, NEW s \in Sides
  PROVE  /\ todo[s] \in Int /\ todo[s] <= Block /\ Len(snd[s]) \in Nat /\ Len(rcv[s]) \in Nat
         /\ Len(rcv[Peer(s)]) \in Nat /\ OnItsWay(s) \in Int
<1>1. Peer(s) \in Sides
  BY PeerFacts
<1>2. /\ todo[s] \in 0 .. Block /\ snd[s] \in Seq(Half)
      /\ rcv[s] \in Seq(Half) /\ rcv[Peer(s)] \in Seq(Half)
  BY <1>1 DEF ChatTypeOK
<1>3. /\ todo[s] \in Int /\ todo[s] <= Block /\ Len(snd[s]) \in Nat /\ Len(rcv[s]) \in Nat
      /\ Len(rcv[Peer(s)]) \in Nat
  BY <1>2, LenProperties DEF Block
<1> QED
  BY <1>3 DEF OnItsWay

LEMMA SizesNext ==
  ASSUME ChatTypeOK', NEW s \in Sides
  PROVE  /\ todo'[s] \in Int /\ Len(snd'[s]) \in Nat /\ Len(rcv'[s]) \in Nat
         /\ Len(rcv'[Peer(s)]) \in Nat /\ OnItsWay(s)' \in Int
<1>1. Peer(s) \in Sides
  BY PeerFacts
<1>2. /\ todo'[s] \in 0 .. Block /\ snd'[s] \in Seq(Half)
      /\ rcv'[s] \in Seq(Half) /\ rcv'[Peer(s)] \in Seq(Half)
  BY <1>1 DEF ChatTypeOK
<1>3. /\ todo'[s] \in Int /\ Len(snd'[s]) \in Nat /\ Len(rcv'[s]) \in Nat
      /\ Len(rcv'[Peer(s)]) \in Nat
  BY <1>2, LenProperties DEF Block
<1> QED
  BY <1>3 DEF OnItsWay

(* Room is kept by whatever puts nothing under way.                        *)
LEMMA RoomKept ==
  ASSUME ChatTypeOK, ChatTypeOK', RoomInv,
         \A s \in Sides :
           /\ Len(snd'[s]) <= SndBuf /\ Len(rcv'[s]) <= RcvBuf
           /\ at'[s] = "write" => at[s] = "write" /\ todo'[s] > 0 /\ said'[s] > 0
           /\ at'[s] = "write" => OnItsWay(s)' <= OnItsWay(s)
  PROVE  RoomInv'
<1> SUFFICES ASSUME NEW s \in Sides, at'[s] = "write", at'[Peer(s)] = "write"
             PROVE  RoomFor(s)' \/ RoomFor(Peer(s))'
  BY DEF RoomInv
<1>1. Peer(s) \in Sides
  BY PeerFacts
<1>2. RoomFor(s) \/ RoomFor(Peer(s))
  BY <1>1 DEF RoomInv
<1>3. ASSUME NEW t \in Sides, at'[t] = "write", RoomFor(t) PROVE RoomFor(t)'
  <2>1. OnItsWay(t) \in Int /\ OnItsWay(t)' \in Int
    BY Sizes, SizesNext
  <2> QED
    BY <1>3, <2>1, ChatAssumption DEF RoomFor
<1> QED
  BY <1>1, <1>2, <1>3

(* Closing sockets and leaving puts nothing under way. *)
LEMMA RoomClosed ==
  ASSUME ChatTypeOK, ChatTypeOK', RoomInv,
         \A s \in Sides :
           /\ snd'[s] = snd[s] \/ snd'[s] = << >>
           /\ rcv'[s] = rcv[s] \/ rcv'[s] = << >>
           /\ at'[s] = "write" => at[s] = "write" /\ todo'[s] = todo[s] /\ said'[s] = said[s]
  PROVE  RoomInv'
<1>1. ASSUME NEW s \in Sides
      PROVE /\ Len(snd'[s]) <= SndBuf /\ Len(rcv'[s]) <= RcvBuf
            /\ Len(snd'[s]) <= Len(snd[s]) /\ Len(rcv'[s]) <= Len(rcv[s])
  BY ChatAssumption DEF ChatTypeOK, RoomInv, Block
<1>2. ASSUME NEW s \in Sides, at'[s] = "write"
      PROVE  at[s] = "write" /\ todo'[s] > 0 /\ said'[s] > 0 /\ OnItsWay(s)' <= OnItsWay(s)
  <2>1. Peer(s) \in Sides
    BY PeerFacts
  <2>2. at[s] = "write" /\ todo'[s] = todo[s] /\ said'[s] = said[s]
    BY <1>2
  <2>3. Len(snd'[s]) <= Len(snd[s]) /\ Len(rcv'[Peer(s)]) <= Len(rcv[Peer(s)])
    BY <1>1, <2>1
  <2>4. OnItsWay(s)' <= OnItsWay(s)
    <3>1. /\ todo[s] \in Int /\ Len(snd[s]) \in Int /\ Len(rcv[Peer(s)]) \in Int
          /\ Len(snd'[s]) \in Int /\ Len(rcv'[Peer(s)]) \in Int
      BY Sizes, SizesNext
    <3> QED
      BY <2>2, <2>3, <3>1 DEF OnItsWay
  <2> QED
    BY <2>2, <2>4 DEF RoomInv
<1> QED
  BY <1>1, <1>2, RoomKept

LEMMA LeaveClosed ==
  ASSUME ChatTypeOK, ChatTypeOK', RoomInv, NEW s \in Sides, Leave(s),
         UNCHANGED netVars \/ CloseAll({s}, {})
  PROVE  RoomInv'
<1>1. ASSUME NEW t \in Sides
      PROVE (snd'[t] = snd[t] \/ snd'[t] = << >>) /\ (rcv'[t] = rcv[t] \/ rcv'[t] = << >>)
  BY Closing DEF netVars
<1>2. ASSUME NEW t \in Sides, at'[t] = "write"
      PROVE at[t] = "write" /\ todo'[t] = todo[t] /\ said'[t] = said[t]
  BY <1>2 DEF Leave, ChatTypeOK
<1> QED
  BY <1>1, <1>2, RoomClosed

(* Whoever starts to talk has read all that had arrived, so that the other *)
(* has room for its block.                                                 *)
LEMMA StepRoom == ChatTypeOK /\ ChatTypeOK' /\ RoomInv /\ [ChatNext]_chatVars => RoomInv'
<1> SUFFICES ASSUME ChatTypeOK, ChatTypeOK', RoomInv, [ChatNext]_chatVars PROVE RoomInv'
  OBVIOUS
<1>1. CASE UNCHANGED chatVars
  BY <1>1, RoomClosed DEF chatVars
<1>2. ASSUME NEW c \in Clients, Connect(c) PROVE RoomInv'
  BY <1>2, RoomClosed, SidesOf DEF Connect, netVars, ChatTypeOK
<1>3. ASSUME NEW c \in Clients, ClientEnds(c) PROVE RoomInv'
  BY <1>3, LeaveClosed, SidesOf DEF ClientEnds
<1>4. CASE Accept
  BY <1>4, RoomClosed DEF Accept, netVars, ChatTypeOK
<1>5. CASE ServerEnds
  <2>1. PICK S, U : CloseAll(S, U)
    BY <1>5 DEF ServerEnds
  <2>2. ASSUME NEW t \in Sides, at'[t] = "write"
        PROVE at[t] = "write" /\ todo'[t] = todo[t] /\ said'[t] = said[t]
    BY <1>5, <2>2 DEF ServerEnds
  <2> QED
    BY <2>1, <2>2, Closing, RoomClosed
<1>6. ASSUME NEW s \in Sides, Talk(s) PROVE RoomInv'
  <2>1. /\ rcv[s] = << >> /\ at[s] = "select" /\ UNCHANGED <<snd, rcv>>
        /\ said' = [said EXCEPT ![s] = @ + 1]
        /\ todo' = [todo EXCEPT ![s] = Block] /\ at' = [at EXCEPT ![s] = "write"]
    BY <1>6 DEF Talk, MayTalk, Readable, netVars
  <2>2. RoomFor(Peer(s))'
    <3>1. Peer(s) \in Sides /\ Peer(Peer(s)) = s /\ Peer(s) # s
      BY PeerFacts
    <3>2. OnItsWay(Peer(s))' = todo[Peer(s)] + Len(snd[Peer(s)]) + 0
      BY <2>1, <3>1 DEF OnItsWay, ChatTypeOK
    <3>3. todo[Peer(s)] <= Block /\ Len(snd[Peer(s)]) <= SndBuf /\ todo[Peer(s)] \in Int /\ Len(snd[Peer(s)]) \in Int
      BY <3>1 DEF RoomInv, ChatTypeOK, Block
    <3> QED
      BY <3>2, <3>3, ChatAssumption DEF RoomFor, Block
  <2>3. ASSUME NEW t \in Sides
        PROVE  /\ Len(snd'[t]) <= SndBuf /\ Len(rcv'[t]) <= RcvBuf
               /\ at'[t] = "write" => todo'[t] > 0 /\ said'[t] > 0
    BY <2>1 DEF RoomInv, ChatTypeOK, Block
  <2>4. ASSUME NEW t \in Sides, at'[t] = "write", at'[Peer(t)] = "write"
        PROVE  RoomFor(t)' \/ RoomFor(Peer(t))'
    <3>1. Peer(t) \in Sides /\ Peer(Peer(t)) = t
      BY PeerFacts
    <3>2. CASE t = s
      BY <2>2, <3>2
    <3>3. CASE Peer(t) = s
      BY <2>2, <3>1, <3>3
    <3>4. CASE t # s /\ Peer(t) # s
      <4>1. at[t] = "write" /\ at[Peer(t)] = "write"
        BY <2>1, <2>4, <3>1, <3>4 DEF ChatTypeOK
      <4>2. OnItsWay(t)' = OnItsWay(t) /\ OnItsWay(Peer(t))' = OnItsWay(Peer(t))
        BY <2>1, <3>1, <3>4 DEF OnItsWay, ChatTypeOK
      <4> QED
        BY <4>1, <4>2 DEF RoomInv, RoomFor
    <3> QED
      BY <3>2, <3>3, <3>4
  <2> QED
    BY <2>3, <2>4 DEF RoomInv
<1>7. ASSUME NEW s \in Sides, Write(s) PROVE RoomInv'
  <2> DEFINE half == [line |-> said[s], part |-> Block + 1 - todo[s], crypt |-> crypt[s]]
  <2>1. /\ at[s] = "write" /\ Len(snd[s]) < SndBuf
        /\ snd' = [snd EXCEPT ![s] = Append(@, half)]
        /\ todo' = [todo EXCEPT ![s] = todo[s] - 1]
        /\ at' = [at EXCEPT ![s] = IF todo[s] - 1 = 0 THEN "select" ELSE "write"]
        /\ UNCHANGED <<said, rcv>>
    BY <1>7 DEF Write, Left, Written
  <2> HIDE DEF half
  <2>2. Len(snd'[s]) = Len(snd[s]) + 1
    BY <2>1 DEF ChatTypeOK
  <2>3. ASSUME NEW t \in Sides
        PROVE  /\ Len(snd'[t]) <= SndBuf /\ Len(rcv'[t]) <= RcvBuf
               /\ at'[t] = "write" => at[t] = "write" /\ todo'[t] > 0 /\ said'[t] > 0
    BY <2>1, <2>2, ChatAssumption DEF RoomInv, ChatTypeOK, Block
  <2>4. ASSUME NEW t \in Sides PROVE OnItsWay(t)' = OnItsWay(t)
    <3>1. CASE t = s
      <4>1. todo'[s] = todo[s] - 1 /\ todo[s] \in Int /\ Len(snd[s]) \in Int /\ Len(rcv[Peer(s)]) \in Int
        BY <2>1, PeerFacts DEF ChatTypeOK, Block
      <4> QED
        BY <2>1, <2>2, <3>1, <4>1 DEF OnItsWay
    <3>2. CASE t # s
      BY <2>1, <3>2 DEF OnItsWay, ChatTypeOK
    <3> QED
      BY <3>1, <3>2
  <2>5. ASSUME NEW t \in Sides PROVE OnItsWay(t)' <= OnItsWay(t)
    <3>1. OnItsWay(t) \in Int
      BY Sizes
    <3> QED
      BY <2>4, <3>1
  <2> QED
    BY <2>3, <2>5, RoomKept
<1>8. ASSUME NEW s \in Sides, ReadBlock(s) PROVE RoomInv'
  <2>1. /\ rcv' = [rcv EXCEPT ![s] = SubSeq(@, ToRead(s) + 1, Len(@))]
        /\ UNCHANGED <<at, said, todo, snd>>
    BY <1>8 DEF ReadBlock
  <2>2. ToRead(s) \in 0 .. Len(rcv[s]) /\ rcv[s] \in Seq(Half)
    BY DEF ToRead, ChatTypeOK, Block
  <2>3. Len(SubSeq(rcv[s], ToRead(s) + 1, Len(rcv[s]))) = Len(rcv[s]) - ToRead(s)
    BY <2>2
  <2>4. ASSUME NEW t \in Sides
        PROVE Len(rcv'[t]) <= Len(rcv[t])
    <3>1. CASE t = s
      BY <2>1, <2>2, <2>3, <3>1 DEF ChatTypeOK
    <3>2. CASE t # s
      BY <2>1, <3>2, Sizes DEF ChatTypeOK
    <3> QED
      BY <3>1, <3>2
  <2>5. ASSUME NEW t \in Sides
        PROVE  /\ Len(snd'[t]) <= SndBuf /\ Len(rcv'[t]) <= RcvBuf
               /\ at'[t] = "write" => at[t] = "write" /\ todo'[t] > 0 /\ said'[t] > 0
    <3>1. /\ Len(snd[t]) <= SndBuf /\ Len(rcv[t]) <= RcvBuf
          /\ at[t] = "write" => todo[t] > 0 /\ said[t] > 0
      BY DEF RoomInv
    <3>2. Len(rcv'[t]) <= Len(rcv[t]) /\ Len(rcv'[t]) \in Nat /\ Len(rcv[t]) \in Nat
      BY <2>4, Sizes, SizesNext
    <3>3. at' = at /\ todo' = todo /\ said' = said /\ snd' = snd /\ RcvBuf \in Int
      BY <2>1, ChatAssumption
    <3>4. Len(rcv'[t]) <= RcvBuf
      BY <3>1, <3>2, <3>3
    <3> QED
      BY <3>1, <3>3, <3>4
  <2>6. ASSUME NEW t \in Sides PROVE OnItsWay(t)' <= OnItsWay(t)
    <3>0. todo' = todo /\ snd' = snd
      BY <2>1
    <3>1. Len(rcv'[Peer(t)]) <= Len(rcv[Peer(t)])
      BY <2>4, PeerFacts
    <3> QED
      <4>1. /\ todo[t] \in Int /\ Len(snd[t]) \in Int
            /\ Len(rcv[Peer(t)]) \in Int /\ Len(rcv'[Peer(t)]) \in Int
        BY Sizes, SizesNext
      <4> QED
        BY <3>0, <3>1, <4>1 DEF OnItsWay
  <2> QED
    BY <2>5, <2>6, RoomKept
<1>9. ASSUME NEW s \in Sides, ReadEof(s) PROVE RoomInv'
  BY <1>9, LeaveClosed DEF ReadEof
<1>10. ASSUME NEW s \in Sides, ReadError(s) PROVE RoomInv'
  <2>1. CASE IsServer(s)
    BY <1>10, <2>1, RoomClosed DEF ReadError
  <2>2. CASE ~IsServer(s)
    BY <1>10, <2>2, LeaveClosed DEF ReadError
  <2> QED
    BY <2>1, <2>2
<1>11. ASSUME NEW s \in Sides, SocketWriteFails(s) PROVE RoomInv'
  BY <1>11, LeaveClosed DEF SocketWriteFails
<1>12. ASSUME NEW s \in Sides, Deliver(s) PROVE RoomInv'
  <2>1. CASE closed[Peer(s)]
    BY <1>12, <2>1, RoomClosed DEF Deliver, sideVars, ChatTypeOK
  <2>2. CASE ~closed[Peer(s)]
    <3>1. /\ snd[s] # << >> /\ Len(rcv[Peer(s)]) < RcvBuf
          /\ snd' = [snd EXCEPT ![s] = Tail(@)]
          /\ rcv' = [rcv EXCEPT ![Peer(s)] = Append(@, Head(snd[s]))]
          /\ UNCHANGED <<at, said, todo>>
      BY <1>12, <2>2 DEF Deliver, sideVars
    <3>2. Peer(s) \in Sides /\ Peer(Peer(s)) = s /\ Peer(s) # s
      BY PeerFacts
    <3>3. Len(snd'[s]) = Len(snd[s]) - 1 /\ Len(rcv'[Peer(s)]) = Len(rcv[Peer(s)]) + 1
      BY <3>1, <3>2, HeadTailProperties DEF ChatTypeOK
    <3>4. ASSUME NEW t \in Sides
          PROVE  /\ Len(snd'[t]) <= SndBuf /\ Len(rcv'[t]) <= RcvBuf
                 /\ at'[t] = "write" => at[t] = "write" /\ todo'[t] > 0 /\ said'[t] > 0
      <4>1. /\ Len(snd[t]) <= SndBuf /\ Len(rcv[t]) <= RcvBuf
            /\ at[t] = "write" => todo[t] > 0 /\ said[t] > 0
        BY DEF RoomInv
      <4>2. Len(snd[t]) \in Int /\ Len(rcv[t]) \in Int
        BY Sizes
      <4>3. Len(snd'[t]) <= SndBuf
        <5>1. CASE t = s
          BY <3>3, <4>1, <4>2, <5>1, ChatAssumption
        <5>2. CASE t # s
          BY <3>1, <4>1, <5>2 DEF ChatTypeOK
        <5> QED
          BY <5>1, <5>2
      <4>4. Len(rcv'[t]) <= RcvBuf
        <5>1. CASE t = Peer(s)
          BY <3>1, <3>3, <4>2, <5>1, ChatAssumption
        <5>2. CASE t # Peer(s)
          BY <3>1, <4>1, <5>2 DEF ChatTypeOK
        <5> QED
          BY <5>1, <5>2
      <4> QED
        BY <3>1, <4>1, <4>3, <4>4
    <3>5. ASSUME NEW t \in Sides PROVE OnItsWay(t)' <= OnItsWay(t)
      <4>1. CASE t = s
        <5>1. todo[s] \in Int /\ Len(snd[s]) \in Int /\ Len(rcv[Peer(s)]) \in Int
          BY <3>2 DEF ChatTypeOK, Block
        <5> QED
          BY <3>1, <3>3, <4>1, <5>1 DEF OnItsWay
      <4>2. CASE t # s
        <5>1. Peer(t) \in Sides /\ Peer(t) # Peer(s)
          BY <3>2, <4>2, PeerFacts
        <5>2. OnItsWay(t)' = OnItsWay(t)
          BY <3>1, <4>2, <5>1 DEF OnItsWay, ChatTypeOK
        <5> QED
          BY <5>2, Sizes
      <4> QED
        BY <4>1, <4>2
    <3> QED
      BY <3>4, <3>5, RoomKept
  <2> QED
    BY <2>1, <2>2
<1> QED
  BY <1>1, <1>2, <1>3, <1>4, <1>5, <1>6, <1>7, <1>8, <1>9, <1>10, <1>11, <1>12 DEF ChatNext, Goes

-----------------------------------------------------------------------------
(* The order of the halves concerns no more than this.                     *)
LEMMA OrderFrame ==
  ASSUME NEW s \in Sides, InOrder(s),
         snd'[s] = snd[s], rcv'[Peer(s)] = rcv[Peer(s)], shown'[Peer(s)] = shown[Peer(s)],
         said'[s] = said[s], todo'[s] = todo[s], crypt'[s] = crypt[s],
         at'[s] = "write" => at[s] = "write"
  PROVE  InOrder(s)'
<1>1. OnItsWay(s)' = OnItsWay(s)
  BY DEF OnItsWay
<1> QED
  BY <1>1 DEF InOrder, IsNth

(* A side that leaves says no more; nothing else changes but its sockets.  *)
LEMMA LeaveSides ==
  ASSUME ChatTypeOK, StreamInv, NEW s \in Sides, Leave(s),
         UNCHANGED netVars \/ CloseAll({s}, {}), NEW t \in Sides
  PROVE  SideInv(t)' /\ (Intact(t)' => InOrder(t)')
<1> DEFINE p == Peer(t)
<1>0. p \in Sides /\ SideInv(t) /\ (Intact(t) => InOrder(t))
  BY PeerFacts DEF StreamInv
<1>1. /\ at' = [at EXCEPT ![s] = "gone"] /\ said' = [said EXCEPT ![s] = 0]
      /\ todo' = [todo EXCEPT ![s] = 0] /\ crypt' = [crypt EXCEPT ![s] = FALSE]
      /\ shown' = [shown EXCEPT ![s] = << >>] /\ short' = [short EXCEPT ![s] = FALSE]
      /\ session' = (session /\ ~IsServer(s))
  BY DEF Leave
<1>2. /\ reset'[t] => reset[t] \/ (p = s /\ closed'[p])
      /\ closed[t] => closed'[t]
      /\ closed[p] => closed'[p]
      /\ t # s => snd'[t] = snd[t]
      /\ p # s => rcv'[p] = rcv[p]
  <2>1. CASE UNCHANGED netVars
    <3>1. reset' = reset /\ closed' = closed /\ snd' = snd /\ rcv' = rcv
      BY <2>1 DEF netVars
    <3> QED
      BY <3>1, Zenon
  <2>2. CASE CloseAll({s}, {})
    <3>1. \A v \in Sides :
            /\ v \in {s} => closed'[v]
            /\ v \notin {s} => snd'[v] = snd[v] /\ rcv'[v] = rcv[v]
            /\ reset'[v] => reset[v] \/ Peer(v) \in {s}
            /\ closed[v] => closed'[v]
      BY <2>2, Closing, Zenon
    <3> QED
      BY <1>0, <3>1, Zenon
  <2> QED
    BY <2>1, <2>2
<1>3. SideInv(t)'
  <2>1. reset'[t] => closed'[p]
    BY <1>0, <1>2 DEF SideInv
  <2>2. IsServer(t) /\ at'[t] = "gone" => ~session'
    <3>1. t # s => at'[t] = at[t]
      BY <1>1 DEF ChatTypeOK
    <3> QED
      BY <1>0, <1>1, <3>1 DEF SideInv
  <2>3. at'[t] # "write" => todo'[t] = 0
    BY <1>0, <1>1 DEF SideInv, ChatTypeOK
  <2> QED
    BY <2>1, <2>2, <2>3 DEF SideInv
<1>4. ASSUME Intact(t)' PROVE InOrder(t)'
  <2>1. t # s /\ p # s
    BY <1>0, <1>1, <1>4 DEF Intact, ChatTypeOK
  <2>2. /\ at'[t] = at[t] /\ said'[t] = said[t] /\ todo'[t] = todo[t] /\ crypt'[t] = crypt[t]
        /\ short'[t] = short[t] /\ at'[p] = at[p] /\ shown'[p] = shown[p] /\ short'[p] = short[p]
        /\ session' => session
    BY <1>0, <1>1, <2>1 DEF ChatTypeOK
  <2>3. InOrder(t)
    BY <1>0, <1>2, <1>4, <2>2 DEF Intact
  <2> QED
    BY <1>2, <2>1, <2>2, <2>3, OrderFrame
<1> QED
  BY <1>3, <1>4

(* A number belongs to one half of one line. *)
LEMMA HalfNumber ==
  ASSUME NEW n \in Nat, NEW line \in Nat, NEW part \in 1 .. 2
  PROVE  /\ 2 * (line - 1) + part = 2 * n + 1 => line = n + 1 /\ part = 1
         /\ 2 * (line - 1) + part = 2 * n + 2 => line = n + 1 /\ part = 2
  OBVIOUS

(* The halves are written, sent, read and shown in order.                  *)
LEMMA StepStream ==
  ChatTypeOK /\ ChatTypeOK' /\ RoomInv /\ StreamInv /\ [ChatNext]_chatVars => StreamInv'
<1> SUFFICES ASSUME ChatTypeOK, ChatTypeOK', RoomInv, StreamInv, [ChatNext]_chatVars,
                    NEW t \in Sides
             PROVE  SideInv(t)' /\ (Intact(t)' => InOrder(t)')
  BY DEF StreamInv
<1> DEFINE p == Peer(t)
           Goal == SideInv(t)' /\ (Intact(t)' => InOrder(t)')
<1>0. /\ p \in Sides /\ p # t /\ SideInv(t) /\ SideInv(p) /\ (Intact(t) => InOrder(t))
      /\ Peer(p) = t
  BY PeerFacts DEF StreamInv
<1>1. CASE UNCHANGED chatVars
  <2>1. Intact(t)' => Intact(t)
    BY <1>1 DEF chatVars, Intact
  <2>2. InOrder(t) => InOrder(t)'
    BY <1>1, OrderFrame DEF chatVars
  <2>3. SideInv(t)'
    BY <1>0, <1>1 DEF chatVars, SideInv
  <2> QED
    BY <1>0, <2>1, <2>2, <2>3
<1>2. ASSUME NEW c \in Clients, Connect(c) PROVE Goal
  <2>1. /\ at[ClientSide(c)] = "none" /\ at' = [at EXCEPT ![ClientSide(c)] = "select"]
        /\ UNCHANGED <<session, said, todo, crypt, snd, rcv, closed, reset, shown, short>>
    BY <1>2 DEF Connect, netVars
  <2>2. /\ at'[t] = "gone" => at[t] = "gone"
        /\ at[t] = "gone" => at'[t] = "gone"
        /\ at[p] = "gone" => at'[p] = "gone"
        /\ at'[t] = "write" => at[t] = "write"
        /\ at[t] = "write" => at'[t] = "write"
    BY <1>0, <2>1 DEF ChatTypeOK
  <2>3. Intact(t)' => Intact(t)
    BY <2>1, <2>2 DEF Intact
  <2>4. InOrder(t) => InOrder(t)'
    BY <2>1, <2>2, OrderFrame
  <2>5. SideInv(t)'
    BY <1>0, <2>1, <2>2 DEF SideInv
  <2> QED
    BY <1>0, <2>3, <2>4, <2>5
<1>3. ASSUME NEW c \in Clients, ClientEnds(c) PROVE Goal
  BY <1>3, LeaveSides, SidesOf DEF ClientEnds
<1>4. CASE Accept
  <2> DEFINE u == ServerSide(Head(backlog))
  <2>1. /\ at' = [at EXCEPT ![u] = "select"]
        /\ UNCHANGED <<session, said, todo, crypt, snd, rcv, closed, reset, shown, short>>
        /\ backlog # << >> /\ ~Serving
    BY <1>4 DEF Accept, netVars
  <2>2. Head(backlog) \in Clients
    BY <2>1, HeadTailProperties DEF ChatTypeOK
  <2>3. u \in Sides /\ IsServer(u) /\ at[u] # "write"
    BY <2>1, <2>2, SidesOf DEF Serving, Talking
  <2> HIDE DEF u
  <2>4. SideInv(u)
    BY <2>3 DEF StreamInv
  <2>5. /\ at'[t] = "gone" => at[t] = "gone"
        /\ at'[t] = "write" => at[t] = "write"
        /\ at[t] = "write" => at'[t] = "write"
        /\ (session /\ at[t] = "gone") => at'[t] = "gone"
        /\ (session /\ at[p] = "gone") => at'[p] = "gone"
    BY <1>0, <2>1, <2>3, <2>4 DEF ChatTypeOK, SideInv
  <2>6. Intact(t)' => Intact(t)
    BY <2>1, <2>5 DEF Intact
  <2>7. InOrder(t) => InOrder(t)'
    BY <2>1, <2>5, OrderFrame
  <2>8. SideInv(t)'
    BY <1>0, <2>1, <2>5 DEF SideInv
  <2> QED
    BY <1>0, <2>6, <2>7, <2>8
<1>5. CASE ServerEnds
  <2>1. session' = FALSE
    BY <1>5 DEF ServerEnds
  <2>2. PICK S, U : CloseAll(S, U)
    BY <1>5 DEF ServerEnds
  <2>3. reset'[t] => closed'[p]
    BY <1>0, <2>2, Closing, Zenon DEF SideInv
  <2>4. at'[t] # "write" => todo'[t] = 0
    BY <1>0, <1>5 DEF ServerEnds, SideInv
  <2> QED
    BY <2>1, <2>3, <2>4 DEF SideInv, Intact
<1>6. ASSUME NEW s \in Sides, Talk(s) PROVE Goal
  <2>1. /\ at[s] = "select" /\ at' = [at EXCEPT ![s] = "write"]
        /\ said' = [said EXCEPT ![s] = said[s] + 1] /\ todo' = [todo EXCEPT ![s] = Block]
        /\ crypt' = [crypt EXCEPT ![s] = HasSession(s)]
        /\ UNCHANGED <<session, snd, rcv, closed, reset, shown, short>>
    BY <1>6 DEF Talk, netVars
  <2>2. /\ at'[t] = "gone" => at[t] = "gone"
        /\ at[t] = "gone" => at'[t] = "gone"
        /\ at[p] = "gone" => at'[p] = "gone"
    BY <1>0, <2>1 DEF ChatTypeOK
  <2>3. Intact(t)' => Intact(t)
    BY <2>1, <2>2 DEF Intact
  <2>4. at'[t] # "write" => at[t] # "write" /\ todo'[t] = todo[t]
    BY <2>1 DEF ChatTypeOK
  <2>5. SideInv(t)'
    BY <1>0, <2>1, <2>2, <2>4 DEF SideInv
  <2>6. CASE t # s
    <3>1. at'[t] = at[t] /\ said'[t] = said[t] /\ todo'[t] = todo[t] /\ crypt'[t] = crypt[t]
      BY <2>1, <2>6 DEF ChatTypeOK
    <3> QED
      BY <1>0, <2>1, <2>3, <2>5, <3>1, OrderFrame
  <2>7. CASE t = s
    <3>1. ASSUME Intact(t)', InOrder(t) PROVE InOrder(t)'
      <4>1. todo[t] = 0
        BY <1>0, <2>1, <2>7 DEF SideInv
      <4>2. said'[t] = said[t] + 1 /\ todo'[t] = Block /\ said[t] \in Int
        BY <2>1, <2>7 DEF ChatTypeOK
      <4>3. crypt'[t]
        BY <2>1, <2>7, <3>1, Zenon DEF HasSession, Intact, ChatTypeOK
      <4>4. Block * said'[t] = Block * Len(shown[p]) + OnItsWay(t)'
        <5> DEFINE h == said[t]
                   i == Len(snd[t])
                   j == Len(rcv[p])
                   n == Len(shown[p])
        <5>1. h \in Int /\ i \in Int /\ j \in Int /\ n \in Int
          BY <1>0, <4>2, Sizes DEF ChatTypeOK
        <5>2. Block * h = Block * n + (0 + i + j)
          BY <3>1, <4>1 DEF InOrder, OnItsWay
        <5>3. OnItsWay(t)' = Block + i + j
          BY <2>1, <4>2 DEF OnItsWay
        <5> HIDE DEF h, i, j, n
        <5>4. Block * (h + 1) = Block * n + (Block + i + j)
          BY <5>1, <5>2 DEF Block
        <5> QED
          BY <4>2, <5>3, <5>4 DEF h, i, j, n
      <4> QED
        BY <2>1, <3>1, <4>3, <4>4 DEF InOrder
    <3> QED
      BY <1>0, <2>3, <2>5, <3>1
  <2> QED
    BY <2>6, <2>7
<1>7. ASSUME NEW s \in Sides, Write(s) PROVE Goal
  <2> DEFINE half == [line |-> said[s], part |-> Block + 1 - todo[s], crypt |-> crypt[s]]
  <2>1. /\ at[s] = "write"
        /\ snd' = [snd EXCEPT ![s] = Append(snd[s], half)]
        /\ todo' = [todo EXCEPT ![s] = todo[s] - 1]
        /\ at' = [at EXCEPT ![s] = IF todo[s] - 1 = 0 THEN "select" ELSE "write"]
        /\ UNCHANGED <<session, said, crypt, rcv, closed, reset, shown, short>>
    BY <1>7 DEF Write, Left, Written
  <2>2. half.crypt = crypt[s] /\ half.line = said[s] /\ half.part = Block + 1 - todo[s]
    OBVIOUS
  <2> HIDE DEF half
  <2>3. /\ at'[t] = "gone" => at[t] = "gone"
        /\ at[t] = "gone" => at'[t] = "gone"
        /\ at[p] = "gone" => at'[p] = "gone"
        /\ at'[t] = "write" => at[t] = "write"
    BY <1>0, <2>1 DEF ChatTypeOK
  <2>4. Intact(t)' => Intact(t)
    BY <2>1, <2>3 DEF Intact
  <2>5. at'[t] # "write" => todo'[t] = 0
    BY <1>0, <2>1 DEF SideInv, ChatTypeOK, Block
  <2>6. SideInv(t)'
    BY <1>0, <2>1, <2>3, <2>5 DEF SideInv
  <2>7. CASE t # s
    <3>1. todo'[t] = todo[t] /\ snd'[t] = snd[t]
      BY <2>1, <2>7 DEF ChatTypeOK
    <3> QED
      BY <1>0, <2>1, <2>3, <2>4, <2>6, <3>1, OrderFrame
  <2>8. CASE t = s
    <3>1. ASSUME InOrder(t) PROVE InOrder(t)'
      <4> DEFINE past == Block * Len(shown[p])
      <4>1. snd'[t] = Append(snd[t], half) /\ snd[t] \in Seq(Half)
        BY <2>1, <2>8 DEF ChatTypeOK
      <4>2. /\ Len(snd'[t]) = Len(snd[t]) + 1
            /\ \A k \in 1 .. Len(snd[t]) : snd'[t][k] = snd[t][k]
            /\ snd'[t][Len(snd[t]) + 1] = half
        BY <4>1
      <4>3. /\ todo'[t] = todo[t] - 1 /\ todo[t] \in Int /\ said[t] \in Int
            /\ Len(snd[t]) \in Nat /\ Len(rcv[p]) \in Nat /\ Len(shown[p]) \in Nat
        BY <1>0, <2>1, <2>8, Sizes DEF ChatTypeOK
      <4>4. Block * said[t] = past + (todo[t] + Len(snd[t]) + Len(rcv[p]))
        BY <3>1 DEF InOrder, OnItsWay
      <4>5. Block * said'[t] = past + OnItsWay(t)'
        <5>1. said'[t] = said[t] /\ Len(rcv'[p]) = Len(rcv[p]) /\ Len(snd'[t]) = Len(snd[t]) + 1
          BY <2>1, <4>2
        <5>2. OnItsWay(t)' = todo[t] + Len(snd[t]) + Len(rcv[p])
          <6>1. \A i, j, k \in Int : (i - 1) + (j + 1) + k = i + j + k
            OBVIOUS
          <6>2. OnItsWay(t)' = (todo[t] - 1) + (Len(snd[t]) + 1) + Len(rcv[p])
            BY <4>3, <5>1 DEF OnItsWay
          <6> QED
            BY <4>3, <6>1, <6>2
        <5> QED
          BY <4>4, <5>1, <5>2
      <4>6. IsNth(half, past + Len(rcv[p]) + (Len(snd[t]) + 1))
        <5>1. half.crypt
          BY <2>1, <2>2, <2>8, <3>1, Zenon DEF InOrder
        <5> DEFINE h == said[t]
                   i == todo[t]
                   j == Len(snd[t])
                   n == Len(rcv[p])
        <5>2. h \in Int /\ i \in Int /\ j \in Int /\ n \in Int /\ past \in Int
          BY <4>3 DEF Block
        <5>3. Block * h = past + (i + j + n)
          BY <4>4
        <5>4. half.line = h /\ half.part = Block + 1 - i
          BY <2>2, <2>8
        <5> HIDE DEF h, i, j, n, past
        <5>5. Block * (h - 1) + (Block + 1 - i) = past + n + (j + 1)
          BY <5>2, <5>3 DEF Block
        <5>6. Block * (half.line - 1) + half.part = past + n + (j + 1)
          BY <5>4, <5>5
        <5> QED
          BY <5>1, <5>6 DEF IsNth, n, j, past
      <4>7. \A k \in 1 .. Len(snd[t]) : IsNth(snd[t][k], past + Len(rcv[p]) + k)
        BY <3>1 DEF InOrder
      <4>8. \A k \in 1 .. Len(snd'[t]) : IsNth(snd'[t][k], past + Len(rcv[p]) + k)
        <5> SUFFICES ASSUME NEW k \in 1 .. Len(snd'[t])
                     PROVE  IsNth(snd'[t][k], past + Len(rcv[p]) + k)
          OBVIOUS
        <5>1. CASE k = Len(snd[t]) + 1
          BY <4>2, <4>6, <5>1
        <5>2. CASE k # Len(snd[t]) + 1
          <6>1. k \in 1 .. Len(snd[t])
            BY <4>2, <4>3, <5>2
          <6> QED
            BY <4>2, <4>7, <6>1
        <5> QED
          BY <5>1, <5>2
      <4>9. /\ shown[p] = [k \in 1 .. Len(shown[p]) |-> k]
            /\ \A k \in 1 .. Len(rcv[p]) : IsNth(rcv[p][k], past + k)
            /\ crypt[t]
        BY <2>1, <2>8, <3>1 DEF InOrder
      <4> QED
        BY <2>1, <4>5, <4>8, <4>9 DEF InOrder, IsNth
    <3> QED
      BY <1>0, <2>4, <2>6, <3>1
  <2> QED
    BY <2>7, <2>8
<1>8. ASSUME NEW s \in Sides, ReadBlock(s) PROVE Goal
  <2> DEFINE halves == SubSeq(rcv[s], 1, ToRead(s))
             line == Decrypted(s, halves)
  <2>1. /\ shown' = [shown EXCEPT ![s] = Append(shown[s], line)]
        /\ short' = [short EXCEPT ![s] = short[s] \/ ToRead(s) < Block]
        /\ rcv' = [rcv EXCEPT ![s] = SubSeq(rcv[s], ToRead(s) + 1, Len(rcv[s]))]
        /\ UNCHANGED <<session, at, said, todo, crypt, snd, closed, reset>>
    BY <1>8 DEF ReadBlock
  <2> HIDE DEF line
  <2>2. SideInv(t)'
    BY <1>0, <2>1 DEF SideInv
  <2>3. ASSUME NEW v \in Sides, ~short'[v]
        PROVE  ~short[v] /\ (v = s => ~(ToRead(s) < Block))
    BY <2>1, <2>3, Zenon DEF ChatTypeOK
  <2>4. Intact(t)' => Intact(t)
    BY <1>0, <2>1, <2>3 DEF Intact
  <2>5. CASE p # s
    <3>1. rcv'[p] = rcv[p] /\ shown'[p] = shown[p]
      BY <1>0, <2>1, <2>5 DEF ChatTypeOK
    <3> QED
      BY <1>0, <2>1, <2>2, <2>4, <3>1, OrderFrame
  <2>6. CASE p = s
    <3>1. ASSUME Intact(t)', InOrder(t) PROVE InOrder(t)'
      <4> DEFINE past == Block * Len(shown[p])
                 new == SubSeq(rcv[p], Block + 1, Len(rcv[p]))
      <4>0. Len(rcv[p]) \in Nat /\ Len(shown[p]) \in Nat
        BY <1>0, LenProperties DEF ChatTypeOK
      <4>1. rcv[p] \in Seq(Half) /\ shown[p] \in Seq(Nat) /\ Len(rcv[p]) \in Nat /\ Len(shown[p]) \in Nat
        BY <1>0, <4>0 DEF ChatTypeOK
      <4>2. ToRead(s) = Block /\ Len(rcv[p]) >= Block
        <5>1. ~(ToRead(s) < Block)
          BY <1>0, <2>3, <2>6, <3>1 DEF Intact
        <5> QED
          BY <2>6, <4>1, <5>1 DEF ToRead, Block
      <4>3. Len(new) = Len(rcv[p]) - Block /\ \A k \in 1 .. Len(new) : new[k] = rcv[p][k + Block]
        BY <4>1, <4>2 DEF Block
      <4>4. Len(halves) = Block /\ halves[1] = rcv[p][1] /\ halves[2] = rcv[p][2]
        BY <2>6, <4>1, <4>2 DEF Block
      <4>5. rcv'[p] = new /\ shown'[p] = Append(shown[p], line)
        BY <1>0, <2>1, <2>6, <4>2 DEF ChatTypeOK
      <4> HIDE DEF new, halves
      <4>6. IsNth(rcv[p][1], past + 1) /\ IsNth(rcv[p][2], past + 2)
        BY <3>1, <4>1, <4>2 DEF InOrder, Block
      <4>7. rcv[p][1] \in Half /\ rcv[p][2] \in Half
        BY <4>1, <4>2, ElementOfSeq DEF Block
      <4>8. /\ rcv[p][1].line = Len(shown[p]) + 1 /\ rcv[p][1].part = 1
            /\ rcv[p][2].line = Len(shown[p]) + 1 /\ rcv[p][2].part = 2
        <5>1. /\ rcv[p][1].line \in Nat /\ rcv[p][1].part \in 1 .. 2
              /\ rcv[p][2].line \in Nat /\ rcv[p][2].part \in 1 .. 2
          BY <4>7 DEF Half, Block
        <5>2. /\ 2 * (rcv[p][1].line - 1) + rcv[p][1].part = 2 * Len(shown[p]) + 1
              /\ 2 * (rcv[p][2].line - 1) + rcv[p][2].part = 2 * Len(shown[p]) + 2
          BY <4>6 DEF IsNth, Block
        <5> DEFINE a == rcv[p][1]
                   b == rcv[p][2]
                   n == Len(shown[p])
        <5>3. /\ n \in Nat
              /\ a.line \in Nat /\ a.part \in 1 .. 2 /\ 2 * (a.line - 1) + a.part = 2 * n + 1
              /\ b.line \in Nat /\ b.part \in 1 .. 2 /\ 2 * (b.line - 1) + b.part = 2 * n + 2
          BY <4>0, <5>1, <5>2
        <5> HIDE DEF a, b, n
        <5>4. a.line = n + 1 /\ a.part = 1
          BY <5>3, HalfNumber
        <5>5. b.line = n + 1 /\ b.part = 2
          BY <5>3, HalfNumber
        <5> QED
          BY <5>4, <5>5 DEF a, b, n
      <4>9. HasSession(s) = TRUE
        BY <3>1, <2>1, Zenon DEF HasSession, Intact, ChatTypeOK
      <4>10. rcv[p][1].crypt = TRUE /\ rcv[p][2].crypt = TRUE
        <5>1. rcv[p][1].crypt \in BOOLEAN /\ rcv[p][2].crypt \in BOOLEAN
          BY <4>7 DEF Half
        <5> QED
          BY <4>6, <5>1, Zenon DEF IsNth
      <4>11. line = Len(shown[p]) + 1
        <5>1. \A k \in 1 .. Block : k = 1 \/ k = 2
          BY DEF Block
        <5>2. ASSUME NEW k \in 1 .. Block
              PROVE  halves[k].part = k /\ halves[k].line = halves[1].line /\ halves[k].crypt = HasSession(s)
          BY <4>4, <4>8, <4>9, <4>10, <5>1
        <5> QED
          BY <4>4, <4>8, <5>2 DEF Decrypted, line
      <4>12. /\ Len(shown'[p]) = Len(shown[p]) + 1
             /\ shown'[p] = [k \in 1 .. Len(shown'[p]) |-> k]
        <5>1. shown[p] = [k \in 1 .. Len(shown[p]) |-> k]
          BY <3>1 DEF InOrder
        <5>2. Len(shown'[p]) = Len(shown[p]) + 1
          BY <4>1, <4>5, <4>11
        <5>3. /\ shown'[p] \in Seq(Nat)
              /\ \A k \in 1 .. Len(shown[p]) : shown'[p][k] = shown[p][k]
              /\ shown'[p][Len(shown[p]) + 1] = Len(shown[p]) + 1
          BY <4>1, <4>5, <4>11
        <5>4. \A k \in 1 .. Len(shown[p]) : shown[p][k] = k
          BY <5>1
        <5>5. ASSUME NEW k \in 1 .. Len(shown'[p]) PROVE shown'[p][k] = k
          <6>1. CASE k = Len(shown[p]) + 1
            BY <5>3, <6>1
          <6>2. CASE k # Len(shown[p]) + 1
            <7>1. k \in 1 .. Len(shown[p])
              BY <4>0, <5>2, <6>2
            <7> QED
              BY <5>3, <5>4, <7>1
          <6> QED
            BY <6>1, <6>2
        <5>6. shown'[p] = [k \in 1 .. Len(shown'[p]) |-> shown'[p][k]]
          BY <5>3
        <5> QED
          BY <5>2, <5>5, <5>6
      <4>13. Block * said'[t] = Block * Len(shown'[p]) + OnItsWay(t)'
        <5> DEFINE h == said[t]
                   i == todo[t]
                   j == Len(snd[t])
                   m == Len(rcv[p])
                   n == Len(shown[p])
        <5>1. h \in Int /\ i \in Int /\ j \in Int /\ m \in Int /\ n \in Int
          BY <4>0, Sizes DEF ChatTypeOK
        <5>2. Block * h = Block * n + (i + j + m)
          BY <3>1 DEF InOrder, OnItsWay
        <5>3. OnItsWay(t)' = i + j + (m - Block)
          BY <2>1, <4>3, <4>5 DEF OnItsWay
        <5>4. said'[t] = h /\ Len(shown'[p]) = n + 1
          BY <2>1, <4>12
        <5> HIDE DEF h, i, j, m, n
        <5>5. Block * h = Block * (n + 1) + (i + j + (m - Block))
          BY <5>1, <5>2 DEF Block
        <5> QED
          BY <5>3, <5>4, <5>5
      <4>14. Block * Len(shown'[p]) = past + Block /\ past \in Int
        BY <4>1, <4>12 DEF Block
      <4>15. \A k \in 1 .. Len(new) : IsNth(new[k], Block * Len(shown'[p]) + k)
        <5> SUFFICES ASSUME NEW k \in 1 .. Len(new)
                     PROVE  IsNth(new[k], Block * Len(shown'[p]) + k)
          OBVIOUS
        <5>1. k + Block \in 1 .. Len(rcv[p])
          BY <4>1, <4>2, <4>3 DEF Block
        <5>2. IsNth(rcv[p][k + Block], past + (k + Block))
          BY <3>1, <5>1 DEF InOrder
        <5>3. past + (k + Block) = Block * Len(shown'[p]) + k
          <6>1. \A n \in Int, j \in Int : n + (j + Block) = (n + Block) + j
            BY DEF Block
          <6>2. k \in Int
            OBVIOUS
          <6> QED
            BY <4>14, <6>1, <6>2
        <5> QED
          BY <4>3, <5>2, <5>3
      <4>16. ASSUME NEW k \in 1 .. Len(snd[t])
             PROVE  IsNth(snd[t][k], Block * Len(shown'[p]) + Len(new) + k)
        <5>1. IsNth(snd[t][k], past + Len(rcv[p]) + k)
          BY <3>1 DEF InOrder
        <5>2. past + Len(rcv[p]) + k = Block * Len(shown'[p]) + Len(new) + k
          <6>1. \A n \in Int, m \in Int, j \in Int : n + m + j = (n + Block) + (m - Block) + j
            BY DEF Block
          <6>2. k \in Int /\ Len(rcv[p]) \in Int
            BY <4>0
          <6> QED
            BY <4>3, <4>14, <6>1, <6>2
        <5> QED
          BY <5>1, <5>2
      <4>17. at'[t] = "write" => crypt'[t]
        BY <2>1, <3>1 DEF InOrder
      <4> QED
        BY <2>1, <4>5, <4>12, <4>13, <4>15, <4>16, <4>17 DEF InOrder, IsNth
    <3> QED
      BY <1>0, <2>2, <2>4, <3>1
  <2> QED
    BY <2>5, <2>6
<1>9. ASSUME NEW s \in Sides, ReadEof(s) PROVE Goal
  BY <1>9, LeaveSides DEF ReadEof
<1>10. ASSUME NEW s \in Sides, ReadError(s) PROVE Goal
  <2>1. CASE IsServer(s)
    <3>1. /\ reset[s] /\ reset' = [reset EXCEPT ![s] = FALSE]
          /\ shown' = [shown EXCEPT ![s] = Append(shown[s], 0)]
          /\ UNCHANGED <<session, at, said, todo, crypt, short, snd, rcv, closed>>
      BY <1>10, <2>1 DEF ReadError
    <3>2. closed[Peer(s)]
      BY <3>1 DEF StreamInv, SideInv
    <3>3. reset'[t] => reset[t]
      BY <3>1 DEF ChatTypeOK
    <3>4. SideInv(t)'
      BY <1>0, <3>1, <3>3 DEF SideInv
    <3>5. ASSUME Intact(t)' PROVE InOrder(t)'
      <4>1. Intact(t)
        BY <3>1, <3>5 DEF Intact
      <4>2. p # s
        BY <1>0, <3>2, <4>1 DEF Intact
      <4>3. shown'[p] = shown[p]
        BY <1>0, <3>1, <4>2 DEF ChatTypeOK
      <4> QED
        BY <1>0, <3>1, <4>1, <4>3, OrderFrame
    <3> QED
      BY <3>4, <3>5
  <2>2. CASE ~IsServer(s)
    BY <1>10, <2>2, LeaveSides DEF ReadError
  <2> QED
    BY <2>1, <2>2
<1>11. ASSUME NEW s \in Sides, SocketWriteFails(s) PROVE Goal
  BY <1>11, LeaveSides DEF SocketWriteFails
<1>12. ASSUME NEW s \in Sides, Deliver(s) PROVE Goal
  <2>0. /\ UNCHANGED <<session, at, said, todo, crypt, closed, shown, short>>
        /\ Peer(s) \in Sides /\ Peer(Peer(s)) = s /\ Peer(s) # s
    BY <1>12, PeerFacts DEF Deliver, sideVars
  <2>1. Intact(t)' => Intact(t)
    BY <2>0 DEF Intact
  <2>2. CASE closed[Peer(s)]
    <3>1. /\ snd' = [snd EXCEPT ![s] = << >>, ![Peer(s)] = << >>]
          /\ reset' = [reset EXCEPT ![s] = ~closed[s]]
          /\ UNCHANGED rcv
      BY <1>12, <2>2 DEF Deliver
    <3>2. t # s => reset'[t] = reset[t]
      BY <3>1 DEF ChatTypeOK
    <3>3. SideInv(t)'
      BY <1>0, <2>0, <2>2, <3>2 DEF SideInv
    <3>4. ASSUME Intact(t) PROVE InOrder(t)'
      <4>1. t # s /\ t # Peer(s)
        BY <1>0, <2>0, <2>2, <3>4 DEF Intact
      <4>2. snd'[t] = snd[t]
        BY <3>1, <4>1 DEF ChatTypeOK
      <4> QED
        BY <1>0, <2>0, <3>1, <3>4, <4>2, OrderFrame
    <3> QED
      BY <2>1, <3>3, <3>4
  <2>3. CASE ~closed[Peer(s)]
    <3>1. /\ snd[s] # << >> /\ snd' = [snd EXCEPT ![s] = Tail(snd[s])]
          /\ rcv' = [rcv EXCEPT ![Peer(s)] = Append(rcv[Peer(s)], Head(snd[s]))]
          /\ UNCHANGED reset
      BY <1>12, <2>3 DEF Deliver
    <3>2. SideInv(t)'
      BY <1>0, <2>0, <3>1 DEF SideInv
    <3>3. CASE t # s
      <4>1. p # Peer(s)
        BY <1>0, <2>0, <3>3
      <4>2. snd'[t] = snd[t] /\ rcv'[p] = rcv[p]
        BY <1>0, <3>1, <3>3, <4>1 DEF ChatTypeOK
      <4> QED
        BY <1>0, <2>0, <2>1, <3>2, <4>2, OrderFrame
    <3>4. CASE t = s
      <4>1. ASSUME InOrder(t) PROVE InOrder(t)'
        <5> DEFINE past == Block * Len(shown[p])
        <5>1. /\ snd[t] \in Seq(Half) /\ snd[t] # << >> /\ rcv[p] \in Seq(Half)
              /\ snd'[t] = Tail(snd[t]) /\ rcv'[p] = Append(rcv[p], Head(snd[t]))
          BY <1>0, <3>1, <3>4 DEF ChatTypeOK
        <5>2. /\ Len(snd'[t]) = Len(snd[t]) - 1 /\ Len(snd[t]) \in Nat /\ Len(snd[t]) >= 1
              /\ \A k \in 1 .. Len(snd'[t]) : snd'[t][k] = snd[t][k + 1]
          BY <5>1
        <5>3. /\ Len(rcv'[p]) = Len(rcv[p]) + 1 /\ Len(rcv[p]) \in Nat
              /\ \A k \in 1 .. Len(rcv[p]) : rcv'[p][k] = rcv[p][k]
              /\ rcv'[p][Len(rcv[p]) + 1] = snd[t][1]
          BY <5>1
        <5>4. past \in Int /\ todo[t] \in Int
          BY <1>0, Sizes DEF ChatTypeOK, Block
        <5>5. OnItsWay(t)' = OnItsWay(t)
          <6>1. \A i, j, k \in Int : i + (j - 1) + (k + 1) = i + j + k
            OBVIOUS
          <6>2. OnItsWay(t)' = todo[t] + (Len(snd[t]) - 1) + (Len(rcv[p]) + 1)
            BY <2>0, <5>2, <5>3 DEF OnItsWay
          <6>3. Len(snd[t]) \in Int /\ Len(rcv[p]) \in Int
            BY <5>2, <5>3
          <6>4. todo[t] + (Len(snd[t]) - 1) + (Len(rcv[p]) + 1) = todo[t] + Len(snd[t]) + Len(rcv[p])
            BY <5>4, <6>1, <6>3
          <6> QED
            BY <6>2, <6>4 DEF OnItsWay
        <5>6. \A k \in 1 .. Len(snd'[t]) : IsNth(snd'[t][k], past + Len(rcv'[p]) + k)
          <6> SUFFICES ASSUME NEW k \in 1 .. Len(snd'[t])
                       PROVE  IsNth(snd'[t][k], past + Len(rcv'[p]) + k)
            OBVIOUS
          <6>1. k + 1 \in 1 .. Len(snd[t])
            BY <5>2
          <6>2. IsNth(snd[t][k + 1], past + Len(rcv[p]) + (k + 1))
            BY <4>1, <6>1 DEF InOrder
          <6>3. past + Len(rcv[p]) + (k + 1) = past + Len(rcv'[p]) + k
            <7> DEFINE n == Len(rcv[p])
            <7>1. k \in Int /\ past \in Int /\ n \in Int /\ Len(rcv'[p]) = n + 1
              BY <5>3, <5>4
            <7> HIDE DEF past, n
            <7>2. past + n + (k + 1) = past + (n + 1) + k
              BY <7>1
            <7> QED
              BY <7>1, <7>2 DEF n
          <6> QED
            BY <5>2, <6>2, <6>3
        <5>7. \A k \in 1 .. Len(rcv'[p]) : IsNth(rcv'[p][k], past + k)
          <6> SUFFICES ASSUME NEW k \in 1 .. Len(rcv'[p]) PROVE IsNth(rcv'[p][k], past + k)
            OBVIOUS
          <6>1. CASE k = Len(rcv[p]) + 1
            <7>1. 1 \in 1 .. Len(snd[t])
              BY <5>2
            <7>2. IsNth(snd[t][1], past + Len(rcv[p]) + 1)
              BY <4>1, <7>1 DEF InOrder
            <7>3. past + k = past + Len(rcv[p]) + 1
              BY <5>3, <5>4, <6>1
            <7> QED
              BY <5>3, <6>1, <7>2, <7>3
          <6>2. CASE k # Len(rcv[p]) + 1
            <7>1. k \in 1 .. Len(rcv[p])
              BY <5>3, <6>2
            <7> QED
              BY <4>1, <5>3, <7>1 DEF InOrder
          <6> QED
            BY <6>1, <6>2
        <5> QED
          BY <2>0, <4>1, <5>5, <5>6, <5>7 DEF InOrder, IsNth
      <4> QED
        BY <1>0, <2>1, <3>2, <4>1
    <3> QED
      BY <3>3, <3>4
  <2> QED
    BY <2>2, <2>3
<1> QED
  BY <1>1, <1>2, <1>3, <1>4, <1>5, <1>6, <1>7, <1>8, <1>9, <1>10, <1>11, <1>12 DEF ChatNext, Goes

-----------------------------------------------------------------------------
LEMMA ChatInvariants == ChatSpec => [](ChatTypeOK /\ RoomInv /\ StreamInv)
<1>1. ChatTypeOK /\ RoomInv /\ StreamInv /\ [ChatNext]_chatVars
        => (ChatTypeOK /\ RoomInv /\ StreamInv)'
  BY StepChatTypes, StepRoom, StepStream
<1> QED
  BY InitChat, <1>1, PTL DEF ChatSpec

LEMMA RoomIsEnough == ChatTypeOK /\ RoomInv => SomeoneCanWrite
<1> SUFFICES ASSUME ChatTypeOK, RoomInv, NEW c \in Clients,
                    at[ClientSide(c)] = "write", at[ServerSide(c)] = "write"
             PROVE  \E s \in {ClientSide(c), ServerSide(c)} :
                      Len(snd[s]) < SndBuf \/ Len(rcv[Peer(s)]) < RcvBuf
  BY DEF SomeoneCanWrite
<1>1. /\ ClientSide(c) \in Sides /\ ServerSide(c) \in Sides
      /\ Peer(ClientSide(c)) = ServerSide(c) /\ Peer(ServerSide(c)) = ClientSide(c)
  BY SidesOf
<1>2. PICK s \in {ClientSide(c), ServerSide(c)} : RoomFor(s) /\ todo[s] > 0
  BY <1>1 DEF RoomInv
<1>3. ~(Len(snd[s]) >= SndBuf /\ Len(rcv[Peer(s)]) >= RcvBuf)
  <2> DEFINE i == todo[s]
             j == Len(snd[s])
             n == Len(rcv[Peer(s)])
  <2>1. i \in Int /\ j \in Int /\ n \in Int /\ SndBuf \in Int /\ RcvBuf \in Int
    BY <1>1, Sizes, ChatAssumption
  <2>2. i > 0 /\ i + j + n <= SndBuf + RcvBuf
    BY <1>2 DEF RoomFor, OnItsWay
  <2> HIDE DEF i, j, n
  <2>3. ~(j >= SndBuf /\ n >= RcvBuf)
    BY <2>1, <2>2
  <2> QED
    BY <2>3 DEF j, n
<1>4. Len(snd[s]) \in Int /\ Len(rcv[Peer(s)]) \in Int /\ SndBuf \in Int /\ RcvBuf \in Int
  BY <1>1, Sizes, ChatAssumption
<1>5. Len(snd[s]) < SndBuf \/ Len(rcv[Peer(s)]) < RcvBuf
  BY <1>3, <1>4
<1> QED
  BY <1>5

LEMMA OrderIsShown == ChatTypeOK /\ StreamInv => ShownAsSaid
<1> SUFFICES ASSUME ChatTypeOK, StreamInv, NEW c \in Clients, InSession(c),
                    NEW s \in {ClientSide(c), ServerSide(c)}
             PROVE  /\ shown[s] = [k \in 1 .. Len(shown[s]) |-> k]
                    /\ Block * (said[Peer(s)] - Len(shown[s])) = OnItsWay(Peer(s))
  BY DEF ShownAsSaid
<1>1. s \in Sides /\ Peer(s) \in Sides /\ Peer(Peer(s)) = s /\ Peer(s) \in {ClientSide(c), ServerSide(c)}
  BY SidesOf
<1>2. Intact(Peer(s))
  BY <1>1 DEF InSession, Intact, Talking
<1>3. InOrder(Peer(s))
  BY <1>1, <1>2 DEF StreamInv
<1> DEFINE h == said[Peer(s)]
           n == Len(shown[s])
           w == OnItsWay(Peer(s))
<1>4. h \in Int /\ n \in Int /\ w \in Int
  BY <1>1, Sizes, LenProperties DEF ChatTypeOK
<1>5. Block * h = Block * n + w
  BY <1>1, <1>3 DEF InOrder
<1> HIDE DEF h, n, w
<1>6. Block * (h - n) = w
  BY <1>4, <1>5 DEF Block
<1> QED
  BY <1>1, <1>3, <1>6 DEF InOrder, h, n, w

(* Every variable of the chat keeps its type: what is sent is a half of a  *)
(* line that was said.  (socket-server.c:164-213, socket-client.c:129-181) *)
THEOREM ChatTypes == ChatSpec => []ChatTypeOK
  BY ChatInvariants, PTL

(* Two programs that write to each other are never both stuck, whatever    *)
(* the size of the buffers, as long as they hold a block.                  *)
(* (socket-server.c:170, 194, socket-client.c:142, 161)                    *)
THEOREM NeverBothStuck == ChatSpec => []SomeoneCanWrite
  BY ChatInvariants, RoomIsEnough, PTL

(* What the one shows is what the other has said, line by line, however    *)
(* much is said and however the system cuts what is written and read.      *)
(* (socket-server.c:164-213, socket-client.c:129-181)                      *)
THEOREM LinesAreShownInOrder == ChatSpec => []ShownAsSaid
  BY ChatInvariants, OrderIsShown, PTL

=============================================================================
