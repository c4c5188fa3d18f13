---------------------------- MODULE WsHubProofs ----------------------------
(***************************************************************************)
(* Proofs about WsHub, for any number of clients and broadcasts and any    *)
(* buffer size: no broadcast sends on a closed channel, and a client that  *)
(* missed a message is removed.                                            *)
(***************************************************************************)
EXTENDS WsHub, TLAPS

(* The part of TypeOK the arguments below need.                            *)
HubTypeOK ==
    /\ clients \subseteq Clients
    /\ sendClosed \subseteq Clients
    /\ reader  \in [Clients -> Pumps]
    /\ casting \in [Broadcasts -> {"none", "sending", "done"}]
    /\ todo    \in [Broadcasts -> SUBSET Clients]
    /\ evict   \in [Broadcasts -> [Clients -> Removals]]
    /\ missed  \in [Clients -> SUBSET Broadcasts]

(* While a broadcast is at it, it visits clients of the map only.          *)
TodoInMap == \A b \in Broadcasts :
    /\ todo[b] \subseteq clients
    /\ casting[b] # "sending" => todo[b] = {}

(* A client is in the map from its registration to its first deletion, and *)
(* it is deleted before its channel is closed.                             *)
GoneForGood == \A c \in Clients :
    /\ reader[c] = "none" => c \notin clients /\ c \notin sendClosed
    /\ reader[c] \in {"removed", "closed", "done", "panicked"} => c \notin clients
    /\ c \in sendClosed => c \notin clients
    /\ \A b \in Broadcasts :
          /\ evict[b][c] # "none" => reader[c] # "none"
          /\ evict[b][c] \in {"removed", "closed", "done"} => c \notin clients

(* A broadcast that found a channel full started a removal.                *)
MissesEvict == \A c \in Clients : \A b \in missed[c] : evict[b][c] # "none"

HubInv == HubTypeOK /\ TodoInMap /\ GoneForGood /\ MissesEvict

LEMMA HubInitInv == Init => HubInv
  BY DEF Init, HubInv, HubTypeOK, TodoInMap, GoneForGood, MissesEvict, Pumps, Removals

LEMMA HubInvStep == HubInv /\ [Next]_vars => HubInv'
  <1> SUFFICES ASSUME HubInv, [Next]_vars PROVE HubInv'
    OBVIOUS
  <1> USE DEF HubInv, HubTypeOK, TodoInMap, GoneForGood, MissesEvict, Pumps, Removals
  <1>1. CASE UNCHANGED vars
    BY <1>1 DEF vars, chanVars, castVars
  <1>2. ASSUME NEW c \in Clients, HandleWebSocket(c) PROVE HubInv'
    BY <1>2 DEF HandleWebSocket, chanVars, castVars
  <1>3. ASSUME NEW c \in Clients, ReadFails(c) PROVE HubInv'
    BY <1>3 DEF ReadFails, chanVars, castVars
  <1>4. ASSUME NEW c \in Clients, ReaderEnds(c) PROVE HubInv'
    <2>1. CASE ReaderDeletes(c)
      BY <2>1 DEF ReaderDeletes, CanLock, chanVars, castVars
    <2>2. CASE ReaderCloses(c)
      BY <2>2 DEF ReaderCloses, chanVars, castVars
    <2>3. CASE ReaderHangsUp(c)
      BY <2>3 DEF ReaderHangsUp, chanVars, castVars
    <2> QED BY <1>4, <2>1, <2>2, <2>3 DEF ReaderEnds
  <1>5. ASSUME NEW c \in Clients, WriterTakes(c) \/ WriterWrites(c) \/ WriterEnds(c)
        PROVE  HubInv'
    BY <1>5 DEF WriterTakes, WriterWrites, WriterEnds, chanVars, castVars
  <1>6. ASSUME NEW b \in Broadcasts, BroadcastBegins(b) PROVE HubInv'
    BY <1>6 DEF BroadcastBegins, chanVars
  <1>7. ASSUME NEW b \in Broadcasts, BroadcastEnds(b) PROVE HubInv'
    BY <1>7 DEF BroadcastEnds, chanVars
  <1>8. ASSUME NEW b \in Broadcasts, NEW c \in Clients, BroadcastSend(b, c) PROVE HubInv'
    <2> USE <1>8 DEF BroadcastSend
    <2>0. reader[c] # "none"
      OBVIOUS
    <2>1. CASE HasRoom(c)
      BY <2>1 DEF SendOrRemove
    <2>2. CASE ~HasRoom(c)
      <3>1. /\ evict'  = [evict EXCEPT ![b][c] = "spawned"]
            /\ missed' = [missed EXCEPT ![c] = @ \cup {b}]
        BY <2>2 DEF SendOrRemove
      <3>2. HubTypeOK' /\ TodoInMap'
        BY <3>1
      <3>3. evict'[b][c] = "spawned"
        BY <3>1
      <3>4. \A d \in Broadcasts, x \in Clients :
              d # b \/ x # c => evict'[d][x] = evict[d][x]
        BY <3>1
      <3>5. GoneForGood'
        BY <2>0, <3>3, <3>4
      <3>6. MissesEvict'
        BY <3>1, <3>3, <3>4
      <3> QED BY <3>2, <3>5, <3>6
    <2> QED BY <2>1, <2>2
  <1>9. ASSUME NEW b \in Broadcasts, NEW c \in Clients, Evict(b, c) PROVE HubInv'
    <2>1. CASE EvictDeletes(b, c)
      BY <2>1 DEF EvictDeletes, CanLock, chanVars, castVars
    <2>2. CASE EvictCloses(b, c)
      <3> USE <2>2 DEF EvictCloses, castVars
      <3>1. CASE c \in sendClosed
        BY <3>1
      <3>2. CASE c \notin sendClosed
        <4>0. sendClosed' = sendClosed \cup {c} /\ evict' = [evict EXCEPT ![b][c] = "closed"]
          BY <3>2
        <4>1. c \notin clients /\ reader[c] # "none"
          OBVIOUS
        <4>2. HubTypeOK' /\ TodoInMap'
          BY <4>0
        <4>3. evict'[b][c] = "closed"
          BY <4>0
        <4>4. \A d \in Broadcasts, x \in Clients :
                d # b \/ x # c => evict'[d][x] = evict[d][x]
          BY <4>0
        <4>5. GoneForGood' /\ MissesEvict'
          BY <4>0, <4>1, <4>3, <4>4
        <4> QED BY <4>2, <4>5
      <3> QED BY <3>1, <3>2
    <2>3. CASE EvictHangsUp(b, c)
      BY <2>3 DEF EvictHangsUp, chanVars, castVars
    <2> QED BY <1>9, <2>1, <2>2, <2>3 DEF Evict
  <1> QED BY <1>1, <1>2, <1>3, <1>4, <1>5, <1>6, <1>7, <1>8, <1>9 DEF Next

(* The inductive invariant of the hub.                                     *)
THEOREM HubInvariant == Spec => []HubInv
  <1>1. Init => HubInv
    BY HubInitInv
  <1>2. HubInv /\ [Next]_vars => HubInv'
    BY HubInvStep
  <1> QED BY <1>1, <1>2, PTL DEF Spec

(* No broadcast sends on a closed channel.                                 *)
THEOREM BroadcastsNeverPanic == Spec => []NoSendOnClosed
  <1>1. HubInv => NoSendOnClosed
    BY DEF HubInv, HubTypeOK, TodoInMap, GoneForGood, NoSendOnClosed
  <1> QED BY <1>1, HubInvariant, PTL

(* A client that missed a message is gone or about to be removed.          *)
THEOREM GapsAreCutOff == Spec => []MissedIsRemoved
  <1>1. HubInv => MissedIsRemoved
    <2> SUFFICES ASSUME HubInv, NEW c \in Clients, missed[c] # {}, c \in clients
                 PROVE  \E b \in missed[c] : evict[b][c] = "spawned"
      BY DEF MissedIsRemoved
    <2>1. PICK b \in missed[c] : TRUE
      OBVIOUS
    <2>2. b \in Broadcasts /\ evict[b][c] # "none"
      BY DEF HubInv, HubTypeOK, MissesEvict
    <2>3. evict[b][c] = "spawned"
      BY <2>2 DEF HubInv, HubTypeOK, GoneForGood, Removals
    <2> QED BY <2>3
  <1> QED BY <1>1, HubInvariant, PTL
-----------------------------------------------------------------------------
(* Every step keeps the types and the capacity of the send channels.       *)
LEMMA HubTypeStep == TypeOK /\ [Next]_vars => TypeOK'
  <1> SUFFICES ASSUME TypeOK, [Next]_vars PROVE TypeOK'
    OBVIOUS
  <1>0. crashed' \in BOOLEAN
    BY Zenon DEF TypeOK, Next, vars, HandleWebSocket, ReadFails, ReaderEnds, ReaderDeletes,
             ReaderCloses, ReaderHangsUp, WriterTakes, WriterWrites, WriterEnds, BroadcastBegins,
             BroadcastEnds, BroadcastSend, Evict, EvictDeletes, EvictCloses, EvictHangsUp
  <1> USE SendBufSizeAssumption DEF TypeOK, Pumps, Removals
  <1>e. /\ evict \in [Broadcasts -> [Clients -> Removals]]
        /\ {"removed", "closed", "done"} \subseteq Removals
    OBVIOUS
  <1>w. writing \in [Clients -> Seq(Broadcasts)]
    OBVIOUS
  <1>m. missed \in [Clients -> SUBSET Broadcasts] /\ todo \in [Broadcasts -> SUBSET Clients]
    OBVIOUS
  <1>1. CASE UNCHANGED vars
    BY <1>0, <1>1 DEF vars, chanVars, castVars
  <1>2. ASSUME NEW c \in Clients, HandleWebSocket(c) PROVE TypeOK'
    BY <1>0, <1>2 DEF HandleWebSocket, chanVars, castVars
  <1>3. ASSUME NEW c \in Clients, ReadFails(c) \/ ReaderEnds(c) PROVE TypeOK'
    BY <1>0, <1>3 DEF ReadFails, ReaderEnds, ReaderDeletes, ReaderCloses, ReaderHangsUp, chanVars,
                castVars
  <1>4. ASSUME NEW c \in Clients, WriterTakes(c) PROVE TypeOK'
    <2>1. /\ Head(sendBuf[c]) \in Broadcasts /\ Tail(sendBuf[c]) \in Seq(Broadcasts)
          /\ Len(Tail(sendBuf[c])) <= SendBufSize
      BY <1>4 DEF WriterTakes
    <2> QED
      BY <1>0, <1>4, <2>1 DEF WriterTakes, castVars
  <1>5. ASSUME NEW c \in Clients, WriterWrites(c) \/ WriterEnds(c) PROVE TypeOK'
    <2>1. writing' \in [Clients -> Seq(Broadcasts)]
      <3> HIDE DEF TypeOK
      <3>1. CASE WriterWrites(c)
        BY <1>w, <3>1 DEF WriterWrites
      <3>2. CASE WriterEnds(c)
        BY <1>w, <3>2 DEF WriterEnds
      <3> QED BY <1>5, <3>1, <3>2
    <2>2. writer' \in [Clients -> Pumps]
      BY <1>5 DEF WriterWrites, WriterEnds
    <2>3. connOpen' \subseteq Clients
      BY <1>5 DEF WriterWrites, WriterEnds
    <2> QED
      BY <1>0, <1>5, <2>1, <2>2, <2>3 DEF WriterWrites, WriterEnds, chanVars, castVars
  <1>6. ASSUME NEW b \in Broadcasts, BroadcastBegins(b) \/ BroadcastEnds(b) PROVE TypeOK'
    BY <1>0, <1>6 DEF BroadcastBegins, BroadcastEnds, chanVars
  <1>7. ASSUME NEW b \in Broadcasts, NEW c \in Clients, BroadcastSend(b, c) PROVE TypeOK'
    <2>1. CASE HasRoom(c)
      <3>1. Append(sendBuf[c], b) \in Seq(Broadcasts) /\ Len(Append(sendBuf[c], b)) <= SendBufSize
        BY <2>1 DEF HasRoom
      <3> QED
        BY <1>0, <1>7, <2>1, <3>1 DEF BroadcastSend, SendOrRemove
    <2>2. CASE ~HasRoom(c)
      <3>1. evict' \in [Broadcasts -> [Clients -> Removals]]
        <4>1. evict' = [evict EXCEPT ![b][c] = "spawned"]
          BY <1>7, <2>2 DEF BroadcastSend, SendOrRemove
        <4>2. "spawned" \in Removals
          OBVIOUS
        <4> HIDE DEF TypeOK, Removals
        <4> QED BY <1>e, <4>1, <4>2
      <3>2. missed' \in [Clients -> SUBSET Broadcasts] /\ todo' \in [Broadcasts -> SUBSET Clients]
        <4> HIDE DEF TypeOK, Removals
        <4> QED BY <1>m, <1>7, <2>2 DEF BroadcastSend, SendOrRemove
      <3> QED
        BY <1>0, <1>7, <2>2, <3>1, <3>2 DEF BroadcastSend, SendOrRemove
    <2> QED BY <2>1, <2>2
  <1>8. ASSUME NEW b \in Broadcasts, NEW c \in Clients, Evict(b, c) PROVE TypeOK'
    <2>1. evict' \in [Broadcasts -> [Clients -> Removals]]
      <3> HIDE DEF TypeOK, Removals
      <3> QED BY <1>e, <1>8 DEF Evict, EvictDeletes, EvictCloses, EvictHangsUp
    <2>2. clients' \subseteq Clients /\ sendClosed' \subseteq Clients /\ connOpen' \subseteq Clients
      BY <1>8 DEF Evict, EvictDeletes, EvictCloses, EvictHangsUp, chanVars
    <2> QED
      BY <1>0, <1>8, <2>1, <2>2 DEF Evict, EvictDeletes, EvictCloses, EvictHangsUp, chanVars, castVars
  <1> QED BY <1>1, <1>2, <1>3, <1>4, <1>5, <1>6, <1>7, <1>8 DEF Next

(* The variables keep their types, and no send channel holds more than its *)
(* capacity, however many broadcasts send at the same time.                *)
THEOREM HubTypes == Spec => []TypeOK
  <1>1. Init => TypeOK
    <2>1. Init => crashed \in BOOLEAN
      BY Zenon DEF Init
    <2> QED BY <2>1, SendBufSizeAssumption DEF Init, TypeOK, Pumps, Removals
  <1> QED BY <1>1, HubTypeStep, PTL DEF Spec
=============================================================================
