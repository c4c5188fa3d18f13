------------------------------- MODULE WsHub -------------------------------
(***************************************************************************)
(* The WebSocket hub of the controller (internal/ws/hub.go): the set of    *)
(* clients under a RWMutex, a bounded send channel per client, the two     *)
(* pumps of each client, broadcasts from concurrent goroutines, and the    *)
(* goroutines that remove a client whose channel was full.                 *)
(*                                                                         *)
(* Simplifications: a message is the broadcast it comes from; each section *)
(* under mu.Lock is a step; a broadcast sends to one client per step while *)
(* it holds mu.RLock, in the order of a Go map.  Closing a closed channel  *)
(* panics: in the goroutine of a removal that ends the process, in the     *)
(* goroutine of readPump net/http recovers it.                             *)
(***************************************************************************)
EXTENDS Naturals, Sequences, FiniteSets, SequencesExt

CONSTANTS Clients,       \* connections
          MaxBroadcasts, \* bound of the model on the broadcasts
          SendBufSize    \* sendBufSz, 256 in the code

ASSUME SendBufSizeAssumption == SendBufSize \in Nat \ {0}
ASSUME MaxBroadcastsAssumption == MaxBroadcasts \in Nat

(* Calls of BroadcastMetrics and BroadcastEvent, numbered as they begin.   *)
Broadcasts == 1 .. MaxBroadcasts

VARIABLES clients,    \* h.clients
          sendBuf,    \* sendBuf[c]: what is in c.send
          sendClosed, \* clients whose c.send is closed
          connOpen,   \* clients whose c.conn is open
          reader,     \* reader[c]: where readPump is
          writer,     \* writer[c]: where writePump is
          writing,    \* writing[c]: the message writePump has taken, at most one
          casting,    \* casting[b]: where broadcast b is
          todo,       \* todo[b]: clients the loop of b has still to visit
          evict,      \* evict[b][c]: the goroutine b started to remove c
          missed,     \* history: missed[c], broadcasts that found c.send full
          crashed     \* a panic ended the process

chanVars == <<sendBuf, sendClosed>>
castVars == <<casting, todo, missed>>
vars == <<clients, chanVars, connOpen, reader, writer, writing, castVars, evict,
          crashed>>

Pumps    == {"none", "running", "ending", "removed", "closed", "done", "panicked"}
Removals == {"none", "spawned", "removed", "closed", "done"}

(* mu.Lock succeeds: no broadcast is between mu.RLock and mu.RUnlock.      *)
CanLock == \A b \in Broadcasts : casting[b] # "sending"

Init ==
    /\ clients    = {}
    /\ sendBuf    = [c \in Clients |-> <<>>]
    /\ sendClosed = {}
    /\ connOpen   = {}
    /\ reader     = [c \in Clients |-> "none"]
    /\ writer     = [c \in Clients |-> "none"]
    /\ writing    = [c \in Clients |-> <<>>]
    /\ casting    = [b \in Broadcasts |-> "none"]
    /\ todo       = [b \in Broadcasts |-> {}]
    /\ evict      = [b \in Broadcasts |-> [c \in Clients |-> "none"]]
    /\ missed     = [c \in Clients |-> {}]
    /\ crashed    = FALSE

(* HandleWebSocket: the client is registered and its pumps are started.    *)
HandleWebSocket(c) ==
    /\ reader[c] = "none"
    /\ CanLock
    /\ clients'  = clients \cup {c}
    /\ connOpen' = connOpen \cup {c}
    /\ reader'   = [reader EXCEPT ![c] = "running"]
    /\ writer'   = [writer EXCEPT ![c] = "running"]
    /\ UNCHANGED <<chanVars, writing, castVars, evict, crashed>>
-----------------------------------------------------------------------------
(* broadcast                                                               *)

(* mu.RLock: h.clients cannot change until the matching RUnlock.           *)
BroadcastBegins(b) ==
    /\ casting[b] = "none"
    /\ \A d \in 1 .. b - 1 : casting[d] # "none"
    /\ casting' = [casting EXCEPT ![b] = "sending"]
    /\ todo'    = [todo EXCEPT ![b] = clients]
    /\ UNCHANGED <<clients, chanVars, connOpen, reader, writer, writing, evict,
                   missed, crashed>>

HasRoom(c) == Len(sendBuf[c]) < SendBufSize

(* Mutant: a client whose channel is full is skipped, not removed.         *)
SendOrSkip(b, c) ==
    IF HasRoom(c)
    THEN /\ sendBuf' = [sendBuf EXCEPT ![c] = Append(@, b)]
         /\ UNCHANGED <<evict, missed>>
    ELSE /\ missed' = [missed EXCEPT ![c] = @ \cup {b}]
         /\ UNCHANGED <<sendBuf, evict>>

(* The send does not block: when the channel is full, a goroutine is       *)
(* started that removes the client.                                        *)
SendOrRemove(b, c) ==
    IF HasRoom(c)
    THEN /\ sendBuf' = [sendBuf EXCEPT ![c] = Append(@, b)]
         /\ UNCHANGED <<evict, missed>>
    ELSE /\ evict'  = [evict EXCEPT ![b][c] = "spawned"]
         /\ missed' = [missed EXCEPT ![c] = @ \cup {b}]
         /\ UNCHANGED sendBuf

(* One round of the loop over the clients.                                 *)
BroadcastSend(b, c) ==
    /\ casting[b] = "sending"
    /\ c \in todo[b]
    /\ SendOrRemove(b, c)
    /\ todo' = [todo EXCEPT ![b] = @ \ {c}]
    /\ UNCHANGED <<clients, sendClosed, connOpen, reader, writer, writing, casting, crashed>>

(* mu.RUnlock.                                                             *)
BroadcastEnds(b) ==
    /\ casting[b] = "sending"
    /\ todo[b] = {}
    /\ casting' = [casting EXCEPT ![b] = "done"]
    /\ UNCHANGED <<clients, chanVars, connOpen, reader, writer, writing, todo, missed,
                   evict, crashed>>
-----------------------------------------------------------------------------
(* The goroutine that removes a client whose channel was full              *)

(* Mutant: the client is deleted without the lock.                         *)
EvictDeletesUnlocked(b, c) ==
    /\ evict[b][c] = "spawned"
    /\ clients' = clients \ {c}
    /\ evict'   = [evict EXCEPT ![b][c] = "removed"]
    /\ UNCHANGED <<chanVars, connOpen, reader, writer, writing, castVars, crashed>>

(* Mutant: the client is deleted and neither its channel nor its           *)
(* connection is closed.                                                   *)
EvictDeletesOnly(b, c) ==
    /\ evict[b][c] = "spawned"
    /\ CanLock
    /\ clients' = clients \ {c}
    /\ evict'   = [evict EXCEPT ![b][c] = "done"]
    /\ UNCHANGED <<chanVars, connOpen, reader, writer, writing, castVars, crashed>>

EvictDeletes(b, c) ==
    /\ evict[b][c] = "spawned"
    /\ CanLock
    /\ clients' = clients \ {c}
    /\ evict'   = [evict EXCEPT ![b][c] = "removed"]
    /\ UNCHANGED <<chanVars, connOpen, reader, writer, writing, castVars, crashed>>

(* close(c.send): it panics when the channel is closed already, and        *)
(* nothing recovers the panic of this goroutine.                           *)
EvictCloses(b, c) ==
    /\ evict[b][c] = "removed"
    /\ IF c \in sendClosed
       THEN crashed' = TRUE /\ UNCHANGED <<sendClosed, evict>>
       ELSE /\ sendClosed' = sendClosed \cup {c}
            /\ evict'      = [evict EXCEPT ![b][c] = "closed"]
            /\ UNCHANGED crashed
    /\ UNCHANGED <<clients, sendBuf, connOpen, reader, writer, writing, castVars>>

EvictHangsUp(b, c) ==
    /\ evict[b][c] = "closed"
    /\ connOpen' = connOpen \ {c}
    /\ evict'    = [evict EXCEPT ![b][c] = "done"]
    /\ UNCHANGED <<clients, chanVars, reader, writer, writing, castVars, crashed>>

Evict(b, c) == EvictDeletes(b, c) \/ EvictCloses(b, c) \/ EvictHangsUp(b, c)
-----------------------------------------------------------------------------
(* readPump                                                                *)

(* ReadMessage fails: the peer is gone or sent no pong for pongWait, or    *)
(* the connection was closed here.                                         *)
ReadFails(c) ==
    /\ reader[c] = "running"
    /\ reader' = [reader EXCEPT ![c] = "ending"]
    /\ UNCHANGED <<clients, chanVars, connOpen, writer, writing, castVars, evict,
                   crashed>>

(* Mutant: the deferred function deletes the client and no more.           *)
ReaderDeletesOnly(c) ==
    /\ reader[c] = "ending"
    /\ CanLock
    /\ clients' = clients \ {c}
    /\ reader'  = [reader EXCEPT ![c] = "done"]
    /\ UNCHANGED <<chanVars, connOpen, writer, writing, castVars, evict, crashed>>

ReaderDeletes(c) ==
    /\ reader[c] = "ending"
    /\ CanLock
    /\ clients' = clients \ {c}
    /\ reader'  = [reader EXCEPT ![c] = "removed"]
    /\ UNCHANGED <<chanVars, connOpen, writer, writing, castVars, evict, crashed>>

(* close(c.send): net/http recovers the panic, but the deferred function   *)
(* does not get to conn.Close.                                             *)
ReaderCloses(c) ==
    /\ reader[c] = "removed"
    /\ sendClosed' = sendClosed \cup {c}
    /\ reader' = [reader EXCEPT ![c] = IF c \in sendClosed THEN "panicked" ELSE "closed"]
    /\ UNCHANGED <<clients, sendBuf, connOpen, writer, writing, castVars, evict,
                   crashed>>

ReaderHangsUp(c) ==
    /\ reader[c] = "closed"
    /\ connOpen' = connOpen \ {c}
    /\ reader'   = [reader EXCEPT ![c] = "done"]
    /\ UNCHANGED <<clients, chanVars, writer, writing, castVars, evict, crashed>>

ReaderEnds(c) == ReaderDeletes(c) \/ ReaderCloses(c) \/ ReaderHangsUp(c)
-----------------------------------------------------------------------------
(* writePump                                                               *)

(* A message is taken from c.send, closed or not.                          *)
WriterTakes(c) ==
    /\ writer[c] = "running"
    /\ writing[c] = <<>>
    /\ sendBuf[c] # <<>>
    /\ writing' = [writing EXCEPT ![c] = <<Head(sendBuf[c])>>]
    /\ sendBuf' = [sendBuf EXCEPT ![c] = Tail(@)]
    /\ UNCHANGED <<clients, sendClosed, connOpen, reader, writer, castVars, evict,
                   crashed>>

(* WriteMessage succeeds.                                                  *)
WriterWrites(c) ==
    /\ writer[c] = "running"
    /\ writing[c] # <<>>
    /\ c \in connOpen
    /\ writing' = [writing EXCEPT ![c] = <<>>]
    /\ UNCHANGED <<clients, chanVars, connOpen, reader, writer, castVars, evict, crashed>>

(* A write fails, of a message or of a ping (the ticker offers one to      *)
(* every idle writePump), or takes longer than writeWait; or c.send is     *)
(* closed and empty and the close message has been tried: writePump ends.  *)
WriterEnds(c) ==
    /\ writer[c] = "running"
    /\ writer'   = [writer EXCEPT ![c] = "done"]
    /\ connOpen' = connOpen \ {c}
    /\ UNCHANGED <<clients, chanVars, reader, writing, castVars, evict, crashed>>
-----------------------------------------------------------------------------
Next ==
    /\ ~crashed
    /\ \/ \E c \in Clients :
            \/ HandleWebSocket(c)
            \/ ReadFails(c) \/ ReaderEnds(c)
            \/ WriterTakes(c) \/ WriterWrites(c) \/ WriterEnds(c)
       \/ \E b \in Broadcasts :
            \/ BroadcastBegins(b) \/ BroadcastEnds(b)
            \/ \E c \in Clients : BroadcastSend(b, c) \/ Evict(b, c)

Spec == Init /\ [][Next]_vars

(* Goroutines that can go on do; the operating system fails the reads and  *)
(* writes of a closed connection (a write is offered by the ticker when    *)
(* there is no message); a closed and empty channel ends writePump.  Of an *)
(* open connection nothing is assumed: a peer may be slow for ever.        *)
Fairness ==
    /\ \A b \in Broadcasts :
          /\ WF_vars(~crashed /\ BroadcastEnds(b))
          /\ \A c \in Clients : /\ WF_vars(~crashed /\ BroadcastSend(b, c))
                                /\ WF_vars(~crashed /\ Evict(b, c))
    /\ \A c \in Clients :
          /\ WF_vars(~crashed /\ c \notin connOpen /\ ReadFails(c))
          /\ WF_vars(~crashed /\ ReaderEnds(c))
          /\ WF_vars(~crashed /\ c \notin connOpen /\ WriterEnds(c))
          /\ WF_vars(~crashed /\ c \in sendClosed
                       /\ (WriterTakes(c) \/ WriterWrites(c)
                             \/ (sendBuf[c] = <<>> /\ writing[c] = <<>> /\ WriterEnds(c))))

FairSpec == Spec /\ Fairness
-----------------------------------------------------------------------------
TypeOK ==
    /\ clients    \subseteq Clients
    /\ sendBuf    \in [Clients -> Seq(Broadcasts)]
    /\ \A c \in Clients : Len(sendBuf[c]) <= SendBufSize
    /\ sendClosed \subseteq Clients
    /\ connOpen   \subseteq Clients
    /\ reader     \in [Clients -> Pumps]
    /\ writer     \in [Clients -> Pumps]
    /\ writing    \in [Clients -> Seq(Broadcasts)]
    /\ casting    \in [Broadcasts -> {"none", "sending", "done"}]
    /\ todo       \in [Broadcasts -> SUBSET Clients]
    /\ evict      \in [Broadcasts -> [Clients -> Removals]]
    /\ missed     \in [Clients -> SUBSET Broadcasts]
    /\ crashed    \in BOOLEAN

(* No broadcast ever sends on a closed channel, which would panic in the   *)
(* goroutine of a request: a client is deleted under the lock before its   *)
(* channel is closed, and a broadcast visits only clients of the map.      *)
NoSendOnClosed == \A b \in Broadcasts : todo[b] \cap sendClosed = {}

(* A client that missed a message does not stay: it is out of the map or a *)
(* goroutine is about to remove it.  So no client is left connected with a *)
(* gap in what it was shown.                                               *)
MissedIsRemoved ==
    \A c \in Clients :
        missed[c] # {} /\ c \in clients => \E b \in missed[c] : evict[b][c] = "spawned"

(* Once a client is out of the map, the pumps of its connection end.       *)
PumpsEnd ==
    \A c \in Clients :
        (reader[c] # "none" /\ c \notin clients)
            ~> crashed \/ (reader[c] \in {"done", "panicked"} /\ writer[c] = "done")

(* A client found too slow is disconnected, unless the process dies.       *)
SlowClientIsDisconnected ==
    \A c \in Clients : (missed[c] # {}) ~> (crashed \/ c \notin connOpen)

(* "send buffer exceeded: remove the slow client" (hub.go:157): removing a *)
(* client leaves the process alone.  It is false: two broadcasts, or a     *)
(* broadcast and readPump, both close the channel.                         *)
SlowClientIsOnlyRemoved == ~crashed
=============================================================================
