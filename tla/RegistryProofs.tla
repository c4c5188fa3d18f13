--------------------------- MODULE RegistryProofs ---------------------------
(***************************************************************************)
(* Theorems about Registry, for any number of agents, any timing and a     *)
(* database that fails at will: the agents table follows the registry; a   *)
(* removed agent stays out; a command survives the polls; a dead agent is  *)
(* noticed in time; a healthy one is never marked offline.                 *)
(*                                                                         *)
(* The last two rest on who can stand in the line at m.mu (LineInv), and   *)
(* on how many those are (CountPlaces): a bound on a wait is a bound on    *)
(* the database calls that come first.                                     *)
(***************************************************************************)
EXTENDS Registry, FiniteSetTheorems, SequenceTheorems, TLAPS

(* What the registry says of an agent while the operation's call is made.  *)
Says(op) ==
    CASE op[1] \in {"register", "heartbeat"} -> "online"
      [] op[1] = "mark"   -> "offline"
      [] op[1] = "remove" -> "absent"

(* The row of an agent is what the registry says, or there is none, or the *)
(* agent's last call failed.                                               *)
RowFollows(a) == row[a] \in {entry[a], "absent"} \/ a \in failed

(* Under m.mu: the agent of the call is as the operation left it, the      *)
(* others are as they were, and markOffline has agents to mark that are    *)
(* still online, since nobody else writes.                                 *)
LockInv ==
    /\ entry \in [Agents -> {"absent", "online", "offline"}]
    /\ row \in [Agents -> {"absent", "online", "offline"}]
    /\ holder \in Ops \cup {Free}
    /\ left \subseteq Agents
    /\ holder = Free => left = {}
    /\ \A a \in left : entry[a] = "online" /\ a # holder[2]
    /\ holder # Free => entry[holder[2]] = Says(holder)
    /\ \A a \in Agents : (holder = Free \/ a # holder[2]) => RowFollows(a)
-----------------------------------------------------------------------------
(* No operation is mistaken for a free lock.                               *)
LEMMA OpsAreNotFree ==
    ASSUME NEW a \in Agents, NEW k \in {"register", "heartbeat", "remove", "mark"}
    PROVE  <<k, a>> \in Ops /\ <<k, a>> # Free /\ <<k, a>>[1] = k /\ <<k, a>>[2] = a
BY DEF Ops, Free

(* The statement of an operation touches the row of its agent only, and    *)
(* leaves there what the registry says, or no row.                         *)
LEMMA WrittenSays ==
    ASSUME NEW op \in Ops, row \in [Agents -> {"absent", "online", "offline"}]
    PROVE  /\ Written(op) \in [Agents -> {"absent", "online", "offline"}]
           /\ Written(op)[op[2]] \in {Says(op), "absent"}
           /\ \A a \in Agents \ {op[2]} : Written(op)[a] = row[a]
<1>1. PICK k \in {"register", "heartbeat", "remove", "mark"}, b \in Agents : op = <<k, b>>
  BY DEF Ops
<1>2. op[1] = k /\ op[2] = b
  BY <1>1
<1>3. CASE k \in {"heartbeat", "mark"} /\ row[b] = "absent"
  BY <1>2, <1>3 DEF Written
<1>4. CASE ~(k \in {"heartbeat", "mark"} /\ row[b] = "absent")
  <2>1. Written(op) = [row EXCEPT ![b] = Says(op)]
    <3>1. CASE k = "register"
      BY <1>2, <3>1 DEF Written, Says
    <3>2. CASE k = "heartbeat"
      BY <1>2, <1>4, <3>2 DEF Written, Says
    <3>3. CASE k = "remove"
      BY <1>2, <3>3 DEF Written, Says
    <3>4. CASE k = "mark"
      BY <1>2, <1>4, <3>4 DEF Written, Says
    <3> QED
      BY <3>1, <3>2, <3>3, <3>4
  <2>2. Says(op) \in {"absent", "online", "offline"}
    BY <1>2 DEF Says
  <2> QED
    BY <1>2, <2>1, <2>2
<1> QED
  BY <1>3, <1>4

(* At the start there are no agents.                                       *)
LEMMA InitLockInv == Init => LockInv
BY DEF Init, LockInv, RowFollows, Ops

(* An operation gets m.mu, changes the entry of its agent and calls the    *)
(* database; it does not touch the table yet.                              *)
LEMMA CallKeepsInv ==
    ASSUME LockInv, holder = Free, NEW a \in Agents,
           NEW k \in {"register", "heartbeat", "remove", "mark"},
           holder' = <<k, a>>, entry' = [entry EXCEPT ![a] = Says(<<k, a>>)],
           left' \subseteq Agents, a \notin left',
           \A b \in left' : entry[b] = "online",
           UNCHANGED <<row, failed>>
    PROVE  LockInv'
<1>1. holder' \in Ops /\ holder' # Free /\ holder'[1] = k /\ holder'[2] = a
  BY OpsAreNotFree
<1>2. Says(<<k, a>>) \in {"absent", "online", "offline"}
  BY OpsAreNotFree DEF Says
<1>3. entry' \in [Agents -> {"absent", "online", "offline"}] /\ entry'[a] = Says(<<k, a>>)
      /\ \A b \in Agents \ {a} : entry'[b] = entry[b]
  BY <1>2 DEF LockInv
<1>4. \A b \in Agents : b # a => RowFollows(b)'
  BY <1>3 DEF LockInv, RowFollows
<1> QED
  BY <1>1, <1>3, <1>4 DEF LockInv

(* The database answers, or fails: the row of the agent follows, or is     *)
(* excused, and m.mu is free or goes on to the next agent to mark.         *)
LEMMA ReturnKeepsInv == ASSUME LockInv, DbReturns PROVE LockInv'
<1>1. holder \in Ops /\ holder[2] \in Agents
  BY DEF LockInv, DbReturns, Ops
<1>2. /\ row' \in [Agents -> {"absent", "online", "offline"}]
      /\ row'[holder[2]] \in {entry[holder[2]], "absent"} \/ holder[2] \in failed'
      /\ \A b \in Agents \ {holder[2]} : row'[b] = row[b] /\ (b \in failed => b \in failed')
  BY <1>1, WrittenSays DEF LockInv, DbReturns
<1>3. \A b \in Agents : row'[b] \in {entry[b], "absent"} \/ b \in failed'
  BY <1>1, <1>2 DEF LockInv, RowFollows
<1>4. CASE left = {}
  <2>1. holder' = Free /\ entry' = entry /\ left' = left
    BY <1>4 DEF DbReturns, Unlock
  <2> QED
    BY <1>2, <1>3, <1>4, <2>1 DEF LockInv, RowFollows
<1>5. CASE left # {}
  <2>1. PICK a \in left : Mark(a, left \ {a})
    BY <1>5 DEF DbReturns, Unlock
  <2>2. /\ a \in Agents /\ holder' = <<"mark", a>> /\ entry' = [entry EXCEPT ![a] = "offline"]
        /\ left' = left \ {a}
    BY <2>1 DEF LockInv, Mark, CallDb
  <2>3. holder' \in Ops /\ holder' # Free /\ holder'[1] = "mark" /\ holder'[2] = a
    BY <2>2, OpsAreNotFree
  <2>4. entry' \in [Agents -> {"absent", "online", "offline"}] /\ entry'[a] = "offline"
        /\ \A b \in Agents \ {a} : entry'[b] = entry[b]
    BY <2>2 DEF LockInv
  <2>5. Says(holder)' = "offline"
    BY <2>3 DEF Says
  <2>6. \A b \in Agents : b # a => RowFollows(b)'
    BY <1>3, <2>4 DEF RowFollows
  <2>7. \A b \in left' : entry'[b] = "online" /\ b # a
    BY <2>2, <2>4 DEF LockInv
  <2> QED
    BY <1>2, <2>2, <2>3, <2>4, <2>5, <2>6, <2>7 DEF LockInv
<1> QED
  BY <1>4, <1>5

(* LockInv is inductive.                                                   *)
LEMMA LockStep == LockInv /\ [Next]_vars => LockInv'
<1> SUFFICES ASSUME LockInv, [Next]_vars PROVE LockInv'
  OBVIOUS
<1>1. ASSUME UNCHANGED <<entry, row, failed, holder, left>> PROVE LockInv'
  BY <1>1 DEF LockInv, RowFollows, Says
<1>2. ASSUME NEW a \in Agents, Register(a) PROVE LockInv'
  <2>1. holder = Free /\ holder' = <<"register", a>> /\ left' = {}
        /\ entry' = [entry EXCEPT ![a] = Says(<<"register", a>>)]
    BY <1>2 DEF LockInv, Register, Granted, Refresh, CallDb, Says
  <2> QED
    BY <1>2, <2>1, CallKeepsInv DEF Register, dbVars
<1>3. ASSUME NEW a \in Agents, Heartbeat(a) PROVE LockInv'
  <2>1. CASE entry[a] = "absent"
    BY <1>1, <1>3, <2>1 DEF Heartbeat, dbVars
  <2>2. CASE entry[a] # "absent"
    <3>1. holder = Free /\ holder' = <<"heartbeat", a>> /\ left' = {}
          /\ entry' = [entry EXCEPT ![a] = Says(<<"heartbeat", a>>)]
      BY <1>3, <2>2 DEF LockInv, Heartbeat, Granted, Refresh, CallDb, Says
    <3> QED
      BY <1>3, <3>1, CallKeepsInv DEF Heartbeat, dbVars
  <2> QED
    BY <2>1, <2>2
<1>4. ASSUME NEW a \in Agents, Remove(a) PROVE LockInv'
  <2>1. holder = Free /\ holder' = <<"remove", a>> /\ left' = {}
        /\ entry' = [entry EXCEPT ![a] = Says(<<"remove", a>>)]
    BY <1>4 DEF LockInv, Remove, Granted, CallDb, Says
  <2> QED
    BY <1>4, <2>1, CallKeepsInv DEF Remove, dbVars
<1>5. CASE MarkOffline
  <2>1. CASE Stale = {}
    BY <1>1, <1>5, <2>1 DEF MarkOffline, dbVars
  <2>2. CASE Stale # {}
    <3>1. PICK a \in Stale : Mark(a, Stale \ {a})
      BY <1>5, <2>2 DEF MarkOffline
    <3>2. a \in Agents /\ Stale \ {a} \subseteq Agents /\ \A b \in Stale : entry[b] = "online"
      BY DEF Stale
    <3>3. holder = Free /\ holder' = <<"mark", a>> /\ left' = Stale \ {a}
          /\ entry' = [entry EXCEPT ![a] = Says(<<"mark", a>>)]
      BY <1>5, <3>1 DEF MarkOffline, Granted, Mark, CallDb, Says
    <3> QED
      BY <1>5, <3>2, <3>3, CallKeepsInv DEF MarkOffline, dbVars
  <2> QED
    BY <2>1, <2>2
<1>6. CASE DbReturns
  BY <1>6, ReturnKeepsInv
<1>7. ASSUME NEW a \in Agents, Boot(a) \/ SendHeartbeat(a) \/ DeleteAgent(a) \/ Crash(a)
      PROVE  LockInv'
  BY <1>1, <1>7 DEF Boot, SendHeartbeat, DeleteAgent, Crash, dbVars, lockVars
<1>8. CASE EnqueueStartTest \/ Poll \/ DequeueCommand \/ GiveUp \/ DequeueForNobody
  BY <1>1, <1>8 DEF EnqueueStartTest, Poll, DequeueCommand, GiveUp, DequeueForNobody, dbVars, lockVars
<1>9. CASE StartCheck \/ Tick \/ UNCHANGED vars
  BY <1>1, <1>9 DEF StartCheck, Tick, vars, dbVars, lockVars
<1> QED
  BY <1>2, <1>3, <1>4, <1>5, <1>6, <1>7, <1>8, <1>9 DEF Next

(* LockInv holds throughout.                                               *)
THEOREM LockInvariant == Spec => []LockInv
BY InitLockInv, LockStep, PTL DEF Spec

(* When m.mu is free, a row of the agents table says what the registry     *)
(* says, unless there is none or the agent's last call failed: markOffline *)
(* and the handlers cannot leave the two apart by their order.             *)
THEOREM TableAgrees == Spec => []TableFollowsRegistry
<1>1. LockInv => TableFollowsRegistry
  BY DEF LockInv, TableFollowsRegistry, RowFollows
<1> QED
  BY <1>1, LockInvariant, PTL
-----------------------------------------------------------------------------
(* An agent that is not in the registry is put there by Register only:     *)
(* neither its heartbeats nor a health check that was under way when it    *)
(* was removed bring it back.                                              *)
THEOREM RemovedAgentsStayOut == Spec => RemovedStaysOut
<1>1. LockInv /\ [Next]_vars => [\A a \in Agents : (entry[a] = "absent" /\ live[a] \in {"up", "dead"}) =>
                            (entry'[a] = "absent" \/ Head(queue) = <<"register", a>>)]_vars
  <2> SUFFICES ASSUME LockInv, [Next]_vars, NEW a \in Agents, entry[a] = "absent"
               PROVE  entry'[a] = "absent" \/ Head(queue) = <<"register", a>>
    OBVIOUS
  <2>1. ASSUME NEW b \in Agents, Register(b) PROVE entry'[a] = "absent" \/ Head(queue) = <<"register", a>>
    BY <2>1 DEF LockInv, Register, Granted, Refresh
  <2>2. ASSUME NEW b \in Agents, Heartbeat(b) \/ Remove(b) PROVE entry'[a] = "absent"
    BY <2>2 DEF LockInv, Heartbeat, Remove, Granted, Refresh
  <2>3. CASE MarkOffline
    BY <2>3 DEF LockInv, MarkOffline, Mark, Stale
  <2>4. CASE DbReturns
    BY <2>4 DEF LockInv, DbReturns, Unlock, Mark
  <2>5. ASSUME NEW b \in Agents, Boot(b) \/ SendHeartbeat(b) \/ DeleteAgent(b) \/ Crash(b)
        PROVE  entry' = entry
    BY <2>5 DEF Boot, SendHeartbeat, DeleteAgent, Crash
  <2>6. CASE EnqueueStartTest \/ Poll \/ DequeueCommand \/ GiveUp \/ DequeueForNobody
    BY <2>6 DEF EnqueueStartTest, Poll, DequeueCommand, GiveUp, DequeueForNobody
  <2>7. CASE StartCheck \/ Tick \/ UNCHANGED vars
    BY <2>7 DEF StartCheck, Tick, vars
  <2> QED
    BY <2>1, <2>2, <2>3, <2>4, <2>5, <2>6, <2>7 DEF Next
<1> QED
  BY <1>1, LockInvariant, PTL DEF Spec, RemovedStaysOut
-----------------------------------------------------------------------------
(* The smaller and the larger of two numbers.                              *)
LEMMA MinOfTwo ==
    ASSUME NEW i \in Nat, NEW j \in Nat
    PROVE  Min({i, j}) \in 0 .. j /\ Min({i, j}) =< i
<1>1. \E x \in {i, j} : \A y \in {i, j} : x =< y
  OBVIOUS
<1>2. Min({i, j}) \in {i, j} /\ \A y \in {i, j} : Min({i, j}) =< y
  BY <1>1 DEF Min
<1> QED
  BY <1>2

LEMMA MaxOfTwo ==
    ASSUME NEW i \in Nat, NEW j \in Nat
    PROVE  Max({i, j}) \in Nat /\ i =< Max({i, j}) /\ j =< Max({i, j})
<1>1. \E x \in {i, j} : \A y \in {i, j} : x >= y
  OBVIOUS
<1>2. Max({i, j}) \in {i, j} /\ \A y \in {i, j} : Max({i, j}) >= y
  BY <1>1 DEF Max
<1> QED
  BY <1>2

(* The time that so many database calls can take.                          *)
Calls(k) == k * DbTicks

LEMMA CallsAdd ==
    ASSUME NEW k \in Nat
    PROVE  Calls(k) \in Nat /\ Calls(k + 1) = Calls(k) + DbTicks /\ Calls(0) = 0
<1>1. \A d \in Nat, n \in Nat : n * d \in Nat /\ (n + 1) * d = n * d + d /\ 0 * d = 0
  OBVIOUS
<1> QED
  BY <1>1, TimesAssumption DEF Calls

LEMMA CallsGrow ==
    ASSUME NEW k \in Nat, NEW n \in Nat, k =< n
    PROVE  Calls(k) =< Calls(n)
<1>1. \A d \in Nat, i \in Nat, j \in Nat : i =< j => i * d =< j * d
  OBVIOUS
<1> QED
  BY <1>1, TimesAssumption DEF Calls

(* The constants of the bounds are numbers.                                *)
N == Cardinality(Agents)

LEMMA BoundTypes ==
    /\ N \in Nat \ {0}
    /\ MaxWait = Calls(N + MaxRemoves) /\ MaxMarks = Calls(N - 1)
    /\ MaxWait \in Nat /\ MaxMarks \in Nat /\ NoticedWithin \in Nat
    /\ NoticedWithin >= Timeout + CheckEvery + MaxWait + MaxMarks
    /\ NoticedWithin >= Timeout + MaxMarks + MaxWait + MaxMarks
<1>1. N \in Nat \ {0}
  BY AgentsAssumption, FS_CardinalityType, FS_EmptySet DEF N
<1>2. MaxWait = Calls(N + MaxRemoves) /\ MaxMarks = Calls(N - 1)
  BY DEF MaxWait, MaxMarks, Calls, N
<1>3. MaxWait \in Nat /\ MaxMarks \in Nat
  BY <1>1, <1>2, CallsAdd, TimesAssumption
<1>4. /\ Max({CheckEvery, MaxMarks}) \in Nat
      /\ CheckEvery =< Max({CheckEvery, MaxMarks}) /\ MaxMarks =< Max({CheckEvery, MaxMarks})
  BY <1>3, MaxOfTwo, TimesAssumption
<1> QED
  BY <1>1, <1>2, <1>3, <1>4, TimesAssumption DEF NoticedWithin

LEMMA AgeCapIsNat == AgeCap \in Nat
  BY BoundTypes DEF AgeCap

(* Every step keeps the flags Boolean.                                     *)
LEMMA FlagsStep == FlagsOK /\ [Next]_vars => FlagsOK'
<1> SUFFICES ASSUME FlagsOK, [Next]_vars PROVE FlagsOK'
  OBVIOUS
<1> USE DEF FlagsOK
<1>1. ASSUME NEW a \in Agents, Boot(a) \/ SendHeartbeat(a) \/ DeleteAgent(a) \/ Crash(a)
      PROVE  FlagsOK'
  BY <1>1 DEF Boot, SendHeartbeat, DeleteAgent, Crash, agentVars, pollVars, checkVars
<1>2. CASE EnqueueStartTest \/ Poll \/ DequeueCommand \/ GiveUp \/ DequeueForNobody
  BY <1>2, Zenon DEF EnqueueStartTest, Poll, DequeueCommand, GiveUp, DequeueForNobody, agentVars,
                     pollVars, checkVars
<1>3. ASSUME NEW a \in Agents, Register(a) \/ Heartbeat(a) \/ Remove(a) PROVE FlagsOK'
  BY <1>3, Zenon DEF Register, Heartbeat, Remove, agentVars, pollVars, checkVars
<1>4. CASE StartCheck \/ MarkOffline \/ DbReturns
  BY <1>4, Zenon DEF StartCheck, MarkOffline, DbReturns, agentVars, pollVars, checkVars
<1>5. CASE Tick
  BY <1>5 DEF Tick
<1>6. CASE UNCHANGED vars
  BY <1>6, Zenon DEF vars, agentVars, pollVars, checkVars
<1> QED
  BY <1>1, <1>2, <1>3, <1>4, <1>5, <1>6 DEF Next

(* Only operations wait for m.mu, and the health check.                    *)
LEMMA QueueStep == TypeOK /\ [Next]_vars => queue' \in Seq(Ops \cup {Check})
<1> SUFFICES ASSUME TypeOK, [Next]_vars PROVE queue' \in Seq(Ops \cup {Check})
  OBVIOUS
<1>0. queue \in Seq(Ops \cup {Check})
  BY DEF TypeOK
<1>1. \A a \in Agents, k \in {"register", "heartbeat", "remove", "mark"} : <<k, a>> \in Ops
  BY DEF Ops
<1>2. ASSUME NEW op \in Ops \cup {Check}, Granted(op) PROVE queue' \in Seq(Ops \cup {Check})
  BY <1>0, <1>2 DEF Granted
<1>3. ASSUME NEW op \in Ops \cup {Check}, queue' = Append(queue, op)
      PROVE  queue' \in Seq(Ops \cup {Check})
  BY <1>0, <1>3
<1>4. ASSUME NEW a \in Agents, Boot(a) \/ SendHeartbeat(a) \/ DeleteAgent(a) \/ Crash(a)
      PROVE  queue' \in Seq(Ops \cup {Check})
  BY <1>0, <1>1, <1>3, <1>4 DEF Boot, SendHeartbeat, DeleteAgent, Crash, lockVars
<1>5. ASSUME NEW a \in Agents, Register(a) \/ Heartbeat(a) \/ Remove(a)
      PROVE  queue' \in Seq(Ops \cup {Check})
  BY <1>1, <1>2, <1>5 DEF Register, Heartbeat, Remove
<1>6. CASE StartCheck \/ MarkOffline
  BY <1>2, <1>3, <1>6 DEF StartCheck, MarkOffline
<1>7. CASE EnqueueStartTest \/ Poll \/ DequeueCommand \/ GiveUp \/ DequeueForNobody
  BY <1>0, <1>7 DEF EnqueueStartTest, Poll, DequeueCommand, GiveUp, DequeueForNobody, lockVars
<1>8. CASE DbReturns \/ Tick \/ UNCHANGED vars
  BY <1>0, <1>8 DEF DbReturns, Tick, vars, lockVars
<1> QED
  BY <1>4, <1>5, <1>6, <1>7, <1>8 DEF Next

(* What the operations change under m.mu.                                  *)
LockTypes == /\ holder \in Ops \cup {Free} /\ left \subseteq Agents /\ dbAge \in 0 .. DbTicks
             /\ entry \in [Agents -> {"absent", "online", "offline"}]
             /\ age \in [Agents -> 0 .. AgeCap]

(* A call of the database starts with no time gone.                        *)
LEMMA CallKeepsTypes ==
    ASSUME LockTypes, NEW a \in Agents, NEW k \in {"register", "heartbeat", "remove", "mark"},
           CallDb(<<k, a>>), left' \subseteq Agents, NEW e \in {"absent", "online", "offline"},
           entry' = [entry EXCEPT ![a] = e], age' \in {age, [age EXCEPT ![a] = 0]}
    PROVE  LockTypes'
<1>1. <<k, a>> \in Ops
  BY DEF Ops
<1>2. 0 \in 0 .. AgeCap /\ 0 \in 0 .. DbTicks
  BY AgeCapIsNat, TimesAssumption
<1>3. age' \in [Agents -> 0 .. AgeCap]
  BY <1>2 DEF LockTypes
<1> QED
  BY <1>1, <1>2, <1>3 DEF LockTypes, CallDb

(* Every step keeps those types; Tick stops at the timeout of a call.      *)
LEMMA LockTypeStep == LockTypes /\ [Next]_vars => LockTypes'
<1> SUFFICES ASSUME LockTypes, [Next]_vars PROVE LockTypes'
  OBVIOUS
<1>1. ASSUME UNCHANGED <<holder, left, dbAge, entry, age>> PROVE LockTypes'
  BY <1>1 DEF LockTypes
<1>2. ASSUME NEW a \in Agents, NEW k \in {"register", "heartbeat"}, Refresh(a, <<k, a>>), left' = left
      PROVE  LockTypes'
  BY <1>2, CallKeepsTypes DEF Refresh, LockTypes
<1>3. ASSUME NEW a \in Agents, NEW rest \in SUBSET Agents, Mark(a, rest), age' = age PROVE LockTypes'
  BY <1>3, CallKeepsTypes DEF Mark
<1>4. ASSUME NEW a \in Agents, Register(a) PROVE LockTypes'
  BY <1>2, <1>4 DEF Register
<1>5. ASSUME NEW a \in Agents, Heartbeat(a) PROVE LockTypes'
  BY <1>1, <1>2, <1>5 DEF Heartbeat
<1>6. ASSUME NEW a \in Agents, Remove(a) PROVE LockTypes'
  BY <1>6, CallKeepsTypes DEF Remove, LockTypes
<1>7. CASE MarkOffline
  <2>1. Stale \subseteq Agents
    BY DEF Stale
  <2> QED
    BY <1>1, <1>3, <1>7, <2>1 DEF MarkOffline
<1>8. CASE DbReturns
  <2>1. CASE left = {}
    BY <1>8, <2>1, TimesAssumption DEF DbReturns, Unlock, LockTypes
  <2>2. CASE left # {}
    <3>1. PICK a \in left : Mark(a, left \ {a})
      BY <1>8, <2>2 DEF DbReturns, Unlock
    <3>2. a \in Agents /\ left \ {a} \in SUBSET Agents /\ age' = age
      BY <1>8 DEF LockTypes, DbReturns
    <3> QED
      BY <1>3, <3>1, <3>2
  <2> QED
    BY <2>1, <2>2
<1>9. CASE Tick
  <2>1. \A a \in Agents : age[a] + 1 \in Nat
    BY AgeCapIsNat DEF LockTypes
  <2>2. age' \in [Agents -> 0 .. AgeCap]
    BY <1>9, <2>1, MinOfTwo, AgeCapIsNat DEF Tick
  <2>3. dbAge' \in 0 .. DbTicks
    BY <1>9, TimesAssumption DEF Tick, Urgent, LockTypes
  <2> QED
    BY <1>9, <2>2, <2>3 DEF Tick, LockTypes
<1>10. ASSUME NEW a \in Agents, Boot(a) \/ SendHeartbeat(a) \/ DeleteAgent(a) \/ Crash(a)
       PROVE  LockTypes'
  BY <1>1, <1>10 DEF Boot, SendHeartbeat, DeleteAgent, Crash, lockVars
<1>11. CASE EnqueueStartTest \/ Poll \/ DequeueCommand \/ GiveUp \/ DequeueForNobody
  BY <1>1, <1>11 DEF EnqueueStartTest, Poll, DequeueCommand, GiveUp, DequeueForNobody, lockVars
<1>12. CASE StartCheck \/ UNCHANGED vars
  BY <1>1, <1>12 DEF StartCheck, vars, lockVars
<1> QED
  BY <1>4, <1>5, <1>6, <1>7, <1>8, <1>9, <1>10, <1>11, <1>12 DEF Next

(* The agents' loops, their polls, the command and the tickers.            *)
OtherTypes == /\ live \in [Agents -> {"off", "joining", "up", "dead"}]
              /\ beatIn \in [Agents -> 1 .. Interval]
              /\ poll \in 0 .. PollTicks + 1
              /\ cmd \in {"none", "queued", "done", "lost"}
              /\ checkIn \in 1 .. CheckEvery
              /\ removes \in 0 .. MaxRemoves /\ held \in 0 .. PollTicks

(* Every step keeps those types; Tick stops at the timeout of a poll.      *)
LEMMA OtherTypeStep == OtherTypes /\ [Next]_vars => OtherTypes'
<1> SUFFICES ASSUME OtherTypes, [Next]_vars PROVE OtherTypes'
  OBVIOUS
<1> USE TimesAssumption DEF OtherTypes
<1>1. ASSUME UNCHANGED <<live, beatIn, poll, cmd, checkIn, removes, held>> PROVE OtherTypes'
  BY <1>1
<1>2. ASSUME NEW a \in Agents, Boot(a) \/ Crash(a) PROVE OtherTypes'
  <2>1. \E p \in {"joining", "dead"} : live' = [live EXCEPT ![a] = p]
    BY <1>2 DEF Boot, Crash
  <2>2. UNCHANGED <<beatIn, poll, cmd, checkIn, removes, held>>
    BY <1>2 DEF Boot, Crash, pollVars, lockVars, checkVars
  <2> QED
    BY <2>1, <2>2
<1>3. ASSUME NEW op \in Ops \cup {Check}, Granted(op) PROVE held' \in 0 .. PollTicks
  BY <1>3 DEF Granted
<1>4. \A a \in Agents, k \in {"register", "heartbeat", "remove"} : <<k, a>> \in Ops
  BY DEF Ops
<1>5. ASSUME NEW a \in Agents, SendHeartbeat(a) PROVE OtherTypes'
  BY <1>1, <1>5 DEF SendHeartbeat, agentVars, pollVars, checkVars
<1>6. ASSUME NEW a \in Agents, Register(a) \/ Heartbeat(a) PROVE OtherTypes'
  <2>1. held' \in 0 .. PollTicks
    BY <1>3, <1>4, <1>6 DEF Register, Heartbeat
  <2> QED
    BY <1>6, <2>1 DEF Register, Heartbeat, agentVars, pollVars, checkVars
<1>7. ASSUME NEW a \in Agents, DeleteAgent(a) PROVE OtherTypes'
  BY <1>7 DEF DeleteAgent, agentVars, pollVars, checkVars
<1>8. ASSUME NEW a \in Agents, Remove(a) PROVE OtherTypes'
  <2>1. held' \in 0 .. PollTicks
    BY <1>3, <1>4, <1>8 DEF Remove
  <2> QED
    BY <1>8, <2>1 DEF Remove, agentVars, pollVars, checkVars
<1>9. CASE MarkOffline
  <2>1. held' \in 0 .. PollTicks
    BY <1>3, <1>9 DEF MarkOffline
  <2> QED
    BY <1>9, <2>1 DEF MarkOffline, agentVars, pollVars, checkVars
<1>10. CASE StartCheck \/ UNCHANGED vars
  BY <1>1, <1>10 DEF StartCheck, vars, agentVars, pollVars, lockVars, checkVars
<1>11. CASE EnqueueStartTest \/ DequeueForNobody
  BY <1>11 DEF EnqueueStartTest, DequeueForNobody, agentVars, pollVars, lockVars, checkVars
<1>12. CASE Poll \/ DequeueCommand \/ GiveUp
  BY <1>12 DEF Poll, DequeueCommand, GiveUp, agentVars, lockVars, checkVars
<1>13. CASE DbReturns
  <2>1. live' \in [Agents -> {"off", "joining", "up", "dead"}]
    BY <1>13 DEF DbReturns, Unlock
  <2> QED
    BY <1>13, <2>1 DEF DbReturns, pollVars, checkVars
<1>14. CASE Tick
  <2>1. poll' \in 0 .. PollTicks + 1
    BY <1>14 DEF Tick, Urgent, GivesUp
  <2>2. \A a \in Agents : NextBeat(a) \in 1 .. Interval
    BY DEF NextBeat
  <2>3. beatIn' \in [Agents -> 1 .. Interval]
    BY <1>14, <2>2 DEF Tick
  <2>4. checkIn' \in 1 .. CheckEvery
    BY <1>14 DEF Tick
  <2> QED
    BY <1>14, <2>1, <2>3, <2>4 DEF Tick
<1> QED
  BY <1>2, <1>5, <1>6, <1>7, <1>8, <1>9, <1>10, <1>11, <1>12, <1>13, <1>14 DEF Next

(* What the table says and which calls failed is never more than a status  *)
(* of each agent.                                                          *)
LEMMA TableTypeStep ==
    ASSUME LockTypes, row \in [Agents -> {"absent", "online", "offline"}], failed \subseteq Agents,
           [Next]_vars
    PROVE  row' \in [Agents -> {"absent", "online", "offline"}] /\ failed' \subseteq Agents
<1>1. CASE DbReturns
  <2>1. holder \in Ops /\ holder[2] \in Agents
    BY <1>1 DEF DbReturns, LockTypes, Ops
  <2>2. row' \in [Agents -> {"absent", "online", "offline"}]
    BY <1>1, <2>1, WrittenSays DEF DbReturns
  <2>3. failed' \subseteq Agents
    BY <1>1, <2>1 DEF DbReturns
  <2> QED
    BY <2>2, <2>3
<1>2. CASE UNCHANGED <<row, failed>>
  BY <1>2
<1>3. ASSUME NEW a \in Agents,
             \/ Boot(a) \/ SendHeartbeat(a) \/ DeleteAgent(a) \/ Crash(a)
             \/ Register(a) \/ Heartbeat(a) \/ Remove(a)
      PROVE  UNCHANGED <<row, failed>>
  BY <1>3 DEF Boot, SendHeartbeat, DeleteAgent, Crash, Register, Heartbeat, Remove, dbVars
<1>4. CASE EnqueueStartTest \/ Poll \/ DequeueCommand \/ GiveUp \/ DequeueForNobody
  BY <1>4 DEF EnqueueStartTest, Poll, DequeueCommand, GiveUp, DequeueForNobody, dbVars
<1>5. CASE StartCheck \/ MarkOffline \/ Tick \/ UNCHANGED vars
  BY <1>5 DEF StartCheck, MarkOffline, Tick, vars, dbVars
<1> QED
  BY <1>1, <1>2, <1>3, <1>4, <1>5 DEF Next

(* Every step keeps the types.                                             *)
LEMMA TypeStep == TypeOK /\ [Next]_vars => TypeOK'
<1> SUFFICES ASSUME TypeOK, [Next]_vars PROVE TypeOK'
  OBVIOUS
<1>1. FlagsOK' /\ queue' \in Seq(Ops \cup {Check})
  BY FlagsStep, QueueStep DEF TypeOK
<1>2. LockTypes'
  BY LockTypeStep DEF TypeOK, LockTypes
<1>3. OtherTypes'
  BY OtherTypeStep DEF TypeOK, OtherTypes
<1>4. row' \in [Agents -> {"absent", "online", "offline"}] /\ failed' \subseteq Agents
  BY TableTypeStep DEF TypeOK, LockTypes
<1> QED
  BY <1>1, <1>2, <1>3, <1>4 DEF TypeOK, LockTypes, OtherTypes

(* They have their types at the start.                                     *)
LEMMA InitTypes == Init => TypeOK
<1> SUFFICES ASSUME Init PROVE TypeOK
  OBVIOUS
<1>1. FlagsOK
  BY DEF Init, FlagsOK
<1>2. OtherTypes
  BY TimesAssumption DEF Init, OtherTypes
<1>3. LockTypes
  BY TimesAssumption, AgeCapIsNat DEF Init, LockTypes
<1>4. row \in [Agents -> {"absent", "online", "offline"}] /\ failed \subseteq Agents
      /\ queue \in Seq(Ops \cup {Check})
  BY DEF Init
<1> QED
  BY <1>1, <1>2, <1>3, <1>4 DEF TypeOK, OtherTypes, LockTypes

(* The variables keep their types: no poll and no database call outlasts   *)
(* its timeout, and no age its cap.                                        *)
THEOREM RegistryTypes == Spec => []TypeOK
  BY InitTypes, TypeStep, PTL DEF Spec
-----------------------------------------------------------------------------
(* A poll that waits has waited no longer than the present or last hold:   *)
(* no writer gets m.mu while a reader waits, and time goes on only while   *)
(* somebody holds it.  A poll that was given up has seen a hold as long as *)
(* its timeout.                                                            *)
PollInv ==
    /\ poll \in Nat /\ held \in 0 .. PollTicks
    /\ poll > 0 => poll - 1 <= held /\ live[Polled] \in {"up", "dead"}
    /\ ghost => held = PollTicks
    /\ live \in [Agents -> {"off", "joining", "up", "dead"}]
    /\ CommandSurvivesWait

(* PollInv is inductive.                                                   *)
LEMMA PollStep == PollInv /\ [Next]_vars => PollInv'
<1> SUFFICES ASSUME PollInv, [Next]_vars PROVE PollInv'
  OBVIOUS
<1> USE TimesAssumption, AgentsAssumption DEF PollInv, CommandSurvivesWait
<1>1. ASSUME UNCHANGED <<poll, ghost, held, live, cmd>> PROVE PollInv'
  BY <1>1
<1>2. ASSUME NEW a \in Agents, Boot(a) \/ Crash(a) PROVE PollInv'
  <2>1. UNCHANGED <<poll, ghost, held, cmd>>
    BY <1>2 DEF Boot, Crash, pollVars, lockVars
  <2>2. \/ live[a] = "off" /\ live' = [live EXCEPT ![a] = "joining"]
        \/ live[a] \in {"joining", "up"} /\ live' = [live EXCEPT ![a] = "dead"]
    BY <1>2 DEF Boot, Crash
  <2> QED
    BY <2>1, <2>2
<1>3. ASSUME NEW op \in Ops \cup {Check}, Granted(op), UNCHANGED <<live, poll, ghost>>,
             cmd' \in {cmd, "done"}
      PROVE  PollInv'
  BY <1>3 DEF Granted, ReaderWaits
<1>4. \A a \in Agents, k \in {"register", "heartbeat", "remove"} : <<k, a>> \in Ops
  BY DEF Ops
<1>5. ASSUME NEW a \in Agents, Register(a) \/ Heartbeat(a) \/ Remove(a) PROVE PollInv'
  BY <1>3, <1>4, <1>5 DEF Register, Heartbeat, Remove, agentVars, pollVars
<1>6. CASE MarkOffline
  BY <1>3, <1>6 DEF MarkOffline, agentVars, pollVars
<1>7. CASE Poll \/ EnqueueStartTest
  BY <1>7 DEF Poll, EnqueueStartTest, agentVars, pollVars, lockVars
<1>8. CASE DequeueCommand
  BY <1>8 DEF DequeueCommand, agentVars, lockVars
<1>9. CASE GiveUp
  BY <1>9 DEF GiveUp, GivesUp, agentVars, lockVars
<1>10. CASE DequeueForNobody
  BY <1>10 DEF DequeueForNobody, agentVars, lockVars
<1>11. CASE DbReturns
  <2>1. live' \in [Agents -> {"off", "joining", "up", "dead"}]
    BY <1>11 DEF DbReturns, Unlock
  <2>2. live[Polled] \in {"up", "dead"} => live'[Polled] = live[Polled]
    BY <1>11 DEF DbReturns, Unlock
  <2> QED
    BY <1>11, <2>1, <2>2 DEF DbReturns, pollVars
<1>12. CASE Tick
  BY <1>12 DEF Tick, Urgent, GivesUp, ReaderWaits
<1>13. ASSUME NEW a \in Agents, SendHeartbeat(a) \/ DeleteAgent(a) PROVE PollInv'
  BY <1>1, <1>13 DEF SendHeartbeat, DeleteAgent, agentVars, pollVars
<1>14. CASE StartCheck \/ UNCHANGED vars
  BY <1>1, <1>14 DEF StartCheck, vars, agentVars, pollVars, lockVars
<1> QED
  BY <1>2, <1>5, <1>6, <1>7, <1>8, <1>9, <1>10, <1>11, <1>12, <1>13, <1>14 DEF Next

(* A command is only lost to an agent that died, or to a single hold of    *)
(* m.mu as long as the timeout of a poll, for any load on the registry.    *)
THEOREM CommandsSurvive == Spec => []CommandSurvivesWait
<1>1. Init => PollInv
  BY TimesAssumption, AgentsAssumption DEF Init, PollInv, CommandSurvivesWait
<1>2. PollInv => CommandSurvivesWait
  BY DEF PollInv
<1> QED
  BY <1>1, <1>2, PollStep, PTL DEF Spec
-----------------------------------------------------------------------------
(* The line at m.mu: the holder at place 0, then those that wait.          *)
Places == 0 .. Len(queue)
At(i)  == IF i = 0 THEN holder ELSE queue[i]

CallOps == {"register", "heartbeat"}
CallOf(i, a) == At(i)[1] \in CallOps /\ At(i)[2] = a
CheckAt(i)   == At(i)[1] \in {"check", "mark"}
Removals     == {i \in Places : At(i)[1] = "remove"}

(* Who may stand in the line: one health check, one call of each agent,    *)
(* which is its registration until its process is up, and the removals.    *)
LineInv ==
    /\ \A i \in 1 .. Len(queue) : queue[i][1] # "mark"
    /\ \A i, j \in Places : CheckAt(i) /\ CheckAt(j) => i = j
    /\ \A i, j \in Places, a \in Agents : CallOf(i, a) /\ CallOf(j, a) => i = j
    /\ \A i \in Places, a \in Agents : CallOf(i, a) =>
          live[a] # "off" /\ (At(i)[1] = "register" => live[a] # "up")
    /\ Cardinality(Removals) =< removes
    /\ left # {} => holder[1] = "mark"

(* What moves the line: one joins its end, or those that wait move up by k *)
(* places, and the holder is the first of them or has gone; a check that   *)
(* gets m.mu, or goes on to the next agent, is at the mark of an agent.    *)
Joins(op) ==
    /\ Len(queue') = Len(queue) + 1
    /\ \A i \in 1 .. Len(queue) : queue'[i] = queue[i]
    /\ queue'[Len(queue) + 1] = op
    /\ holder' = holder

Shifts(k) ==
    /\ Len(queue') = Len(queue) - k
    /\ \A i \in 1 .. Len(queue') : queue'[i] = queue[i + k]
    /\ \/ holder' = At(k)
       \/ holder' = Free
       \/ holder'[1] = "mark" /\ holder' \in Ops /\ CheckAt(k)

LEMMA AppendJoins ==
    ASSUME queue \in Seq(Ops \cup {Check}), NEW op \in Ops \cup {Check},
           queue' = Append(queue, op), holder' = holder
    PROVE  Joins(op)
<1>1. Len(Append(queue, op)) = Len(queue) + 1
  BY AppendProperties
<1>2. \A i \in 1 .. Len(queue) : Append(queue, op)[i] = queue[i]
  BY AppendProperties
<1>3. Append(queue, op)[Len(queue) + 1] = op
  BY AppendProperties
<1> QED
  BY <1>1, <1>2, <1>3 DEF Joins

LEMMA TailShifts ==
    ASSUME queue \in Seq(Ops \cup {Check}), NEW op, Granted(op),
           \/ holder' = op
           \/ holder' = Free
           \/ holder'[1] = "mark" /\ holder' \in Ops /\ op = Check
    PROVE  Shifts(1) /\ queue[1] = op /\ Len(queue) >= 1
<1>1. queue # <<>> /\ Head(queue) = op /\ queue' = Tail(queue)
  BY DEF Granted
<1>2. /\ Len(Tail(queue)) = Len(queue) - 1
      /\ \A i \in 1 .. Len(Tail(queue)) : Tail(queue)[i] = queue[i + 1]
  BY <1>1, HeadTailProperties
<1>3. Head(queue) = queue[1]
  BY <1>1
<1>4. Len(queue) \in Nat /\ Len(queue) # 0
  BY <1>1, EmptySeq, LenProperties
<1>5. At(1) = op /\ (op = Check => CheckAt(1))
  BY <1>1, <1>3 DEF At, CheckAt, Check
<1> QED
  BY <1>1, <1>2, <1>3, <1>4, <1>5 DEF Shifts

LEMMA StaysShift ==
    ASSUME queue \in Seq(Ops \cup {Check}), queue' = queue,
           \/ holder' = holder
           \/ holder' = Free
           \/ holder'[1] = "mark" /\ holder' \in Ops /\ holder[1] = "mark"
    PROVE  Shifts(0)
<1>1. Len(queue) \in Nat
  BY LenProperties
<1>2. \A i \in 1 .. Len(queue) : i + 0 = i
  BY <1>1
<1> QED
  BY <1>1, <1>2 DEF Shifts, At, CheckAt

(* Who stands in the line is an operation, or nobody holds m.mu.           *)
LEMMA LineTypes ==
    ASSUME TypeOK
    PROVE  /\ Len(queue) \in Nat
           /\ \A i \in 1 .. Len(queue) : At(i) = queue[i] /\ queue[i] \in Ops \cup {Check}
           /\ At(0) = holder /\ holder \in Ops \cup {Free}
<1>1. queue \in Seq(Ops \cup {Check}) /\ holder \in Ops \cup {Free}
  BY DEF TypeOK
<1>2. Len(queue) \in Nat
  BY <1>1, LenProperties
<1>3. \A i \in 1 .. Len(queue) : queue[i] \in Ops \cup {Check}
  BY <1>1, ElementOfSeq
<1> QED
  BY <1>1, <1>2, <1>3 DEF At
(* A place of the line after a step, and what stood there before.          *)
LEMMA JoinedPlaces ==
    ASSUME TypeOK, NEW op \in Ops \cup {Check}, Joins(op), NEW e \in Nat, e = Len(queue) + 1
    PROVE  /\ Places' = Places \cup {e} /\ e \notin Places /\ e # 0
           /\ \A i \in Places : At(i)' = At(i)
           /\ At(e)' = op
<1>1. Len(queue) \in Nat
  BY LineTypes
<1>2. \A n \in Nat : /\ 0 .. n + 1 = (0 .. n) \cup {n + 1} /\ n + 1 \notin 0 .. n /\ n + 1 # 0
                     /\ \A i \in 0 .. n : i # 0 => i \in 1 .. n
  OBVIOUS
<1>3. \A i \in Places : At(i)' = At(i)
  BY <1>1, <1>2 DEF Joins, At, Places
<1>4. At(e)' = op /\ e # 0
  BY <1>1, <1>2 DEF Joins, At
<1>5. Places' = 0 .. Len(queue) + 1
  BY DEF Joins, Places
<1> QED
  BY <1>1, <1>2, <1>3, <1>4, <1>5 DEF Places

LEMMA ShiftedPlaces ==
    ASSUME TypeOK, TypeOK', LineInv, NEW k \in {0, 1}, k =< Len(queue), Shifts(k)
    PROVE  \A i \in Places' :
              /\ i + k \in Places
              /\ \/ At(i)' = At(i + k)
                 \/ i = 0 /\ At(i)' = Free
                 \/ i = 0 /\ At(i)' \in Ops /\ At(i)'[1] = "mark" /\ CheckAt(i + k)
<1>1. Len(queue) \in Nat /\ Len(queue') = Len(queue) - k
  BY LineTypes DEF Shifts
<1>2. \A n \in Nat : k =< n => /\ \A i \in 0 .. n - k : i + k \in 0 .. n /\ (i # 0 => i \in 1 .. n - k)
                               /\ 0 + k = k /\ \A i \in 1 .. n - k : i + k # 0 /\ i # 0
  OBVIOUS
<1>3. \A i \in Places' : i + k \in Places /\ (i # 0 => i \in 1 .. Len(queue') /\ i + k # 0)
  BY <1>1, <1>2 DEF Places
<1>4. \A i \in Places' : i # 0 => At(i)' = At(i + k)
  BY <1>3 DEF Shifts, At
<1>5. \/ At(0)' = At(0 + k)
      \/ At(0)' = Free
      \/ At(0)' \in Ops /\ At(0)'[1] = "mark" /\ CheckAt(0 + k)
  BY <1>1, <1>2 DEF Shifts, At
<1> QED
  BY <1>3, <1>4, <1>5

(* A writer that may stand in the line joins it.                           *)
LEMMA JoinKeepsLine ==
    ASSUME TypeOK, TypeOK', LineInv, NEW op \in Ops \cup {Check}, op[1] # "mark", Joins(op),
           left' = left,
           op = Check => \A i \in Places : ~CheckAt(i),
           op[1] \in CallOps => /\ \A i \in Places : ~CallOf(i, op[2])
                                /\ live'[op[2]] # "off"
                                /\ op[1] = "register" => live'[op[2]] # "up",
           \A a \in Agents : /\ live[a] # "off" => live'[a] # "off"
                             /\ live'[a] = "up" => live[a] = "up",
           removes' = IF op[1] = "remove" THEN removes + 1 ELSE removes
    PROVE  LineInv'
<1>0. Len(queue) \in Nat
  BY LineTypes
<1>e. PICK e \in Nat : e = Len(queue) + 1
  BY <1>0
<1>1. /\ Places' = Places \cup {e} /\ e \notin Places
      /\ \A i \in Places : At(i)' = At(i)
      /\ At(e)' = op
  BY <1>e, JoinedPlaces
<1>2. Len(queue) \in Nat /\ IsFiniteSet(Places) /\ removes \in Nat
  <2>1. IsFiniteSet(0 .. Len(queue))
    BY <1>0, FS_Interval
  <2> QED
    BY <1>0, <2>1 DEF Places, TypeOK
<1>3. \A i \in 1 .. Len(queue') : queue'[i][1] # "mark"
  <2>1. \A n \in Nat : \A i \in 1 .. n + 1 : i \in 1 .. n \/ i = n + 1
    OBVIOUS
  <2> QED
    BY <1>2, <2>1 DEF Joins, LineInv
<1>4. (op[1] = "check" => op = Check) /\ op[1] # "mark"
  BY DEF Ops
<1>5. \A i, j \in Places' : CheckAt(i)' /\ CheckAt(j)' => i = j
  BY <1>1, <1>4 DEF CheckAt, LineInv
<1>6. \A i, j \in Places', a \in Agents : CallOf(i, a)' /\ CallOf(j, a)' => i = j
  BY <1>1 DEF CallOf, LineInv
<1>7. \A i \in Places', a \in Agents : CallOf(i, a)' =>
          live'[a] # "off" /\ (At(i)'[1] = "register" => live'[a] # "up")
  BY <1>1 DEF CallOf, LineInv
<1>8. Cardinality(Removals') =< removes'
  <2>1. IsFiniteSet(Removals) /\ Cardinality(Removals) \in Nat /\ Cardinality(Removals) =< removes
    BY <1>2, FS_Subset, FS_CardinalityType DEF Removals, LineInv
  <2>2. CASE op[1] = "remove"
    <3>1. Removals' = Removals \cup {e} /\ e \notin Removals
      BY <1>1, <2>2 DEF Removals
    <3>2. Cardinality(Removals \cup {e}) = Cardinality(Removals) + 1
      BY <2>1, <3>1, FS_AddElement
    <3> QED
      BY <1>2, <2>1, <2>2, <3>1, <3>2
  <2>3. CASE op[1] # "remove"
    <3>1. Removals' = Removals
      BY <1>1, <2>3 DEF Removals
    <3> QED
      BY <2>1, <2>3, <3>1
  <2> QED
    BY <2>2, <2>3
<1>9. left' # {} => holder'[1] = "mark"
  BY DEF Joins, LineInv
<1> QED
  BY <1>3, <1>5, <1>6, <1>7, <1>8, <1>9 DEF LineInv

(* The line moves up, or stays as it is.                                   *)
LEMMA ShiftKeepsLine ==
    ASSUME TypeOK, TypeOK', LineInv, NEW k \in {0, 1}, k =< Len(queue), Shifts(k),
           left' # {} => holder'[1] = "mark",
           \A a \in Agents : /\ live[a] # "off" => live'[a] # "off"
                             /\ live'[a] = "up" =>
                                   \/ live[a] = "up"
                                   \/ k = 0 /\ CallOf(0, a) /\ holder' # holder,
           removes' = removes
    PROVE  LineInv'
<1>1. \A i \in Places' :
              /\ i + k \in Places
              /\ \/ At(i)' = At(i + k)
                 \/ i = 0 /\ At(i)' = Free
                 \/ i = 0 /\ At(i)' \in Ops /\ At(i)'[1] = "mark" /\ CheckAt(i + k)
  BY ShiftedPlaces
<1>2. Len(queue) \in Nat /\ Len(queue') \in Nat
  BY LineTypes, LenProperties DEF TypeOK
<1>3. \A i, j \in Places' : i + k = j + k => i = j
  BY <1>2 DEF Places
<1>4. Free[1] = "free" /\ "free" \notin {"check", "mark", "remove"} \cup CallOps
  BY DEF Free, CallOps
<1>5. \A i \in Places' : CheckAt(i)' => CheckAt(i + k)
  BY <1>1, <1>4 DEF CheckAt
<1>6. \A i \in Places', a \in Agents : CallOf(i, a)' => CallOf(i + k, a) /\ At(i)' = At(i + k)
  BY <1>1, <1>4 DEF CallOf, CallOps
<1>7. \A i \in Places' : At(i)'[1] = "remove" => At(i + k)[1] = "remove"
  BY <1>1, <1>4
<1>8. \A i \in 1 .. Len(queue') : queue'[i][1] # "mark"
  <2>1. \A i \in 1 .. Len(queue') : i + k \in 1 .. Len(queue)
    BY <1>2 DEF Shifts
  <2> QED
    BY <2>1 DEF Shifts, LineInv
<1>9. \A i, j \in Places' : CheckAt(i)' /\ CheckAt(j)' => i = j
  BY <1>1, <1>3, <1>5 DEF LineInv
<1>10. \A i, j \in Places', a \in Agents : CallOf(i, a)' /\ CallOf(j, a)' => i = j
  BY <1>1, <1>3, <1>6 DEF LineInv
<1>11. ASSUME NEW i \in Places', NEW a \in Agents, CallOf(i, a)'
       PROVE  live'[a] # "off" /\ (At(i)'[1] = "register" => live'[a] # "up")
  <2>1. i + k \in Places /\ CallOf(i + k, a) /\ At(i)' = At(i + k)
    BY <1>1, <1>6, <1>11
  <2>2. live[a] # "off" /\ (At(i + k)[1] = "register" => live[a] # "up")
    BY <2>1 DEF LineInv
  <2>3. ~(k = 0 /\ CallOf(0, a) /\ holder' # holder)
    <3>1. SUFFICES ASSUME k = 0, CallOf(0, a), holder' # holder PROVE FALSE
      OBVIOUS
    <3>2. 0 \in Places /\ i + k = i
      BY <1>2, <3>1 DEF Places
    <3>3. i = 0
      BY <2>1, <3>1, <3>2 DEF LineInv
    <3> QED
      BY <2>1, <3>1, <3>2, <3>3 DEF At
  <2> QED
    BY <2>1, <2>2, <2>3
<1>12. Cardinality(Removals') =< removes'
  <2> DEFINE f == [i \in Removals' |-> i + k]
  <2>1. f \in Injection(Removals', Removals)
    <3>1. f \in [Removals' -> Removals]
      BY <1>1, <1>7 DEF Removals
    <3>2. \A i, j \in Removals' : f[i] = f[j] => i = j
      BY <1>3 DEF Removals
    <3> QED
      BY <3>1, <3>2 DEF Injection, IsInjective
  <2>2. IsFiniteSet(Removals)
    <3>1. \A n \in Nat : IsFiniteSet(0 .. n)
      BY FS_Interval
    <3>2. IsFiniteSet(0 .. Len(queue))
      BY ONLY <1>2, <3>1
    <3>3. IsFiniteSet(Places)
      BY <3>2 DEF Places
    <3> QED
      BY <3>3, FS_Subset DEF Removals
  <2> HIDE DEF f
  <2>3. IsFiniteSet(Removals') /\ Cardinality(Removals') =< Cardinality(Removals)
    BY <2>1, <2>2, FS_Injection
  <2>4. Cardinality(Removals') \in Nat /\ Cardinality(Removals) \in Nat /\ removes \in Nat
    BY <2>2, <2>3, FS_CardinalityType DEF TypeOK
  <2>5. Cardinality(Removals) =< removes
    BY DEF LineInv
  <2> QED
    BY ONLY <2>3, <2>4, <2>5, removes' = removes
<1> QED
  BY <1>8, <1>9, <1>10, <1>11, <1>12 DEF LineInv
(* How each action moves the line.                                         *)
LEMMA JoinMoves ==
    ASSUME TypeOK, NEW a \in Agents
    PROVE  /\ Boot(a) => Joins(<<"register", a>>)
           /\ SendHeartbeat(a) => Joins(<<"heartbeat", a>>)
           /\ DeleteAgent(a) => Joins(<<"remove", a>>)
           /\ StartCheck => Joins(Check)
<1>1. queue \in Seq(Ops \cup {Check})
  BY DEF TypeOK
<1>2. \A k \in {"register", "heartbeat", "remove"} : <<k, a>> \in Ops
  BY DEF Ops
<1>3. Boot(a) => Joins(<<"register", a>>)
  BY <1>1, <1>2, AppendJoins DEF Boot
<1>4. SendHeartbeat(a) => Joins(<<"heartbeat", a>>)
  BY <1>1, <1>2, AppendJoins DEF SendHeartbeat
<1>5. DeleteAgent(a) => Joins(<<"remove", a>>)
  BY <1>1, <1>2, AppendJoins DEF DeleteAgent
<1>6. StartCheck => Joins(Check)
  BY <1>1, AppendJoins DEF StartCheck
<1> QED
  BY <1>3, <1>4, <1>5, <1>6

Moved(op) == Shifts(1) /\ queue[1] = op /\ Len(queue) >= 1

LEMMA GrantMoves ==
    ASSUME TypeOK, NEW a \in Agents
    PROVE  /\ Register(a) => Moved(<<"register", a>>)
           /\ Heartbeat(a) => Moved(<<"heartbeat", a>>)
           /\ Remove(a) => Moved(<<"remove", a>>)
           /\ MarkOffline => Moved(Check)
<1>1. queue \in Seq(Ops \cup {Check})
  BY DEF TypeOK
<1>2. Register(a) => Moved(<<"register", a>>)
  BY <1>1, TailShifts DEF Register, Refresh, CallDb, Moved
<1>3. Heartbeat(a) => Moved(<<"heartbeat", a>>)
  <2>1. SUFFICES ASSUME Heartbeat(a) PROVE Moved(<<"heartbeat", a>>)
    OBVIOUS
  <2>2. Granted(<<"heartbeat", a>>)
    BY <2>1 DEF Heartbeat
  <2>3. holder' = <<"heartbeat", a>> \/ holder' = Free
    BY <2>1 DEF Heartbeat, Refresh, CallDb, Granted
  <2> QED
    BY <1>1, <2>2, <2>3, TailShifts DEF Moved
<1>4. Remove(a) => Moved(<<"remove", a>>)
  BY <1>1, TailShifts DEF Remove, CallDb, Moved
<1>5. MarkOffline => Moved(Check)
  <2>1. SUFFICES ASSUME MarkOffline PROVE Moved(Check)
    OBVIOUS
  <2>2. Granted(Check)
    BY <2>1 DEF MarkOffline
  <2>3. holder' = Free \/ \E b \in Stale : holder' = <<"mark", b>>
    BY <2>1 DEF MarkOffline, Mark, CallDb, Granted
  <2>4. \A b \in Stale : <<"mark", b>> \in Ops /\ <<"mark", b>>[1] = "mark"
    BY DEF Stale, Ops
  <2> QED
    BY <1>1, <2>2, <2>3, <2>4, TailShifts DEF Moved
<1> QED
  BY <1>2, <1>3, <1>4, <1>5

LEMMA StayMoves ==
    ASSUME TypeOK, LineInv
    PROVE  /\ DbReturns => Shifts(0)
           /\ Tick => Shifts(0)
           /\ UNCHANGED <<queue, holder>> => Shifts(0)
<1>1. queue \in Seq(Ops \cup {Check})
  BY DEF TypeOK
<1>2. UNCHANGED <<queue, holder>> => Shifts(0)
  BY <1>1, StaysShift
<1>3. Tick => Shifts(0)
  BY <1>2 DEF Tick
<1>4. ASSUME DbReturns PROVE Shifts(0)
  <2>1. queue' = queue
    BY <1>4 DEF DbReturns
  <2>2. CASE left = {}
    BY <1>1, <1>4, <2>1, <2>2, StaysShift DEF DbReturns, Unlock
  <2>3. CASE left # {}
    <3>1. PICK b \in left : holder' = <<"mark", b>>
      BY <1>4, <2>3 DEF DbReturns, Unlock, Mark, CallDb
    <3>2. holder' \in Ops /\ holder'[1] = "mark" /\ holder[1] = "mark"
      BY <2>3, <3>1 DEF TypeOK, Ops, LineInv
    <3> QED
      BY <1>1, <2>1, <3>2, StaysShift
  <2> QED
    BY <2>2, <2>3
<1> QED
  BY <1>2, <1>3, <1>4

(* The steps that leave the line and its agents alone.                     *)
lineVars == <<live, beatIn, beatDue, entry, age, queue, holder, left, dbAge, checkIn, checkDue, removes>>

LEMMA IdleSteps ==
    ASSUME EnqueueStartTest \/ Poll \/ DequeueCommand \/ GiveUp \/ DequeueForNobody \/ UNCHANGED vars
    PROVE  UNCHANGED lineVars
  BY Zenon DEF EnqueueStartTest, Poll, DequeueCommand, GiveUp, DequeueForNobody, vars, agentVars,
         pollVars, dbVars, lockVars, checkVars, lineVars

(* An agent that is up has no call in the line but a heartbeat.            *)
LEMMA SenderHasNoCall ==
    ASSUME TypeOK, LineInv, NEW a \in Agents, live[a] = "up"
    PROVE  Busy(<<"heartbeat", a>>) <=> \E i \in Places : CallOf(i, a)
<1>0. Len(queue) \in Nat /\ queue \in Seq(Ops \cup {Check})
  BY LineTypes DEF TypeOK
<1>1. Range(queue) = {queue[i] : i \in 1 .. Len(queue)}
  BY <1>0, LenProperties DEF Range
<1>2. \A i \in Places : i = 0 \/ i \in 1 .. Len(queue)
  BY <1>0 DEF Places
<1>3. 0 \in Places /\ \A i \in 1 .. Len(queue) : i \in Places /\ i # 0
  BY <1>0 DEF Places
<1>4. ASSUME NEW i \in Places, CallOf(i, a) PROVE At(i) = <<"heartbeat", a>>
  <2>1. At(i) \in Ops \cup {Check, Free}
    BY <1>2, LineTypes
  <2>2. At(i)[1] = "heartbeat" /\ At(i)[2] = a
    BY <1>4 DEF LineInv, CallOf, CallOps
  <2> QED
    BY <2>1, <2>2 DEF Ops, Check, Free
<1>5. ASSUME NEW i \in Places, At(i) = <<"heartbeat", a>> PROVE CallOf(i, a)
  BY <1>5 DEF CallOf, CallOps
<1>6. Busy(<<"heartbeat", a>>) <=> \E i \in Places : At(i) = <<"heartbeat", a>>
  BY <1>1, <1>2, <1>3 DEF Busy, At
<1> QED
  BY <1>4, <1>5, <1>6

(* LineInv is inductive.                                                   *)
LEMMA LineStep ==
    ASSUME TypeOK, LockInv, LineInv, [Next]_vars
    PROVE  LineInv'
<1>0. TypeOK' /\ Len(queue) \in Nat /\ removes \in Nat
  <2>1. TypeOK' /\ Len(queue) \in Nat
    BY TypeStep, LineTypes
  <2>2. removes \in 0 .. MaxRemoves
    BY DEF TypeOK
  <2> QED
    BY <2>1, <2>2, TimesAssumption
<1> DEFINE LiveKept == \A a \in Agents : /\ live[a] # "off" => live'[a] # "off"
                                         /\ live'[a] = "up" => live[a] = "up"
<1>1. ASSUME NEW a \in Agents, Boot(a) PROVE LineInv'
  <2>1. live[a] = "off" /\ live' = [live EXCEPT ![a] = "joining"] /\ left' = left
        /\ removes' = removes
    BY <1>1 DEF Boot
  <2>2. live'[a] = "joining" /\ LiveKept
    BY <2>1 DEF TypeOK
  <2>3. \A i \in Places : ~CallOf(i, a)
    BY <2>1 DEF LineInv
  <2>4. Joins(<<"register", a>>) /\ <<"register", a>> \in Ops
    BY <1>1, JoinMoves DEF Ops
  <2> QED
    BY <1>0, <2>1, <2>2, <2>3, <2>4, JoinKeepsLine DEF Check
<1>2. ASSUME NEW a \in Agents, SendHeartbeat(a) PROVE LineInv'
  <2>1. live[a] = "up" /\ ~Busy(<<"heartbeat", a>>) /\ UNCHANGED <<live, left, removes>>
    BY <1>2 DEF SendHeartbeat, SendsHeartbeat
  <2>2. \A i \in Places : ~CallOf(i, a)
    BY <2>1, SenderHasNoCall
  <2>3. Joins(<<"heartbeat", a>>) /\ <<"heartbeat", a>> \in Ops
    BY <1>2, JoinMoves DEF Ops
  <2> QED
    BY <1>0, <2>1, <2>2, <2>3, JoinKeepsLine DEF Check
<1>3. ASSUME NEW a \in Agents, DeleteAgent(a) PROVE LineInv'
  <2>1. UNCHANGED <<live, left>> /\ removes' = removes + 1
    BY <1>3 DEF DeleteAgent, agentVars
  <2>2. Joins(<<"remove", a>>) /\ <<"remove", a>> \in Ops /\ "remove" \notin CallOps
    BY <1>3, JoinMoves DEF Ops, CallOps
  <2> QED
    BY <1>0, <2>1, <2>2, JoinKeepsLine DEF Check
<1>4. CASE StartCheck
  <2>1. ~Checking /\ UNCHANGED <<live, left, removes>>
    BY <1>4 DEF StartCheck, StartsCheck, agentVars
  <2>2. \A i \in Places : ~CheckAt(i)
    <3>1. queue \in Seq(Ops \cup {Check})
      BY DEF TypeOK
    <3>2. \A i \in 1 .. Len(queue) : queue[i] \in Range(queue)
      BY <3>1, LenProperties DEF Range
    <3>3. \A i \in Places : i # 0 => i \in 1 .. Len(queue)
      BY <1>0 DEF Places
    <3>4. \A i \in 1 .. Len(queue) : queue[i] # Check /\ queue[i] \in Ops /\ queue[i][1] # "mark"
      BY <2>1, <3>2, LineTypes DEF Checking, LineInv
    <3>5. \A i \in 1 .. Len(queue) : ~CheckAt(i)
      BY <3>4, LineTypes DEF CheckAt, Ops
    <3>6. ~CheckAt(0)
      BY <2>1, LineTypes DEF CheckAt, Ops, Free, Checking
    <3> QED
      BY <3>3, <3>5, <3>6
  <2>3. Joins(Check) /\ Check[1] = "check" /\ "check" \notin CallOps
    BY <1>4, JoinMoves, AgentsAssumption DEF CallOps, Check
  <2> QED
    BY <1>0, <2>1, <2>2, <2>3, JoinKeepsLine
<1>5. ASSUME NEW op, Moved(op), holder = Free, UNCHANGED <<live, removes>>,
             left' # {} => holder'[1] = "mark"
      PROVE  LineInv'
  BY <1>0, <1>5, ShiftKeepsLine DEF Moved
<1>6. ASSUME NEW a \in Agents, Register(a) \/ Heartbeat(a) \/ Remove(a) PROVE LineInv'
  <2>1. \E op : Moved(op)
    BY <1>6, GrantMoves
  <2>2. holder = Free /\ UNCHANGED <<live, removes, left>>
    BY <1>6 DEF Register, Heartbeat, Remove, agentVars, Granted
  <2>3. left = {}
    BY <2>2 DEF LockInv
  <2> QED
    BY <1>5, <2>1, <2>2, <2>3
<1>7. CASE MarkOffline
  <2>1. Moved(Check)
    BY <1>7, GrantMoves, AgentsAssumption
  <2>2. holder = Free /\ UNCHANGED <<live, removes>>
    BY <1>7 DEF MarkOffline, agentVars, Granted
  <2>3. left' = left \/ \E b : holder' = <<"mark", b>>
    BY <1>7 DEF MarkOffline, Mark, CallDb
  <2>4. left = {}
    BY <2>2 DEF LockInv
  <2> QED
    BY <1>5, <2>1, <2>2, <2>3, <2>4
<1>8. CASE DbReturns
  <2>1. Shifts(0) /\ removes' = removes /\ 0 =< Len(queue)
    BY <1>0, <1>8, StayMoves DEF DbReturns
  <2>2. (holder' = Free /\ left' = {}) \/ \E b : holder' = <<"mark", b>>
    BY <1>8 DEF DbReturns, Unlock, Mark, CallDb
  <2>3. left' # {} => holder'[1] = "mark"
    BY <2>2
  <2>4. ASSUME NEW a \in Agents
        PROVE  /\ live[a] # "off" => live'[a] # "off"
               /\ live'[a] = "up" => live[a] = "up" \/ (CallOf(0, a) /\ holder' # holder)
    <3>1. live'[a] = IF holder = <<"register", a>> /\ live[a] = "joining" THEN "up" ELSE live[a]
      BY <1>8 DEF DbReturns, Unlock
    <3>2. holder = <<"register", a>> => CallOf(0, a) /\ holder' # holder
      BY <2>2 DEF CallOf, At, CallOps, Free
    <3> QED
      BY <3>1, <3>2
  <2> QED
    BY <1>0, <2>1, <2>3, <2>4, ShiftKeepsLine
<1>9. ASSUME UNCHANGED <<queue, holder, left, removes>>, LiveKept PROVE LineInv'
  <2>1. Shifts(0) /\ 0 =< Len(queue)
    BY <1>0, <1>9, StayMoves
  <2>2. left' # {} => holder'[1] = "mark"
    BY <1>9 DEF LineInv
  <2> QED
    BY <1>0, <1>9, <2>1, <2>2, ShiftKeepsLine
<1>10. ASSUME NEW a \in Agents, Crash(a) PROVE LineInv'
  <2>1. live' = [live EXCEPT ![a] = "dead"] /\ UNCHANGED <<queue, holder, left, removes>>
    BY <1>10 DEF Crash, lockVars
  <2>2. LiveKept
    BY <2>1 DEF TypeOK
  <2> QED
    BY <1>9, <2>1, <2>2
<1>11. CASE Tick
  BY <1>9, <1>11 DEF Tick
<1>12. CASE EnqueueStartTest \/ Poll \/ DequeueCommand \/ GiveUp \/ DequeueForNobody \/ UNCHANGED vars
  BY <1>9, <1>12, IdleSteps DEF lineVars
<1> QED
  BY <1>1, <1>2, <1>3, <1>4, <1>6, <1>7, <1>8, <1>10, <1>11, <1>12 DEF Next
-----------------------------------------------------------------------------
(* How many can stand in the line: those agents in Y that are not in X, of *)
(* which each has one call, and the removals.                              *)
LEMMA CountPlaces ==
    ASSUME TypeOK, LineInv, NEW P \in SUBSET Places, NEW X, NEW Y \in SUBSET Agents, X \subseteq Y,
           \A i \in P : At(i)[1] = "remove" \/ \E a \in Y \ X : CallOf(i, a)
    PROVE  /\ Cardinality(P) \in Nat /\ Cardinality(X) \in Nat /\ Cardinality(Y) \in Nat
           /\ Cardinality(P) + Cardinality(X) =< Cardinality(Y) + MaxRemoves
<1>1. IsFiniteSet(Places) /\ IsFiniteSet(P) /\ IsFiniteSet(Y) /\ IsFiniteSet(X) /\ IsFiniteSet(Y \ X)
  <2>1. IsFiniteSet(Places)
    <3>1. IsFiniteSet(0 .. Len(queue))
      BY LineTypes, FS_Interval
    <3> QED
      BY <3>1 DEF Places
  <2>2. IsFiniteSet(Y)
    BY AgentsAssumption, FS_Subset
  <2>3. X \in SUBSET Y /\ Y \ X \in SUBSET Y
    OBVIOUS
  <2> QED
    BY <2>1, <2>2, <2>3, FS_Subset
<1> DEFINE C == {i \in P : At(i)[1] # "remove"}
<1>2. Cardinality(C) =< Cardinality(Y \ X)
  <2> DEFINE f == [i \in C |-> At(i)[2]]
  <2>1. \A i \in C : At(i)[2] \in Y \ X /\ CallOf(i, At(i)[2]) /\ i \in Places /\ At(i)[2] \in Agents
    BY DEF CallOf
  <2>2. \A i, j \in C : At(i)[2] = At(j)[2] => i = j
    BY <2>1 DEF LineInv
  <2>3. f \in Injection(C, Y \ X)
    BY <2>1, <2>2 DEF Injection, IsInjective
  <2> HIDE DEF f, C
  <2> QED
    BY <1>1, <2>3, FS_Injection
<1>3. Cardinality(Y \ X) = Cardinality(Y) - Cardinality(X)
  <2>1. Y \cap X = X
    OBVIOUS
  <2> QED
    BY <1>1, <2>1, FS_Difference
<1>4. Cardinality(P \cap Removals) =< MaxRemoves /\ IsFiniteSet(P \cap Removals)
  <2>1. IsFiniteSet(Removals)
    BY <1>1, FS_Subset DEF Removals
  <2>2. P \cap Removals \in SUBSET Removals
    OBVIOUS
  <2>3. IsFiniteSet(P \cap Removals) /\ Cardinality(P \cap Removals) =< Cardinality(Removals)
    BY <2>1, <2>2, FS_Subset
  <2>4. Cardinality(Removals) \in Nat /\ Cardinality(P \cap Removals) \in Nat
    BY <2>1, <2>3, FS_CardinalityType
  <2>5. Cardinality(Removals) =< removes /\ removes \in 0 .. MaxRemoves
    BY DEF LineInv, TypeOK
  <2> QED
    BY <2>3, <2>4, <2>5, TimesAssumption
<1>5. Cardinality(P) = Cardinality(C) + Cardinality(P \cap Removals)
  <2>1. IsFiniteSet(C)
    BY <1>1, FS_Subset
  <2>2. P = C \cup (P \cap Removals) /\ C \cap (P \cap Removals) = {}
    BY DEF Removals
  <2> HIDE DEF C
  <2>3. Cardinality(C \cup (P \cap Removals))
          = Cardinality(C) + Cardinality(P \cap Removals) - Cardinality({})
    BY <1>4, <2>1, <2>2, FS_Union
  <2>4. Cardinality(C) \in Nat /\ Cardinality(P \cap Removals) \in Nat
    BY <1>4, <2>1, FS_CardinalityType
  <2>5. Cardinality(P) = Cardinality(C \cup (P \cap Removals))
    BY <2>2
  <2>6. Cardinality({}) = 0 /\ \A m, n \in Nat : m + n - 0 = m + n
    BY FS_EmptySet
  <2>7. Cardinality(C) + Cardinality(P \cap Removals) - Cardinality({})
          = Cardinality(C) + Cardinality(P \cap Removals)
    BY <2>4, <2>6
  <2> QED
    BY <2>3, <2>5, <2>7
<1>6. /\ Cardinality(P) \in Nat /\ Cardinality(X) \in Nat /\ Cardinality(Y) \in Nat
      /\ Cardinality(C) \in Nat /\ Cardinality(P \cap Removals) \in Nat
  <2>1. IsFiniteSet(C)
    BY <1>1, FS_Subset
  <2> HIDE DEF C
  <2> QED
    BY <1>1, <1>4, <2>1, FS_CardinalityType
<1> HIDE DEF C
<1> QED
  BY <1>2, <1>3, <1>4, <1>5, <1>6, TimesAssumption

(* What is left of the time of the call the holder makes.                  *)
HoldLeft == IF holder = Free THEN 0 ELSE DbTicks - dbAge

LEMMA HoldLeftType ==
    ASSUME TypeOK
    PROVE  HoldLeft \in 0 .. DbTicks
  BY TimesAssumption DEF TypeOK, HoldLeft

(* The calls of those agents and the removals at places of the line, with  *)
(* what is left of the present one, fit in one call of each.               *)
LEMMA LineFits ==
    ASSUME TypeOK, LineInv, NEW P, P \subseteq 1 .. Len(queue),
           NEW X, NEW Y \in SUBSET Agents, X \subseteq Y,
           \A i \in P : At(i)[1] = "remove" \/ \E a \in Y \ X : CallOf(i, a),
           \/ holder = Free
           \/ At(0)[1] = "remove"
           \/ \E a \in Y \ X : CallOf(0, a)
    PROVE  /\ Cardinality(P) \in Nat /\ Cardinality(X) \in Nat /\ Cardinality(Y) \in Nat
           /\ HoldLeft + Calls(Cardinality(P) + Cardinality(X)) =< Calls(Cardinality(Y) + MaxRemoves)
           /\ holder # Free =>
                 DbTicks + Calls(Cardinality(P) + Cardinality(X)) =< Calls(Cardinality(Y) + MaxRemoves)
<1>1. Len(queue) \in Nat /\ P \in SUBSET Places /\ 0 \in Places /\ 0 \notin P
  BY LineTypes DEF Places
<1>2. /\ Cardinality(P) \in Nat /\ Cardinality(X) \in Nat /\ Cardinality(Y) \in Nat
      /\ Cardinality(P) + Cardinality(X) =< Cardinality(Y) + MaxRemoves
  BY <1>1, CountPlaces
<1>3. Cardinality(P) + Cardinality(X) \in Nat /\ Cardinality(Y) + MaxRemoves \in Nat
  BY <1>2, TimesAssumption
<1>4. CASE holder = Free
  <2>1. HoldLeft = 0
    BY <1>4 DEF HoldLeft
  <2>2. Calls(Cardinality(P) + Cardinality(X)) =< Calls(Cardinality(Y) + MaxRemoves)
    BY <1>2, <1>3, CallsGrow
  <2>3. Calls(Cardinality(P) + Cardinality(X)) \in Nat
    BY <1>3, CallsAdd
  <2> QED
    BY <1>2, <1>4, <2>1, <2>2, <2>3
<1>5. CASE holder # Free
  <2>1. IsFiniteSet(P)
    <3>1. IsFiniteSet(1 .. Len(queue))
      BY <1>1, FS_Interval
    <3> QED
      BY <3>1, FS_Subset
  <2>2. Cardinality(P \cup {0}) = Cardinality(P) + 1
    BY <1>1, <2>1, FS_AddElement
  <2>3. \A i \in P \cup {0} : At(i)[1] = "remove" \/ \E a \in Y \ X : CallOf(i, a)
    BY <1>5
  <2>4. P \cup {0} \in SUBSET Places
    BY <1>1
  <2>5. Cardinality(P \cup {0}) + Cardinality(X) =< Cardinality(Y) + MaxRemoves
    BY <2>3, <2>4, CountPlaces
  <2>6. (Cardinality(P) + Cardinality(X)) + 1 \in Nat
        /\ (Cardinality(P) + Cardinality(X)) + 1 =< Cardinality(Y) + MaxRemoves
    BY <1>2, <1>3, <2>2, <2>5
  <2>7. /\ Calls((Cardinality(P) + Cardinality(X)) + 1)
             = Calls(Cardinality(P) + Cardinality(X)) + DbTicks
        /\ Calls((Cardinality(P) + Cardinality(X)) + 1) =< Calls(Cardinality(Y) + MaxRemoves)
        /\ Calls(Cardinality(P) + Cardinality(X)) \in Nat /\ Calls(Cardinality(Y) + MaxRemoves) \in Nat
    BY <1>3, <2>6, CallsGrow, CallsAdd
  <2> QED
    BY <1>2, <2>7, HoldLeftType, TimesAssumption
<1> QED
  BY <1>4, <1>5

(* The same for the first k places.                                        *)
LEMMA WaitFits ==
    ASSUME TypeOK, LineInv, NEW k \in Places, NEW Y \in SUBSET Agents,
           \A i \in 0 .. k : \/ i = 0 /\ holder = Free
                             \/ At(i)[1] = "remove"
                             \/ \E a \in Y : CallOf(i, a)
    PROVE  /\ HoldLeft + Calls(k) =< Calls(Cardinality(Y) + MaxRemoves)
           /\ holder # Free => DbTicks + Calls(k) =< Calls(Cardinality(Y) + MaxRemoves)
<1>1. k \in Nat /\ Len(queue) \in Nat /\ k =< Len(queue)
  BY LineTypes DEF Places
<1>2. Cardinality(1 .. k) = k
  BY <1>1, FS_Interval
<1>3. 1 .. k \subseteq 1 .. Len(queue) /\ 0 \in 0 .. k /\ \A i \in 1 .. k : i \in 0 .. k /\ i # 0
  BY <1>1
<1>4. {} \subseteq Y /\ Y \ {} = Y /\ Cardinality({}) = 0 /\ k + 0 = k
  BY <1>1, FS_EmptySet
<1>5. \A i \in 1 .. k : At(i)[1] = "remove" \/ \E a \in Y \ {} : CallOf(i, a)
  BY <1>3, <1>4
<1>6. holder = Free \/ At(0)[1] = "remove" \/ \E a \in Y \ {} : CallOf(0, a)
  BY <1>3, <1>4
<1>7. /\ HoldLeft + Calls(Cardinality(1 .. k) + Cardinality({})) =< Calls(Cardinality(Y) + MaxRemoves)
      /\ holder # Free =>
            DbTicks + Calls(Cardinality(1 .. k) + Cardinality({})) =< Calls(Cardinality(Y) + MaxRemoves)
  BY <1>3, <1>4, <1>5, <1>6, LineFits
<1> QED
  BY <1>2, <1>4, <1>7

(* A place of the line without a health check.                             *)
LEMMA PlaceKinds ==
    ASSUME TypeOK, NEW i \in Places, ~CheckAt(i)
    PROVE  \/ i = 0 /\ holder = Free
           \/ At(i)[1] = "remove"
           \/ \E a \in Agents : CallOf(i, a)
<1>1. i = 0 \/ i \in 1 .. Len(queue)
  BY LineTypes DEF Places
<1>2. At(i) \in Ops \/ (i = 0 /\ holder = Free) \/ At(i) = Check
  BY <1>1, LineTypes
<1>3. At(i) = Check => FALSE
  BY DEF CheckAt, Check
<1>4. CASE At(i) \in Ops
  <2>1. At(i)[2] \in Agents /\ At(i)[1] \in {"register", "heartbeat", "remove", "mark"}
    BY <1>4 DEF Ops
  <2> QED
    BY <2>1 DEF CheckAt, CallOf, CallOps
<1> QED
  BY <1>2, <1>3, <1>4
-----------------------------------------------------------------------------
(* An agent whose heartbeats stopped, and when it is marked: it is among   *)
(* those a check has still to mark; or a check is in the line that finds   *)
(* it, or came too early for it; or the ticker will tick, at the latest    *)
(* when a check that marks others is done.                                 *)
CheckWait == IF checkDue THEN 0 ELSE checkIn
Batch     == IF holder[1] = "mark" THEN HoldLeft + Calls(Cardinality(left)) ELSE 0

MarkedNext(a) ==
    a \in left => age[a] + HoldLeft + Calls(Cardinality(left) - 1) =< NoticedWithin

FoundByCheck(a) ==
    \A p \in 1 .. Len(queue) : queue[p] = Check =>
        \/ age[a] =< Timeout
        \/ age[a] + HoldLeft + Calls(p - 1) + MaxMarks =< NoticedWithin

CheckIsNear(a) ==
    (a \notin left /\ \A p \in 1 .. Len(queue) : queue[p] # Check) =>
        \/ age[a] =< Timeout
        \/ /\ age[a] + CheckWait + MaxWait + MaxMarks =< NoticedWithin
           /\ age[a] + Batch + MaxWait + MaxMarks =< NoticedWithin

DueToMark(a) == MarkedNext(a) /\ FoundByCheck(a) /\ CheckIsNear(a)

DeadInv == \A a \in Agents : entry[a] = "online" => DueToMark(a)

KnownInv == TypeOK /\ LockInv /\ LineInv

LEMMA KnownStep == KnownInv /\ [Next]_vars => KnownInv'
  BY TypeStep, LockStep, LineStep DEF KnownInv

(* The numbers in DeadInv.                                                 *)
LEMMA DeadTypes ==
    ASSUME TypeOK
    PROVE  /\ \A a \in Agents : age[a] \in Nat
           /\ HoldLeft \in 0 .. DbTicks /\ CheckWait \in 0 .. CheckEvery
           /\ Cardinality(left) \in Nat /\ Batch \in Nat /\ Len(queue) \in Nat
           /\ left # {} => Cardinality(left) - 1 \in Nat
<1>1. \A a \in Agents : age[a] \in Nat
  BY AgeCapIsNat DEF TypeOK
<1>2. CheckWait \in 0 .. CheckEvery
  BY TimesAssumption DEF TypeOK, CheckWait
<1>3. IsFiniteSet(left)
  BY AgentsAssumption, FS_Subset DEF TypeOK
<1>4. Cardinality(left) \in Nat /\ (left # {} => Cardinality(left) # 0)
  BY <1>3, FS_CardinalityType, FS_EmptySet
<1>5. Calls(Cardinality(left)) \in Nat
  BY <1>4, CallsAdd
<1>6. Batch \in Nat
  BY <1>5, HoldLeftType, TimesAssumption DEF Batch
<1>7. left # {} => Cardinality(left) - 1 \in Nat
  BY <1>4
<1> QED
  BY <1>1, <1>2, <1>4, <1>6, <1>7, HoldLeftType, LineTypes

(* An agent that sent a heartbeat in time is not due.                      *)
LEMMA YoungIsNotDue ==
    ASSUME NEW a \in Agents, age[a] =< Timeout, a \notin left
    PROVE  DueToMark(a)
  BY DEF DueToMark, MarkedNext, FoundByCheck, CheckIsNear

(* A check that joins the line comes before it is too late.                *)
LEMMA StartCheckKeepsDue ==
    ASSUME KnownInv, KnownInv', StartCheck, NEW a \in Agents, DueToMark(a)
    PROVE  DueToMark(a)'
<1>1. Joins(Check) /\ UNCHANGED <<age, left, holder, dbAge>> /\ checkDue /\ ~Checking
  BY JoinMoves DEF KnownInv, StartCheck, StartsCheck
<1>2. Len(queue) \in Nat /\ Len(queue') = Len(queue) + 1 /\ queue'[Len(queue) + 1] = Check
      /\ \A p \in 1 .. Len(queue) : queue'[p] = queue[p]
  BY <1>1, LineTypes DEF Joins, KnownInv
<1>3. \A p \in 1 .. Len(queue) : queue[p] # Check
  <2>1. queue \in Seq(Ops \cup {Check})
    BY DEF KnownInv, TypeOK
  <2>2. \A p \in 1 .. Len(queue) : queue[p] \in Range(queue)
    BY <2>1, LenProperties DEF Range
  <2> QED
    BY <1>1, <2>2 DEF Checking
<1>4. left = {} /\ holder[1] # "mark"
  BY <1>1 DEF Checking, KnownInv, LineInv
<1>5. HoldLeft + Calls(Len(queue)) =< MaxWait
  <2>1. \A i \in Places : ~CheckAt(i)
    <3>1. \A i \in 1 .. Len(queue) : queue[i] \in Ops /\ queue[i][1] # "mark"
      BY <1>3, LineTypes DEF KnownInv, LineInv
    <3>2. \A i \in 1 .. Len(queue) : ~CheckAt(i)
      BY <3>1, LineTypes DEF CheckAt, Ops, KnownInv
    <3>3. ~CheckAt(0)
      BY <1>4, LineTypes DEF CheckAt, Ops, Free, KnownInv
    <3>4. \A i \in Places : i # 0 => i \in 1 .. Len(queue)
      BY <1>2 DEF Places
    <3> QED
      BY <3>2, <3>3, <3>4
  <2>2. Len(queue) \in Places /\ 0 .. Len(queue) = Places
    BY <1>2 DEF Places
  <2>3. \A i \in 0 .. Len(queue) : \/ i = 0 /\ holder = Free
                                   \/ At(i)[1] = "remove"
                                   \/ \E b \in Agents : CallOf(i, b)
    BY <2>1, <2>2, PlaceKinds DEF KnownInv
  <2>4. HoldLeft + Calls(Len(queue)) =< Calls(Cardinality(Agents) + MaxRemoves)
    BY <2>2, <2>3, WaitFits DEF KnownInv
  <2> QED
    BY <2>4, BoundTypes DEF N
<1>6. MarkedNext(a)' /\ CheckIsNear(a)'
  BY <1>1, <1>2, <1>4 DEF MarkedNext, CheckIsNear
<1>7. age[a] =< Timeout \/ age[a] + CheckWait + MaxWait + MaxMarks =< NoticedWithin
  BY <1>3, <1>4 DEF DueToMark, CheckIsNear
<1>8. age[a] =< Timeout \/ age[a] + HoldLeft + Calls(Len(queue)) + MaxMarks =< NoticedWithin
  <2>1. CheckWait = 0
    BY <1>1 DEF CheckWait
  <2>2. age[a] \in Nat /\ HoldLeft \in Nat /\ Calls(Len(queue)) \in Nat
    BY <1>2, DeadTypes, CallsAdd, TimesAssumption DEF KnownInv
  <2>3. \A g, h, c, w, m, n \in Nat : h + c =< w /\ g + 0 + w + m =< n => g + h + c + m =< n
    OBVIOUS
  <2>4. MaxWait \in Nat /\ MaxMarks \in Nat /\ NoticedWithin \in Nat
    BY BoundTypes
  <2> QED
    BY ONLY <1>5, <1>7, <2>1, <2>2, <2>3, <2>4
<1>9. FoundByCheck(a)'
  <2>1. ASSUME NEW p \in 1 .. Len(queue'), queue'[p] = Check PROVE p = Len(queue) + 1
    BY <1>2, <1>3, <2>1
  <2>2. (Len(queue) + 1) - 1 = Len(queue)
    BY <1>2
  <2>3. HoldLeft' = HoldLeft
    BY <1>1 DEF HoldLeft
  <2> QED
    BY <1>1, <1>8, <2>1, <2>2, <2>3 DEF FoundByCheck
<1> QED
  BY <1>6, <1>9 DEF DueToMark
(* The same numbers after a step.                                          *)
LEMMA NextTypes ==
    ASSUME TypeOK'
    PROVE  /\ \A a \in Agents : age'[a] \in Nat
           /\ HoldLeft' \in 0 .. DbTicks /\ Cardinality(left') \in Nat /\ Len(queue') \in Nat
           /\ left' # {} => Cardinality(left') - 1 \in Nat
<1>1. \A a \in Agents : age'[a] \in Nat
  BY AgeCapIsNat DEF TypeOK
<1>2. HoldLeft' \in 0 .. DbTicks
  <2>1. dbAge' \in 0 .. DbTicks
    BY DEF TypeOK
  <2>2. \A d \in Nat : 0 \in 0 .. d /\ \A g \in 0 .. d : d - g \in 0 .. d
    OBVIOUS
  <2>3. HoldLeft' = 0 \/ HoldLeft' = DbTicks - dbAge'
    BY DEF HoldLeft
  <2> QED
    BY <2>1, <2>2, <2>3, TimesAssumption
<1>3. IsFiniteSet(left')
  BY AgentsAssumption, FS_Subset DEF TypeOK
<1>4. Cardinality(left') \in Nat /\ (left' # {} => Cardinality(left') # 0)
  BY <1>3, FS_CardinalityType, FS_EmptySet
<1>5. Len(queue') \in Nat
  BY LenProperties DEF TypeOK
<1>6. left' # {} => Cardinality(left') - 1 \in Nat
  BY <1>4
<1> QED
  BY <1>1, <1>2, <1>4, <1>5, <1>6

(* Another writer that joins the line changes nothing, nor do steps that   *)
(* leave the line alone.                                                   *)
LEMMA LineStaysDue ==
    ASSUME KnownInv, NEW a \in Agents, DueToMark(a),
           UNCHANGED <<age, holder, left, dbAge, checkIn, checkDue>>,
           queue' = queue \/ \E op \in Ops : Joins(op)
    PROVE  DueToMark(a)'
<1>1. HoldLeft' = HoldLeft /\ CheckWait' = CheckWait
  BY DEF HoldLeft, CheckWait
<1>2. Batch' = Batch
  BY <1>1 DEF Batch
<1>3. Len(queue) \in Nat /\ Check \notin Ops
  BY LineTypes DEF KnownInv, Check, Ops
<1>4. /\ \A p \in 1 .. Len(queue') : queue'[p] = Check => p \in 1 .. Len(queue) /\ queue[p] = Check
      /\ \A p \in 1 .. Len(queue) : p \in 1 .. Len(queue') /\ queue'[p] = queue[p]
  <2>1. CASE queue' = queue
    BY <2>1
  <2>2. ASSUME NEW op \in Ops, Joins(op)
        PROVE  /\ \A p \in 1 .. Len(queue') : queue'[p] = Check => p \in 1 .. Len(queue) /\ queue[p] = Check
               /\ \A p \in 1 .. Len(queue) : p \in 1 .. Len(queue') /\ queue'[p] = queue[p]
    <3>1. Len(queue') = Len(queue) + 1 /\ queue'[Len(queue) + 1] # Check
      BY <1>3, <2>2 DEF Joins
    <3>2. \A p \in 1 .. Len(queue') : p \in 1 .. Len(queue) \/ p = Len(queue) + 1
      BY <1>3, <3>1
    <3>3. \A p \in 1 .. Len(queue) : p \in 1 .. Len(queue')
      BY <1>3, <3>1
    <3> QED
      BY <2>2, <3>1, <3>2, <3>3 DEF Joins
  <2> QED
    BY <2>1, <2>2
<1>5. MarkedNext(a)'
  BY <1>1 DEF DueToMark, MarkedNext
<1>6. FoundByCheck(a)'
  BY <1>1, <1>4 DEF DueToMark, FoundByCheck
<1>7. CheckIsNear(a)'
  BY <1>1, <1>2, <1>4 DEF DueToMark, CheckIsNear
<1> QED
  BY <1>5, <1>6, <1>7 DEF DueToMark

(* A writer other than the check gets m.mu: the check moves up one place.  *)
LEMMA GrantKeepsDue ==
    ASSUME KnownInv, KnownInv', NEW a \in Agents, DueToMark(a),
           NEW op \in Ops, op[1] # "mark", Moved(op), holder = Free, holder' \in {op, Free},
           UNCHANGED <<left, checkIn, checkDue>>, age'[a] = age[a]
    PROVE  DueToMark(a)'
<1>1. left = {} /\ left' = {} /\ HoldLeft = 0
  BY DEF KnownInv, LockInv, HoldLeft
<1>2. Len(queue) \in Nat /\ Len(queue) >= 1 /\ Len(queue') = Len(queue) - 1 /\ Check \notin Ops
  BY LineTypes DEF KnownInv, Moved, Shifts, Check, Ops
<1>3. \A p \in 1 .. Len(queue') : p + 1 \in 1 .. Len(queue) /\ queue'[p] = queue[p + 1]
  BY <1>2 DEF Moved, Shifts
<1>4. \A p \in 1 .. Len(queue) : p # 1 => p - 1 \in 1 .. Len(queue') /\ queue'[p - 1] = queue[p]
  <2>1. \A p \in 1 .. Len(queue) : p # 1 => p - 1 \in 1 .. Len(queue') /\ (p - 1) + 1 = p
    BY <1>2
  <2> QED
    BY <1>3, <2>1
<1>5. HoldLeft' \in 0 .. DbTicks /\ Batch' = 0 /\ CheckWait' = CheckWait /\ Batch \in Nat
  <2>1. holder'[1] # "mark"
    BY DEF Free
  <2>2. HoldLeft' \in 0 .. DbTicks
    BY NextTypes DEF KnownInv
  <2> QED
    BY <2>1, <2>2, DeadTypes DEF Batch, CheckWait, KnownInv
<1>6. FoundByCheck(a)'
  <2>1. SUFFICES ASSUME NEW p \in 1 .. Len(queue'), queue'[p] = Check
                 PROVE  \/ age'[a] =< Timeout
                        \/ age'[a] + HoldLeft' + Calls(p - 1) + MaxMarks =< NoticedWithin
    BY DEF FoundByCheck
  <2>2. p + 1 \in 1 .. Len(queue) /\ queue[p + 1] = Check /\ (p + 1) - 1 = p /\ p \in Nat
    BY <1>2, <1>3, <2>1
  <2>3. age[a] =< Timeout \/ age[a] + 0 + Calls(p) + MaxMarks =< NoticedWithin
    BY <1>1, <2>2 DEF DueToMark, FoundByCheck
  <2>4. p - 1 \in Nat /\ (p - 1) + 1 = p
    BY <1>2
  <2>5. Calls(p) = Calls(p - 1) + DbTicks /\ Calls(p - 1) \in Nat
    BY <2>4, CallsAdd
  <2>6. age[a] \in Nat /\ MaxMarks \in Nat /\ NoticedWithin \in Nat /\ DbTicks \in Nat
        /\ HoldLeft' \in Nat /\ HoldLeft' =< DbTicks
    BY <1>5, DeadTypes, BoundTypes, TimesAssumption DEF KnownInv
  <2>7. \A g, h, c, m, n, d \in Nat : h =< d /\ g + 0 + (c + d) + m =< n => g + h + c + m =< n
    OBVIOUS
  <2> QED
    BY ONLY <2>3, <2>5, <2>6, <2>7, age'[a] = age[a]
<1>7. CheckIsNear(a)'
  <2>1. SUFFICES ASSUME \A p \in 1 .. Len(queue') : queue'[p] # Check
                 PROVE  \/ age'[a] =< Timeout
                        \/ /\ age'[a] + CheckWait' + MaxWait + MaxMarks =< NoticedWithin
                           /\ age'[a] + Batch' + MaxWait + MaxMarks =< NoticedWithin
    BY DEF CheckIsNear
  <2>2. \A p \in 1 .. Len(queue) : queue[p] # Check
    BY <1>2, <1>4, <2>1 DEF Moved
  <2>3. \/ age[a] =< Timeout
        \/ /\ age[a] + CheckWait + MaxWait + MaxMarks =< NoticedWithin
           /\ age[a] + Batch + MaxWait + MaxMarks =< NoticedWithin
    BY <1>1, <2>2 DEF DueToMark, CheckIsNear
  <2>4. age[a] \in Nat /\ MaxMarks \in Nat /\ MaxWait \in Nat /\ NoticedWithin \in Nat
    BY DeadTypes, BoundTypes DEF KnownInv
  <2>5. \A g, b, w, m, n \in Nat : g + b + w + m =< n => g + 0 + w + m =< n
    OBVIOUS
  <2> QED
    BY ONLY <1>5, <2>3, <2>4, <2>5, age'[a] = age[a]
<1>8. MarkedNext(a)'
  BY <1>1 DEF MarkedNext
<1> QED
  BY <1>6, <1>7, <1>8 DEF DueToMark

(* The check gets m.mu: those it has still to mark fit in MaxMarks.        *)
LEMMA MarkOfflineKeepsDue ==
    ASSUME KnownInv, KnownInv', NEW a \in Agents, DueToMark(a), entry[a] = "online",
           MarkOffline, entry'[a] = "online"
    PROVE  DueToMark(a)'
<1>1. Moved(Check) /\ holder = Free /\ left = {} /\ HoldLeft = 0 /\ age' = age
  BY GrantMoves DEF KnownInv, LockInv, MarkOffline, Granted, HoldLeft
<1>2. CASE a \notin Stale
  <2>1. age[a] =< Timeout
    <3>1. ~(age[a] > Timeout)
      BY <1>2 DEF Stale
    <3> QED
      BY <3>1, DeadTypes, TimesAssumption DEF KnownInv
  <2>2. a \notin left'
    BY <1>1, <1>2 DEF MarkOffline, Mark
  <2> QED
    BY <1>1, <2>1, <2>2 DEF DueToMark, MarkedNext, FoundByCheck, CheckIsNear
<1>3. CASE a \in Stale
  <2>1. PICK b \in Stale : Mark(b, Stale \ {b})
    BY <1>3 DEF MarkOffline
  <2>2. b \in Agents /\ holder' = <<"mark", b>> /\ dbAge' = 0 /\ left' = Stale \ {b} /\ a # b
    BY <2>1 DEF Mark, CallDb, Stale, KnownInv, TypeOK
  <2>3. a \in left' /\ left' \subseteq Agents \ {b}
    BY <1>3, <2>2 DEF Stale
  <2>4. age[a] + MaxMarks =< NoticedWithin
    <3>1. queue[1] = Check /\ 1 \in 1 .. Len(queue)
      BY <1>1, LineTypes DEF Moved, KnownInv
    <3>2. age[a] > Timeout
      BY <1>3 DEF Stale
    <3>3. age[a] =< Timeout \/ age[a] + 0 + Calls(1 - 1) + MaxMarks =< NoticedWithin
      BY <1>1, <3>1 DEF DueToMark, FoundByCheck
    <3>4. Calls(1 - 1) = 0
      BY CallsAdd
    <3>5. age[a] \in Nat /\ MaxMarks \in Nat /\ Timeout \in Nat
      BY DeadTypes, BoundTypes, TimesAssumption DEF KnownInv
    <3>6. age[a] + 0 + 0 + MaxMarks = age[a] + MaxMarks /\ ~(age[a] =< Timeout)
      BY <3>2, <3>5
    <3> QED
      BY <3>3, <3>4, <3>6
  <2>5. HoldLeft' = DbTicks
    BY <2>2, TimesAssumption DEF HoldLeft, Free
  <2>6. Cardinality(left') - 1 \in Nat /\ Cardinality(left') \in Nat /\ Cardinality(left') =< N - 1
    <3>1. IsFiniteSet(Agents \ {b}) /\ Cardinality(Agents \ {b}) = N - 1
      BY <2>2, AgentsAssumption, FS_RemoveElement DEF N
    <3>2. Cardinality(left') =< Cardinality(Agents \ {b})
      BY <2>3, <3>1, FS_Subset
    <3>3. Cardinality(left') - 1 \in Nat /\ Cardinality(left') \in Nat
      BY <2>3, NextTypes DEF KnownInv
    <3> QED
      BY <3>1, <3>2, <3>3
  <2>7. DbTicks + Calls(Cardinality(left') - 1) =< MaxMarks
    <3>1. N - 1 \in Nat
      BY BoundTypes
    <3>2. (Cardinality(left') - 1) + 1 = Cardinality(left')
      BY <2>6
    <3>3. Calls(Cardinality(left')) = Calls(Cardinality(left') - 1) + DbTicks
          /\ Calls(Cardinality(left') - 1) \in Nat
      BY <2>6, <3>2, CallsAdd
    <3>4. Calls(Cardinality(left')) =< MaxMarks
      BY <2>6, <3>1, CallsGrow, BoundTypes
    <3> QED
      BY <3>3, <3>4, TimesAssumption
  <2>8. MarkedNext(a)'
    <3>1. Calls(Cardinality(left') - 1) \in Nat
      BY <2>6, CallsAdd
    <3>2. age[a] + DbTicks + Calls(Cardinality(left') - 1) =< NoticedWithin
      <4>1. age[a] \in Nat /\ MaxMarks \in Nat /\ DbTicks \in Nat /\ NoticedWithin \in Nat
        BY DeadTypes, BoundTypes, TimesAssumption DEF KnownInv
      <4>2. \A g, d, c, m, n \in Nat : g + m =< n /\ d + c =< m => g + d + c =< n
        OBVIOUS
      <4> QED
        BY ONLY <2>4, <2>7, <3>1, <4>1, <4>2
    <3> QED
      BY <1>1, <2>5, <3>2 DEF MarkedNext
  <2>9. \A p \in 1 .. Len(queue') : queue'[p] # Check
    <3>1. 0 \in Places' /\ \A p \in 1 .. Len(queue') : p \in Places' /\ p # 0
      BY LineTypes DEF KnownInv, Places
    <3>2. CheckAt(0)'
      BY <2>2 DEF CheckAt, At
    <3>3. \A p \in 1 .. Len(queue') : ~CheckAt(p)'
      BY <3>1, <3>2 DEF KnownInv, LineInv
    <3>4. \A p \in 1 .. Len(queue') : queue'[p] = Check => CheckAt(p)'
      BY DEF CheckAt, At, Check
    <3> QED
      BY <3>3, <3>4
  <2> QED
    BY <2>3, <2>8, <2>9 DEF DueToMark, FoundByCheck, CheckIsNear
<1> QED
  BY <1>2, <1>3
(* The call of the holder is over: m.mu is free, or goes on to the next    *)
(* agent to mark.                                                          *)
LEMMA ReturnKeepsDue ==
    ASSUME KnownInv, KnownInv', NEW a \in Agents, DueToMark(a), DbReturns, entry'[a] = "online"
    PROVE  DueToMark(a)'
<1>1. UNCHANGED <<age, queue, checkIn, checkDue>> /\ holder # Free /\ CheckWait' = CheckWait
  BY DEF DbReturns, checkVars, CheckWait
<1>2. /\ age[a] \in Nat /\ HoldLeft \in Nat /\ Batch \in Nat /\ Cardinality(left) \in Nat
      /\ MaxMarks \in Nat /\ MaxWait \in Nat /\ NoticedWithin \in Nat /\ DbTicks \in Nat
      /\ Len(queue) \in Nat
  BY DeadTypes, BoundTypes, TimesAssumption DEF KnownInv
<1>3. CASE left = {}
  <2>1. left' = {} /\ HoldLeft' = 0 /\ Batch' = 0
    BY <1>1, <1>3 DEF DbReturns, Unlock, HoldLeft, Batch, Free
  <2>2. FoundByCheck(a)'
    <3>1. SUFFICES ASSUME NEW p \in 1 .. Len(queue), queue[p] = Check
                   PROVE  age[a] =< Timeout \/ age[a] + 0 + Calls(p - 1) + MaxMarks =< NoticedWithin
      BY <1>1, <2>1 DEF FoundByCheck
    <3>2. age[a] =< Timeout \/ age[a] + HoldLeft + Calls(p - 1) + MaxMarks =< NoticedWithin
      BY <3>1 DEF DueToMark, FoundByCheck
    <3>3. p - 1 \in Nat
      BY <1>2
    <3>4. Calls(p - 1) \in Nat
      BY <3>3, CallsAdd
    <3>5. \A g, h, c, m, n \in Nat : g + h + c + m =< n => g + 0 + c + m =< n
      OBVIOUS
    <3> QED
      BY ONLY <1>2, <3>2, <3>4, <3>5
  <2>3. CheckIsNear(a)'
    <3>1. SUFFICES ASSUME \A p \in 1 .. Len(queue) : queue[p] # Check
                   PROVE  \/ age[a] =< Timeout
                          \/ /\ age[a] + CheckWait + MaxWait + MaxMarks =< NoticedWithin
                             /\ age[a] + 0 + MaxWait + MaxMarks =< NoticedWithin
      BY <1>1, <2>1 DEF CheckIsNear
    <3>2. \/ age[a] =< Timeout
          \/ /\ age[a] + CheckWait + MaxWait + MaxMarks =< NoticedWithin
             /\ age[a] + Batch + MaxWait + MaxMarks =< NoticedWithin
      BY <1>3, <3>1 DEF DueToMark, CheckIsNear
    <3>3. \A g, b, w, m, n \in Nat : g + b + w + m =< n => g + 0 + w + m =< n
      OBVIOUS
    <3> QED
      BY ONLY <1>2, <3>2, <3>3
  <2> QED
    BY <2>1, <2>2, <2>3 DEF DueToMark, MarkedNext
<1>4. CASE left # {}
  <2>1. PICK b \in left : Mark(b, left \ {b})
    BY <1>4 DEF DbReturns, Unlock
  <2>2. b \in Agents /\ holder' = <<"mark", b>> /\ dbAge' = 0 /\ left' = left \ {b} /\ a # b
    BY <2>1 DEF Mark, CallDb, KnownInv, TypeOK
  <2>3. holder[1] = "mark" /\ HoldLeft' = DbTicks
    BY <1>4, <2>2, TimesAssumption DEF KnownInv, LineInv, HoldLeft, Free
  <2>4. \A p \in 1 .. Len(queue) : queue[p] # Check
    <3>1. 0 \in Places /\ \A p \in 1 .. Len(queue) : p \in Places /\ p # 0
      BY <1>2 DEF Places
    <3>2. CheckAt(0)
      BY <2>3 DEF CheckAt, At
    <3>3. \A p \in 1 .. Len(queue) : ~CheckAt(p)
      BY <3>1, <3>2 DEF KnownInv, LineInv
    <3>4. \A p \in 1 .. Len(queue) : queue[p] = Check => CheckAt(p)
      BY DEF CheckAt, At, Check
    <3> QED
      BY <3>3, <3>4
  <2>5. FoundByCheck(a)'
    BY <1>1, <2>4 DEF FoundByCheck
  <2>6. IsFiniteSet(left) /\ Cardinality(left') = Cardinality(left) - 1 /\ Cardinality(left') \in Nat
    <3>1. IsFiniteSet(left)
      BY AgentsAssumption, FS_Subset DEF KnownInv, TypeOK
    <3>2. Cardinality(left') = Cardinality(left) - 1
      BY <2>1, <2>2, <3>1, FS_RemoveElement
    <3> QED
      BY <3>1, <3>2, NextTypes DEF KnownInv
  <2>7. /\ Calls(Cardinality(left)) = Calls(Cardinality(left')) + DbTicks
        /\ Calls(Cardinality(left')) \in Nat
    <3>1. Cardinality(left') + 1 = Cardinality(left)
      BY <1>2, <2>6
    <3> QED
      BY <2>6, <3>1, CallsAdd
  <2>8. MarkedNext(a)'
    <3>1. SUFFICES ASSUME a \in left'
                   PROVE  age[a] + DbTicks + Calls(Cardinality(left') - 1) =< NoticedWithin
      BY <1>1, <2>3 DEF MarkedNext
    <3>2. Cardinality(left') - 1 \in Nat /\ (Cardinality(left') - 1) + 1 = Cardinality(left')
      BY <2>6, <3>1, NextTypes DEF KnownInv
    <3>3. Calls(Cardinality(left')) = Calls(Cardinality(left') - 1) + DbTicks
          /\ Calls(Cardinality(left') - 1) \in Nat
      BY <3>2, CallsAdd
    <3>4. age[a] + HoldLeft + Calls(Cardinality(left')) =< NoticedWithin
      <4>1. age[a] + HoldLeft + Calls(Cardinality(left) - 1) =< NoticedWithin
        BY <2>2, <3>1 DEF DueToMark, MarkedNext
      <4> QED
        BY <2>6, <4>1
    <3>5. \A g, h, c, d, n \in Nat : g + h + (c + d) =< n => g + d + c =< n
      OBVIOUS
    <3> QED
      BY ONLY <1>2, <3>3, <3>4, <3>5
  <2>9. CheckIsNear(a)'
    <3>1. SUFFICES ASSUME a \notin left'
                   PROVE  \/ age[a] =< Timeout
                          \/ /\ age[a] + CheckWait + MaxWait + MaxMarks =< NoticedWithin
                             /\ age[a] + Batch' + MaxWait + MaxMarks =< NoticedWithin
      BY <1>1 DEF CheckIsNear
    <3>2. \/ age[a] =< Timeout
          \/ /\ age[a] + CheckWait + MaxWait + MaxMarks =< NoticedWithin
             /\ age[a] + Batch + MaxWait + MaxMarks =< NoticedWithin
      BY <2>2, <2>4, <3>1 DEF DueToMark, CheckIsNear
    <3>3. Batch' = DbTicks + Calls(Cardinality(left'))
      <4>1. Batch' = HoldLeft' + Calls(Cardinality(left'))
        BY <2>2 DEF Batch, Calls
      <4> QED
        BY <2>3, <4>1
    <3>4. Batch = HoldLeft + Calls(Cardinality(left))
      BY <2>3 DEF Batch
    <3>5. \A g, h, c, d, w, m, n \in Nat :
             g + (h + (c + d)) + w + m =< n => g + (d + c) + w + m =< n
      OBVIOUS
    <3> QED
      BY ONLY <1>2, <2>7, <3>2, <3>3, <3>4, <3>5
  <2> QED
    BY <2>5, <2>8, <2>9 DEF DueToMark
<1> QED
  BY <1>3, <1>4

(* While somebody holds m.mu, time that goes on is time of its call.       *)
LEMMA TickTimes ==
    ASSUME KnownInv, KnownInv', Tick
    PROVE  /\ UNCHANGED <<queue, holder, left, entry>>
           /\ \A a \in Agents : age'[a] \in Nat /\ age'[a] =< age[a] + 1
           /\ holder # Free => HoldLeft \in Nat /\ HoldLeft >= 1 /\ HoldLeft' = HoldLeft - 1
           /\ holder = Free => HoldLeft = 0 /\ HoldLeft' = 0 /\ queue = <<>>
           /\ ~StartsCheck
<1>1. UNCHANGED <<queue, holder, left, entry>> /\ ~StartsCheck
  BY DEF Tick, Urgent
<1>2. ASSUME NEW a \in Agents PROVE age'[a] \in Nat /\ age'[a] =< age[a] + 1
  <2>1. age[a] \in Nat /\ age[a] + 1 \in Nat
    BY DeadTypes DEF KnownInv
  <2>2. age'[a] = Min({age[a] + 1, AgeCap}) \/ age'[a] = 0
    BY DEF Tick
  <2>3. Min({age[a] + 1, AgeCap}) \in 0 .. AgeCap /\ Min({age[a] + 1, AgeCap}) =< age[a] + 1
    BY <2>1, AgeCapIsNat, MinOfTwo
  <2> QED
    BY <2>1, <2>2, <2>3, AgeCapIsNat
<1>3. ASSUME holder # Free PROVE HoldLeft \in Nat /\ HoldLeft >= 1 /\ HoldLeft' = HoldLeft - 1
  <2>1. dbAge # DbTicks /\ dbAge \in 0 .. DbTicks /\ dbAge' = dbAge + 1
    BY <1>3 DEF Tick, Urgent, KnownInv, TypeOK
  <2>2. HoldLeft = DbTicks - dbAge /\ HoldLeft' = DbTicks - dbAge'
    BY <1>1, <1>3 DEF HoldLeft, Free
  <2> QED
    BY <2>1, <2>2, TimesAssumption
<1>4. ASSUME holder = Free PROVE HoldLeft = 0 /\ HoldLeft' = 0 /\ queue = <<>>
  BY <1>1, <1>4 DEF HoldLeft, Free, Tick, Urgent
<1> QED
  BY <1>1, <1>2, <1>3, <1>4
(* A batch of marks that leaves an agent out fits in MaxMarks.             *)
LEMMA BatchFits ==
    ASSUME KnownInv, NEW a \in Agents, entry[a] = "online", a \notin left
    PROVE  Batch =< MaxMarks
<1>1. CASE holder[1] # "mark"
  BY <1>1, BoundTypes DEF Batch
<1>2. CASE holder[1] = "mark"
  <2>1. holder \in Ops /\ holder # Free
    BY <1>2 DEF KnownInv, TypeOK, Free
  <2>2. PICK b \in Agents : holder = <<"mark", b>>
    BY <1>2, <2>1 DEF Ops
  <2>3. entry[b] = "offline"
    BY <2>1, <2>2 DEF KnownInv, LockInv, Says
  <2>4. left \subseteq (Agents \ {b}) \ {a} /\ a # b
    BY <2>1, <2>2, <2>3 DEF KnownInv, LockInv
  <2>5. IsFiniteSet(Agents \ {b}) /\ Cardinality(Agents \ {b}) = N - 1
    BY AgentsAssumption, FS_RemoveElement DEF N
  <2>6. IsFiniteSet((Agents \ {b}) \ {a}) /\ Cardinality((Agents \ {b}) \ {a}) = (N - 1) - 1
    <3>1. a \in Agents \ {b}
      BY <2>4
    <3> QED
      BY <2>5, <3>1, FS_RemoveElement
  <2>7. Cardinality(left) =< (N - 1) - 1
    BY <2>4, <2>6, FS_Subset
  <2>8. Cardinality(left) \in Nat /\ N \in Nat /\ HoldLeft \in 0 .. DbTicks
    BY DeadTypes, BoundTypes DEF KnownInv
  <2>9. Cardinality(left) + 1 \in Nat /\ N - 1 \in Nat /\ Cardinality(left) + 1 =< N - 1
    BY <2>7, <2>8
  <2>10. /\ Calls(Cardinality(left) + 1) = Calls(Cardinality(left)) + DbTicks
         /\ Calls(Cardinality(left) + 1) =< MaxMarks /\ Calls(Cardinality(left)) \in Nat
    BY <2>8, <2>9, CallsAdd, CallsGrow, BoundTypes
  <2>11. Batch = HoldLeft + Calls(Cardinality(left))
    BY <1>2 DEF Batch
  <2> QED
    BY <2>8, <2>10, <2>11, BoundTypes, TimesAssumption
<1> QED
  BY <1>1, <1>2

(* Time goes on: what is left of the call goes down as the age goes up.    *)
LEMMA TickKeepsDue ==
    ASSUME KnownInv, KnownInv', NEW a \in Agents, DueToMark(a), Tick, entry[a] = "online"
    PROVE  DueToMark(a)'
<1>1. /\ UNCHANGED <<queue, holder, left>> /\ ~StartsCheck
      /\ age'[a] \in Nat /\ age'[a] =< age[a] + 1
      /\ holder # Free => HoldLeft \in Nat /\ HoldLeft >= 1 /\ HoldLeft' = HoldLeft - 1
      /\ holder = Free => HoldLeft = 0 /\ HoldLeft' = 0 /\ queue = <<>>
  BY TickTimes
<1>2. /\ age[a] \in Nat /\ HoldLeft \in Nat /\ HoldLeft' \in Nat /\ Batch \in Nat
      /\ Cardinality(left) \in Nat /\ Len(queue) \in Nat
      /\ MaxMarks \in Nat /\ MaxWait \in Nat /\ NoticedWithin \in Nat /\ DbTicks \in Nat
      /\ Timeout \in Nat /\ CheckWait \in Nat /\ CheckEvery \in Nat
  BY DeadTypes, NextTypes, BoundTypes, TimesAssumption DEF KnownInv
<1>3. MarkedNext(a)'
  <2>1. SUFFICES ASSUME a \in left
                 PROVE  age'[a] + HoldLeft' + Calls(Cardinality(left) - 1) =< NoticedWithin
    BY <1>1 DEF MarkedNext
  <2>2. holder # Free
    BY <2>1 DEF KnownInv, LockInv
  <2>3. Cardinality(left) - 1 \in Nat
    BY <2>1, DeadTypes DEF KnownInv
  <2>4. Calls(Cardinality(left) - 1) \in Nat
    BY <2>3, CallsAdd
  <2>5. age[a] + HoldLeft + Calls(Cardinality(left) - 1) =< NoticedWithin
    BY <2>1 DEF DueToMark, MarkedNext
  <2>6. \A g, gg, h, c, n \in Nat : gg =< g + 1 /\ h >= 1 /\ g + h + c =< n => gg + (h - 1) + c =< n
    OBVIOUS
  <2> QED
    BY ONLY <1>1, <1>2, <2>2, <2>4, <2>5, <2>6
<1>4. FoundByCheck(a)'
  <2>1. SUFFICES ASSUME NEW p \in 1 .. Len(queue), queue[p] = Check
                 PROVE  \/ age'[a] =< Timeout
                        \/ age'[a] + HoldLeft' + Calls(p - 1) + MaxMarks =< NoticedWithin
    BY <1>1 DEF FoundByCheck
  <2>2. holder # Free
    <3>1. Len(queue) # 0
      BY <1>2
    <3> QED
      BY <1>1, <3>1
  <2>3. p - 1 \in Nat /\ p - 1 \in Places /\ p \in Places
    BY <1>2 DEF Places
  <2>4. Calls(p - 1) \in Nat
    BY <2>3, CallsAdd
  <2>5. age[a] =< Timeout \/ age[a] + HoldLeft + Calls(p - 1) + MaxMarks =< NoticedWithin
    BY <2>1 DEF DueToMark, FoundByCheck
  <2>6. HoldLeft + Calls(p - 1) =< MaxWait
    <3>1. \A i \in 0 .. p - 1 : i \in Places /\ i # p
      BY <1>2 DEF Places
    <3>2. CheckAt(p)
      BY <2>1, <2>3 DEF CheckAt, At, Check
    <3>3. \A i \in 0 .. p - 1 : ~CheckAt(i)
      BY <2>3, <3>1, <3>2 DEF KnownInv, LineInv
    <3>4. \A i \in 0 .. p - 1 : \/ i = 0 /\ holder = Free
                                \/ At(i)[1] = "remove"
                                \/ \E b \in Agents : CallOf(i, b)
      BY <3>1, <3>3, PlaceKinds DEF KnownInv
    <3>5. HoldLeft + Calls(p - 1) =< Calls(Cardinality(Agents) + MaxRemoves)
      BY <2>3, <3>4, WaitFits DEF KnownInv
    <3> QED
      BY <3>5, BoundTypes DEF N
  <2>7. NoticedWithin >= Timeout + CheckEvery + MaxWait + MaxMarks
    BY BoundTypes
  <2>8. Timeout + HoldLeft + Calls(p - 1) + MaxMarks =< NoticedWithin
    <3>1. \A h, c, m, n, t, e, w \in Nat : h + c =< w /\ n >= t + e + w + m => t + h + c + m =< n
      OBVIOUS
    <3> QED
      BY ONLY <1>2, <2>4, <2>6, <2>7, <3>1
  <2>9. age'[a] =< Timeout \/ age[a] + HoldLeft + Calls(p - 1) + MaxMarks =< NoticedWithin
    <3>1. \A g, gg, t \in Nat : gg =< g + 1 /\ g =< t => gg =< t \/ g = t
      OBVIOUS
    <3> QED
      BY ONLY <1>1, <1>2, <2>5, <2>8, <3>1
  <2>10. \A g, gg, h, c, m, n \in Nat :
            gg =< g + 1 /\ h >= 1 /\ g + h + c + m =< n => gg + (h - 1) + c + m =< n
    OBVIOUS
  <2> QED
    BY ONLY <1>1, <1>2, <2>2, <2>4, <2>9, <2>10
<1>5. CheckIsNear(a)'
  <2>1. SUFFICES ASSUME a \notin left, \A p \in 1 .. Len(queue) : queue[p] # Check
                 PROVE  \/ age'[a] =< Timeout
                        \/ /\ age'[a] + CheckWait' + MaxWait + MaxMarks =< NoticedWithin
                           /\ age'[a] + Batch' + MaxWait + MaxMarks =< NoticedWithin
    BY <1>1 DEF CheckIsNear
  <2>2. \/ age[a] =< Timeout
        \/ /\ age[a] + CheckWait + MaxWait + MaxMarks =< NoticedWithin
           /\ age[a] + Batch + MaxWait + MaxMarks =< NoticedWithin
    BY <2>1 DEF DueToMark, CheckIsNear
  <2>3. Batch =< MaxMarks
    BY <2>1, BatchFits
  <2>4. checkDue => holder[1] = "mark"
    <3>1. \A op \in Range(queue) : op # Check
      <4>1. queue \in Seq(Ops \cup {Check})
        BY DEF KnownInv, TypeOK
      <4> QED
        BY <2>1, <4>1, LenProperties DEF Range
    <3> QED
      BY <1>1, <3>1 DEF StartsCheck, Checking
  <2>5. \/ holder[1] = "mark" /\ Batch >= 1 /\ Batch' = Batch - 1
        \/ holder[1] # "mark" /\ Batch = 0 /\ Batch' = 0
    <3>1. CASE holder[1] = "mark"
      <4>1. holder # Free
        BY <3>1 DEF Free
      <4>2. Batch = HoldLeft + Calls(Cardinality(left)) /\ Calls(Cardinality(left)) \in Nat
        BY <1>2, <3>1, CallsAdd DEF Batch
      <4>3. Batch' = HoldLeft' + Calls(Cardinality(left))
        BY <1>1, <3>1 DEF Batch
      <4> QED
        BY <1>1, <1>2, <3>1, <4>1, <4>2, <4>3
    <3>2. CASE holder[1] # "mark"
      BY <1>1, <3>2 DEF Batch
    <3> QED
      BY <3>1, <3>2
  <2>6. \/ checkDue /\ CheckWait = 0 /\ CheckWait' = 0
        \/ ~checkDue /\ CheckWait >= 1 /\ CheckWait =< CheckEvery /\ CheckWait' = CheckWait - 1
    <3>1. checkIn \in 1 .. CheckEvery /\ checkIn' = (IF checkIn = 1 THEN CheckEvery ELSE checkIn - 1)
      BY DEF KnownInv, TypeOK, Tick
    <3>2. checkDue' <=> (checkDue \/ checkIn = 1)
      BY DEF Tick
    <3>3. CASE checkDue
      BY <3>2, <3>3 DEF CheckWait
    <3>4. CASE ~checkDue
      <4>1. CheckWait = checkIn
        BY <3>4 DEF CheckWait
      <4>2. CheckWait' = IF checkIn = 1 THEN 0 ELSE checkIn'
        BY <3>2, <3>4 DEF CheckWait
      <4> QED
        BY <3>1, <3>4, <4>1, <4>2, TimesAssumption
    <3> QED
      BY <3>3, <3>4
  <2>7. /\ NoticedWithin >= Timeout + CheckEvery + MaxWait + MaxMarks
        /\ NoticedWithin >= Timeout + MaxMarks + MaxWait + MaxMarks
    BY BoundTypes
  <2>8. CheckWait' \in Nat /\ Batch' \in Nat /\ CheckEvery >= 1
    BY <1>2, <2>5, <2>6, TimesAssumption
  <2>9. CASE holder[1] = "mark"
    <3>1. Batch >= 1 /\ Batch' = Batch - 1
      BY <2>5, <2>9
    <3>2. CASE checkDue
      <4>1. CheckWait = 0 /\ CheckWait' = 0
        BY <2>6, <3>2
      <4>2. \A g, gg, b, w, m, n, t, e \in Nat :
               /\ gg =< g + 1 /\ b >= 1 /\ b =< m /\ n >= t + e + w + m /\ n >= t + m + w + m /\ e >= 1
               /\ g =< t \/ g + b + w + m =< n
               => gg =< t \/ (gg + 0 + w + m =< n /\ gg + (b - 1) + w + m =< n)
        OBVIOUS
      <4> QED
        BY ONLY <1>1, <1>2, <2>2, <2>3, <2>7, <2>8, <3>1, <4>1, <4>2
    <3>3. CASE ~checkDue
      <4>1. CheckWait >= 1 /\ CheckWait =< CheckEvery /\ CheckWait' = CheckWait - 1
        BY <2>6, <3>3
      <4>2. \A g, gg, b, k, w, m, n, t, e \in Nat :
               /\ gg =< g + 1 /\ b >= 1 /\ b =< m /\ n >= t + e + w + m /\ n >= t + m + w + m
               /\ k >= 1 /\ k =< e
               /\ g =< t \/ (g + k + w + m =< n /\ g + b + w + m =< n)
               => gg =< t \/ (gg + (k - 1) + w + m =< n /\ gg + (b - 1) + w + m =< n)
        OBVIOUS
      <4> QED
        BY ONLY <1>1, <1>2, <2>2, <2>3, <2>7, <2>8, <3>1, <4>1, <4>2
    <3> QED
      BY <3>2, <3>3
  <2>10. CASE holder[1] # "mark"
    <3>1. Batch = 0 /\ Batch' = 0 /\ ~checkDue
      BY <2>4, <2>5, <2>10
    <3>2. CheckWait >= 1 /\ CheckWait =< CheckEvery /\ CheckWait' = CheckWait - 1
      BY <2>6, <3>1
    <3>3. \A g, gg, k, w, m, n, t, e \in Nat :
             /\ gg =< g + 1 /\ n >= t + e + w + m /\ k >= 1 /\ k =< e
             /\ g =< t \/ g + k + w + m =< n
             => gg =< t \/ (gg + (k - 1) + w + m =< n /\ gg + 0 + w + m =< n)
      OBVIOUS
    <3> QED
      BY ONLY <1>1, <1>2, <2>2, <2>7, <2>8, <3>1, <3>2, <3>3
  <2> QED
    BY <2>9, <2>10
<1> QED
  BY <1>3, <1>4, <1>5 DEF DueToMark
(* DeadInv is inductive.                                                   *)
LEMMA DeadStep ==
    ASSUME KnownInv, KnownInv', DeadInv, [Next]_vars
    PROVE  DeadInv'
<1> SUFFICES ASSUME NEW a \in Agents, entry'[a] = "online" PROVE DueToMark(a)'
  BY DEF DeadInv
<1>0. entry[a] = "online" => DueToMark(a)
  BY DEF DeadInv
<1>1. ASSUME NEW b \in Agents, Boot(b) \/ SendHeartbeat(b) \/ DeleteAgent(b) PROVE DueToMark(a)'
  <2>1. \E op \in Ops : Joins(op)
    <3>1. \A k \in {"register", "heartbeat", "remove"} : <<k, b>> \in Ops
      BY DEF Ops
    <3> QED
      BY <1>1, <3>1, JoinMoves DEF KnownInv
  <2>2. UNCHANGED <<age, entry, holder, left, dbAge, checkIn, checkDue>>
    BY <1>1 DEF Boot, SendHeartbeat, DeleteAgent, checkVars
  <2> QED
    BY <1>0, <2>1, <2>2, LineStaysDue
<1>2. ASSUME UNCHANGED <<age, entry, holder, left, dbAge, checkIn, checkDue, queue>> PROVE DueToMark(a)'
  BY <1>0, <1>2, LineStaysDue
<1>3. ASSUME NEW b \in Agents, Crash(b) PROVE DueToMark(a)'
  BY <1>2, <1>3 DEF Crash, lockVars, checkVars
<1>4. CASE EnqueueStartTest \/ Poll \/ DequeueCommand \/ GiveUp \/ DequeueForNobody \/ UNCHANGED vars
  BY <1>2, <1>4, IdleSteps DEF lineVars
<1>5. CASE StartCheck
  BY <1>0, <1>5, StartCheckKeepsDue DEF StartCheck
<1>6. CASE MarkOffline
  <2>1. entry[a] = "online"
    <3>1. entry' = entry \/ \E b \in Agents : entry' = [entry EXCEPT ![b] = "offline"]
      BY <1>6 DEF MarkOffline, Mark, Stale
    <3> QED
      BY <3>1 DEF KnownInv, TypeOK
  <2> QED
    BY <1>0, <1>6, <2>1, MarkOfflineKeepsDue
<1>7. CASE DbReturns
  <2>1. entry[a] = "online"
    <3>1. entry' = entry \/ \E b \in Agents : entry' = [entry EXCEPT ![b] = "offline"]
      BY <1>7 DEF DbReturns, Unlock, Mark, KnownInv, TypeOK
    <3> QED
      BY <3>1 DEF KnownInv, TypeOK
  <2> QED
    BY <1>0, <1>7, <2>1, ReturnKeepsDue
<1>8. CASE Tick
  <2>1. entry[a] = "online"
    BY <1>8 DEF Tick
  <2> QED
    BY <1>0, <1>8, <2>1, TickKeepsDue
<1>9. ASSUME NEW b \in Agents, Register(b) \/ Heartbeat(b) \/ Remove(b) PROVE DueToMark(a)'
  <2>1. UNCHANGED <<left, checkIn, checkDue>> /\ holder = Free
    BY <1>9 DEF Register, Heartbeat, Remove, checkVars, Granted
  <2>2. left' = {}
    BY <2>1 DEF KnownInv, LockInv
  <2>3. PICK op \in Ops : Moved(op) /\ op[1] # "mark" /\ holder' \in {op, Free}
    <3>1. \A k \in {"register", "heartbeat", "remove"} :
             <<k, b>> \in Ops /\ <<k, b>>[1] # "mark"
      BY DEF Ops
    <3>2. CASE Register(b)
      BY <3>1, <3>2, GrantMoves DEF KnownInv, Register, Refresh, CallDb
    <3>3. CASE Heartbeat(b)
      <4>1. holder' = <<"heartbeat", b>> \/ holder' = Free
        BY <2>1, <3>3 DEF Heartbeat, Refresh, CallDb
      <4> QED
        BY <3>1, <3>3, <4>1, GrantMoves DEF KnownInv
    <3>4. CASE Remove(b)
      BY <3>1, <3>4, GrantMoves DEF KnownInv, Remove, CallDb
    <3> QED
      BY <1>9, <3>2, <3>3, <3>4
  <2>4. \/ entry[a] = "online" /\ age'[a] = age[a]
        \/ age'[a] = 0
    <3>1. CASE Register(b)
      BY <3>1 DEF Register, Refresh, KnownInv, TypeOK
    <3>2. CASE Heartbeat(b)
      BY <3>2 DEF Heartbeat, Refresh, KnownInv, TypeOK
    <3>3. CASE Remove(b)
      BY <3>3 DEF Remove, KnownInv, TypeOK
    <3> QED
      BY <1>9, <3>1, <3>2, <3>3
  <2>5. CASE age'[a] = 0
    BY <2>2, <2>5, TimesAssumption DEF DueToMark, MarkedNext, FoundByCheck, CheckIsNear
  <2>6. CASE entry[a] = "online" /\ age'[a] = age[a]
    BY <1>0, <2>1, <2>3, <2>6, GrantKeepsDue
  <2> QED
    BY <2>4, <2>5, <2>6
<1> QED
  BY <1>1, <1>3, <1>4, <1>5, <1>6, <1>7, <1>8, <1>9 DEF Next

(* An agent that is due is not older than the bound.                       *)
LEMMA DueIsInTime ==
    ASSUME KnownInv, NEW a \in Agents, DueToMark(a)
    PROVE  age[a] =< NoticedWithin
<1>1. /\ age[a] \in Nat /\ HoldLeft \in Nat /\ Batch \in Nat /\ Cardinality(left) \in Nat
      /\ Len(queue) \in Nat /\ MaxMarks \in Nat /\ MaxWait \in Nat /\ NoticedWithin \in Nat
      /\ Timeout \in Nat
  BY DeadTypes, BoundTypes, TimesAssumption DEF KnownInv
<1>2. ASSUME age[a] =< Timeout PROVE age[a] =< NoticedWithin
  <2>1. NoticedWithin >= Timeout + MaxMarks + MaxWait + MaxMarks
    BY BoundTypes
  <2>2. \A g, t, m, w, n \in Nat : g =< t /\ n >= t + m + w + m => g =< n
    OBVIOUS
  <2> QED
    BY ONLY <1>1, <1>2, <2>1, <2>2
<1>3. \A g, h, c, m, n \in Nat : g + h + c + m =< n => g =< n
  OBVIOUS
<1>4. CASE a \in left
  <2>1. Cardinality(left) - 1 \in Nat
    BY <1>4, DeadTypes DEF KnownInv
  <2>2. Calls(Cardinality(left) - 1) \in Nat
    BY <2>1, CallsAdd
  <2>3. age[a] + HoldLeft + Calls(Cardinality(left) - 1) =< NoticedWithin
    BY <1>4 DEF DueToMark, MarkedNext
  <2> QED
    BY <1>1, <2>2, <2>3
<1>5. CASE \E p \in 1 .. Len(queue) : queue[p] = Check
  <2>1. PICK p \in 1 .. Len(queue) : queue[p] = Check
    BY <1>5
  <2>2. p - 1 \in Nat
    BY <1>1
  <2>3. Calls(p - 1) \in Nat
    BY <2>2, CallsAdd
  <2>4. age[a] =< Timeout \/ age[a] + HoldLeft + Calls(p - 1) + MaxMarks =< NoticedWithin
    BY <2>1 DEF DueToMark, FoundByCheck
  <2>5. age[a] + HoldLeft + Calls(p - 1) + MaxMarks =< NoticedWithin => age[a] =< NoticedWithin
    BY ONLY <1>1, <1>3, <2>3
  <2> QED
    BY <1>2, <2>4, <2>5
<1>6. CASE a \notin left /\ \A p \in 1 .. Len(queue) : queue[p] # Check
  <2>1. age[a] =< Timeout \/ age[a] + Batch + MaxWait + MaxMarks =< NoticedWithin
    BY <1>6 DEF DueToMark, CheckIsNear
  <2>2. age[a] + Batch + MaxWait + MaxMarks =< NoticedWithin => age[a] =< NoticedWithin
    BY ONLY <1>1, <1>3
  <2> QED
    BY <1>2, <2>1, <2>2
<1> QED
  BY <1>4, <1>5, <1>6

(* What is known of every reachable state.                                 *)
LEMMA InitKnown == Init => KnownInv /\ DeadInv
<1> SUFFICES ASSUME Init PROVE KnownInv /\ DeadInv
  OBVIOUS
<1>1. TypeOK /\ LockInv
  BY InitTypes, InitLockInv
<1>2. queue = <<>> /\ holder = Free /\ left = {} /\ removes = 0 /\ Len(queue) = 0
      /\ \A a \in Agents : entry[a] = "absent"
  BY DEF Init
<1>3. Places = {0} /\ At(0)[1] = "free"
  BY <1>2 DEF Places, At, Free
<1>4. Removals = {}
  BY <1>3 DEF Removals
<1>5. LineInv
  <2>1. Cardinality(Removals) =< removes
    BY <1>2, <1>4, FS_EmptySet
  <2>2. \A i \in 1 .. Len(queue) : queue[i][1] # "mark"
    BY <1>2
  <2>3. \A i \in Places : i = 0
    BY <1>3
  <2>4. ~CheckAt(0) /\ \A a \in Agents : ~CallOf(0, a)
    BY <1>3 DEF CheckAt, CallOf, CallOps
  <2> QED
    BY <1>2, <2>1, <2>2, <2>3, <2>4 DEF LineInv
<1>6. DeadInv
  BY <1>2 DEF DeadInv
<1> QED
  BY <1>1, <1>5, <1>6 DEF KnownInv

(* An agent that died is marked offline in time, for any number of agents  *)
(* and any timing: DeadIsNoticedInTime.                                    *)
THEOREM DeadAgentsAreNoticed == Spec => []DeadIsNoticedInTime
<1>1. Init => KnownInv /\ DeadInv
  BY InitKnown
<1>2. KnownInv /\ DeadInv /\ [Next]_vars => (KnownInv /\ DeadInv)'
  BY KnownStep, DeadStep
<1>3. KnownInv /\ DeadInv => DeadIsNoticedInTime
  BY DueIsInTime DEF DeadInv, DeadIsNoticedInTime
<1> QED
  BY <1>1, <1>2, <1>3, PTL DEF Spec
-----------------------------------------------------------------------------
(* A process and its entry: registration comes first, and the ticker of    *)
(* the heartbeats starts with it.                                          *)
LifeInv ==
    \A a \in Agents :
        /\ live[a] = "off" => entry[a] = "absent"
        /\ live[a] = "joining" /\ entry[a] # "absent" => holder = <<"register", a>>
        /\ live[a] \in {"off", "joining"} => beatIn[a] = Interval /\ ~beatDue[a]
        /\ \A i \in 1 .. Len(queue) : queue[i] = <<"register", a>> => entry[a] = "absent"

(* What a step does to the calls in the line, when they move up.           *)
LEMMA MovedCalls ==
    ASSUME TypeOK, TypeOK', LineInv, NEW op, Moved(op)
    PROVE  /\ \A i \in Places', a \in Agents : CallOf(i, a)' =>
                 i + 1 \in Places /\ CallOf(i + 1, a) /\ At(i)' = At(i + 1)
           /\ At(1) = op /\ 1 \in Places /\ Len(queue') = Len(queue) - 1 /\ Len(queue) \in Nat
           /\ \A i \in 1 .. Len(queue') :
                 i + 1 \in 1 .. Len(queue) /\ i + 1 # 1 /\ i + 1 # 0 /\ queue'[i] = queue[i + 1]
<1>1. Len(queue) \in Nat /\ Len(queue) >= 1 /\ queue[1] = op /\ Shifts(1)
  BY LineTypes DEF Moved
<1>2. \A i \in Places' :
              /\ i + 1 \in Places
              /\ \/ At(i)' = At(i + 1)
                 \/ i = 0 /\ At(i)' = Free
                 \/ i = 0 /\ At(i)' \in Ops /\ At(i)'[1] = "mark" /\ CheckAt(i + 1)
  BY <1>1, ShiftedPlaces
<1>3. \A i \in Places', a \in Agents : CallOf(i, a)' => CallOf(i + 1, a) /\ At(i)' = At(i + 1)
  BY <1>2 DEF CallOf, CallOps, Free
<1>4. Len(queue') = Len(queue) - 1 /\ \A i \in 1 .. Len(queue') : queue'[i] = queue[i + 1]
  BY <1>1 DEF Shifts
<1>5. \A i \in 1 .. Len(queue') : i + 1 \in 1 .. Len(queue) /\ i + 1 # 1 /\ i + 1 # 0
  BY <1>1, <1>4
<1>6. At(1) = op /\ 1 \in Places
  BY <1>1 DEF At, Places
<1> QED
  BY <1>1, <1>2, <1>3, <1>4, <1>5, <1>6

(* LifeInv is inductive.                                                   *)
LEMMA LifeStep ==
    ASSUME KnownInv, KnownInv', LifeInv, [Next]_vars
    PROVE  LifeInv'
<1>0. /\ live \in [Agents -> {"off", "joining", "up", "dead"}]
      /\ entry \in [Agents -> {"absent", "online", "offline"}] /\ Len(queue) \in Nat
      /\ beatDue \in [Agents -> BOOLEAN]
  BY LineTypes DEF KnownInv, TypeOK, FlagsOK
<1>1. ASSUME NEW op, Joins(op), op[1] # "register", UNCHANGED <<live, entry, beatIn>>,
             \A a \in Agents : live[a] \in {"off", "joining"} => beatDue'[a] = beatDue[a]
      PROVE  LifeInv'
  <2>1. holder' = holder
    BY <1>1 DEF Joins
  <2>2. \A a \in Agents, i \in 1 .. Len(queue') :
           queue'[i] = <<"register", a>> => i \in 1 .. Len(queue) /\ queue[i] = <<"register", a>>
    <3>1. \A i \in 1 .. Len(queue') : i \in 1 .. Len(queue) \/ i = Len(queue) + 1
      BY <1>0, <1>1 DEF Joins
    <3> QED
      BY <1>1, <3>1 DEF Joins
  <2> QED
    BY <1>1, <2>1, <2>2 DEF LifeInv
<1>2. ASSUME NEW b \in Agents, Boot(b) PROVE LifeInv'
  <2>1. /\ live[b] = "off" /\ live' = [live EXCEPT ![b] = "joining"]
        /\ UNCHANGED <<entry, beatIn, beatDue, holder>> /\ Joins(<<"register", b>>)
    BY <1>2, JoinMoves DEF Boot, KnownInv
  <2>2. \A a \in Agents, i \in 1 .. Len(queue') :
           queue'[i] = <<"register", a>> => a = b \/ (i \in 1 .. Len(queue) /\ queue[i] = <<"register", a>>)
    <3>1. \A i \in 1 .. Len(queue') : i \in 1 .. Len(queue) \/ i = Len(queue) + 1
      BY <1>0, <2>1 DEF Joins
    <3> QED
      BY <2>1, <3>1 DEF Joins
  <2>3. entry[b] = "absent"
    BY <2>1 DEF LifeInv
  <2> QED
    BY <1>0, <2>1, <2>2, <2>3 DEF LifeInv
<1>3. ASSUME NEW b \in Agents, SendHeartbeat(b) PROVE LifeInv'
  <2>1. /\ live[b] = "up" /\ UNCHANGED <<live, entry, beatIn>> /\ Joins(<<"heartbeat", b>>)
        /\ beatDue' = [beatDue EXCEPT ![b] = FALSE]
    BY <1>3, JoinMoves DEF SendHeartbeat, SendsHeartbeat, KnownInv
  <2>2. \A a \in Agents : live[a] \in {"off", "joining"} => beatDue'[a] = beatDue[a]
    BY <1>0, <2>1
  <2> QED
    BY <1>1, <2>1, <2>2
<1>4. ASSUME NEW b \in Agents, DeleteAgent(b) PROVE LifeInv'
  BY <1>1, <1>4, JoinMoves DEF DeleteAgent, agentVars, KnownInv
<1>5. CASE StartCheck
  BY <1>1, <1>5, JoinMoves, AgentsAssumption DEF StartCheck, agentVars, KnownInv, Check
<1>6. ASSUME NEW b \in Agents, Register(b) \/ Heartbeat(b) \/ Remove(b) PROVE LifeInv'
  <2>1. UNCHANGED <<live, beatIn, beatDue>> /\ holder = Free
    BY <1>6 DEF Register, Heartbeat, Remove, agentVars, Granted
  <2>2. PICK k \in {"register", "heartbeat", "remove"} :
           /\ Moved(<<k, b>>)
           /\ k = "register" => holder' = <<"register", b>>
           /\ \/ entry' = [entry EXCEPT ![b] = "absent"]
              \/ entry' = entry
              \/ entry' = [entry EXCEPT ![b] = "online"] /\ (k = "register" \/ entry[b] # "absent")
    <3>1. CASE Register(b)
      BY <3>1, GrantMoves DEF Register, Refresh, CallDb, KnownInv
    <3>2. CASE Heartbeat(b)
      BY <3>2, GrantMoves DEF Heartbeat, Refresh, KnownInv
    <3>3. CASE Remove(b)
      BY <3>3, GrantMoves DEF Remove, KnownInv
    <3> QED
      BY <1>6, <3>1, <3>2, <3>3
  <2>3. /\ At(1) = <<k, b>> /\ 1 \in Places
        /\ \A i \in 1 .. Len(queue') :
              i + 1 \in 1 .. Len(queue) /\ i + 1 # 1 /\ i + 1 # 0 /\ queue'[i] = queue[i + 1]
    BY <2>2, MovedCalls DEF KnownInv
  <2>4. \A a \in Agents : live[a] = "joining" => entry[a] = "absent"
    BY <2>1 DEF LifeInv, Free
  <2>5. k = "register" => live[b] # "off"
    BY <2>3 DEF KnownInv, LineInv, CallOf, CallOps
  <2>6. k = "register" => \A i \in 1 .. Len(queue') : queue'[i] # <<"register", b>>
    <3>1. \A i \in 1 .. Len(queue') : i + 1 \in Places
      BY <1>0, <2>3 DEF Places
    <3>2. SUFFICES ASSUME k = "register", NEW i \in 1 .. Len(queue'), queue'[i] = <<"register", b>>
                   PROVE  FALSE
      OBVIOUS
    <3>3. CallOf(1, b) /\ CallOf(i + 1, b)
      BY <2>3, <3>2 DEF CallOf, At, CallOps
    <3> QED
      BY <2>3, <3>1, <3>3 DEF KnownInv, LineInv
  <2>7. \A a \in Agents, i \in 1 .. Len(queue') :
           queue'[i] = <<"register", a>> => entry[a] = "absent"
    BY <2>3 DEF LifeInv
  <2>8. \A a \in Agents : a # b => entry'[a] = entry[a]
    BY <1>0, <2>2
  <2>9. /\ live[b] = "off" => entry'[b] = "absent"
        /\ live[b] = "joining" /\ entry'[b] # "absent" => holder' = <<"register", b>>
        /\ \A i \in 1 .. Len(queue') : queue'[i] = <<"register", b>> => entry'[b] = "absent"
    BY <1>0, <2>2, <2>4, <2>5, <2>6, <2>7 DEF LifeInv
  <2> QED
    BY <2>1, <2>4, <2>7, <2>8, <2>9 DEF LifeInv
<1>7. CASE MarkOffline
  <2>1. UNCHANGED <<live, beatIn, beatDue>> /\ holder = Free /\ Moved(Check)
    BY <1>7, GrantMoves, AgentsAssumption DEF MarkOffline, agentVars, Granted, KnownInv
  <2>2. \A i \in 1 .. Len(queue') : i + 1 \in 1 .. Len(queue) /\ queue'[i] = queue[i + 1]
    BY <2>1, MovedCalls DEF KnownInv
  <2>3. \A a \in Agents : entry'[a] = "absent" <=> entry[a] = "absent"
    <3>1. entry' = entry \/ \E b \in Agents : entry[b] = "online" /\ entry' = [entry EXCEPT ![b] = "offline"]
      BY <1>7 DEF MarkOffline, Mark, Stale
    <3> QED
      BY <1>0, <3>1
  <2>4. \A a \in Agents : live[a] = "joining" => entry[a] = "absent"
    BY <2>1 DEF LifeInv, Free
  <2> QED
    BY <2>1, <2>2, <2>3, <2>4 DEF LifeInv
<1>8. CASE DbReturns
  <2>1. UNCHANGED <<beatIn, beatDue, queue>>
    BY <1>8 DEF DbReturns
  <2>2. \A a \in Agents : entry'[a] = "absent" <=> entry[a] = "absent"
    <3>1. entry' = entry \/ \E b \in left : entry' = [entry EXCEPT ![b] = "offline"]
      BY <1>8 DEF DbReturns, Unlock, Mark
    <3>2. \A b \in left : b \in Agents /\ entry[b] = "online"
      BY DEF KnownInv, LockInv
    <3> QED
      BY <1>0, <3>1, <3>2
  <2>3. \A a \in Agents : live'[a] = IF holder = <<"register", a>> /\ live[a] = "joining"
                                     THEN "up" ELSE live[a]
    BY <1>8 DEF DbReturns, Unlock
  <2>4. \A a \in Agents : live'[a] = "joining" => live[a] = "joining" /\ entry[a] = "absent"
    BY <2>3 DEF LifeInv
  <2>5. \A a \in Agents : live'[a] = "off" => live[a] = "off"
    BY <2>3
  <2> QED
    BY <2>1, <2>2, <2>4, <2>5 DEF LifeInv
<1>9. ASSUME NEW b \in Agents, Crash(b) PROVE LifeInv'
  <2>1. /\ live' = [live EXCEPT ![b] = "dead"] /\ beatDue' = [beatDue EXCEPT ![b] = FALSE]
        /\ UNCHANGED <<entry, beatIn, holder, queue>>
    BY <1>9 DEF Crash, lockVars
  <2> QED
    BY <1>0, <2>1 DEF LifeInv
<1>10. CASE Tick
  <2>1. /\ UNCHANGED <<live, entry, holder, queue>>
        /\ \A a \in Agents : beatIn'[a] = NextBeat(a)
        /\ \A a \in Agents : beatDue'[a] = (beatDue[a] \/ (live[a] = "up" /\ beatIn[a] = 1))
    BY <1>10 DEF Tick
  <2>2. \A a \in Agents : live[a] # "up" => beatIn'[a] = Interval
    BY <2>1 DEF NextBeat
  <2>3. \A a \in Agents : live[a] # "up" /\ ~beatDue[a] => ~beatDue'[a]
    BY <2>1
  <2> QED
    BY <2>1, <2>2, <2>3 DEF LifeInv
<1>11. CASE EnqueueStartTest \/ Poll \/ DequeueCommand \/ GiveUp \/ DequeueForNobody \/ UNCHANGED vars
  <2>1. UNCHANGED <<live, entry, beatIn, beatDue, holder, queue>>
    BY <1>11, IdleSteps DEF lineVars
  <2> QED
    BY <2>1 DEF LifeInv
<1> QED
  BY <1>2, <1>3, <1>4, <1>5, <1>6, <1>7, <1>8, <1>9, <1>10, <1>11 DEF Next
-----------------------------------------------------------------------------
(* When there is room for the others' calls and a heartbeat's own in what  *)
(* Timeout leaves after Interval, a live agent is refreshed in time.       *)
Room       == Interval + MaxWait =< Timeout
OthersWait == Calls(N - 1 + MaxRemoves)
BeatWait(a) == IF beatDue[a] THEN 0 ELSE beatIn[a]

(* The agents a check at place c of the line will find stale: their calls  *)
(* do not come before it.                                                  *)
Doomed(c) == {x \in Agents : /\ entry[x] = "online"
                             /\ age[x] + HoldLeft + Calls(c - 1) > Timeout
                             /\ \A j \in 0 .. c - 1 : ~CallOf(j, x)}

(* Agents that are marked, or about to be, are dead and have no call left. *)
GoneInv ==
    \A a \in Agents : (entry[a] = "offline" \/ a \in left) =>
        live[a] = "dead" /\ \A i \in Places : ~CallOf(i, a)

(* The agent whose call is made was refreshed when the call began.         *)
HeldInv ==
    \A a \in Agents : CallOf(0, a) =>
        /\ age[a] =< dbAge
        /\ live[a] = "up" => beatDue[a] \/ dbAge + beatIn[a] =< Interval

(* A heartbeat in the line is in time: after the marks that are left to    *)
(* make, after those of a check that comes before it, or without any.      *)
InTime(a, i) ==
    /\ holder[1] = "mark" => age[a] + HoldLeft + Calls(i - 1 + Cardinality(left)) =< Timeout
    /\ \A c \in 1 .. i - 1 : queue[c] = Check =>
          age[a] + HoldLeft + Calls(i - 2 + Cardinality(Doomed(c))) =< Timeout
    /\ (holder[1] # "mark" /\ \A c \in 1 .. i - 1 : queue[c] # Check) =>
          age[a] + HoldLeft + Calls(i - 1) =< Timeout

InLineInv ==
    \A a \in Agents, i \in 1 .. Len(queue) :
        queue[i] = <<"heartbeat", a>> /\ entry[a] = "online" => InTime(a, i)

(* Between two heartbeats there is time for the next tick and the others.  *)
Waits(a) == live[a] = "up" /\ entry[a] = "online" /\ \A i \in Places : ~CallOf(i, a)
UpInv == \A a \in Agents : Waits(a) => age[a] + BeatWait(a) + OthersWait =< Timeout

HealthyInv == LifeInv /\ GoneInv /\ HeldInv /\ InLineInv /\ UpInv

LEMMA RoomTypes ==
    /\ OthersWait \in Nat /\ MaxWait = OthersWait + DbTicks
    /\ N - 1 + MaxRemoves \in Nat /\ N - 1 \in Nat
    /\ \A a \in Agents : Cardinality(Agents \ {a}) = N - 1
<1>1. N - 1 + MaxRemoves \in Nat /\ N - 1 \in Nat /\ (N - 1 + MaxRemoves) + 1 = N + MaxRemoves
  BY BoundTypes, TimesAssumption
<1>2. OthersWait \in Nat /\ Calls((N - 1 + MaxRemoves) + 1) = OthersWait + DbTicks
  BY <1>1, CallsAdd DEF OthersWait
<1>3. \A a \in Agents : Cardinality(Agents \ {a}) = N - 1
  BY AgentsAssumption, FS_RemoveElement DEF N
<1> QED
  BY <1>1, <1>2, <1>3, BoundTypes

LEMMA HealthyTypes ==
    ASSUME KnownInv
    PROVE  /\ \A a \in Agents : age[a] \in Nat /\ beatIn[a] \in 1 .. Interval /\ BeatWait(a) \in Nat
           /\ dbAge \in 0 .. DbTicks
           /\ \A c : IsFiniteSet(Doomed(c)) /\ Cardinality(Doomed(c)) \in Nat
           /\ \A c : Doomed(c) # {} => Cardinality(Doomed(c)) >= 1
<1>1. \A a \in Agents : age[a] \in Nat /\ beatIn[a] \in 1 .. Interval
  BY DeadTypes DEF KnownInv, TypeOK
<1>2. \A a \in Agents : BeatWait(a) \in Nat
  BY <1>1, TimesAssumption DEF BeatWait
<1>3. dbAge \in 0 .. DbTicks
  BY DEF KnownInv, TypeOK
<1>4. ASSUME NEW c
      PROVE  /\ IsFiniteSet(Doomed(c)) /\ Cardinality(Doomed(c)) \in Nat
             /\ Doomed(c) # {} => Cardinality(Doomed(c)) >= 1
  <2>1. Doomed(c) \in SUBSET Agents
    BY DEF Doomed
  <2>2. IsFiniteSet(Doomed(c)) 
    BY <2>1, AgentsAssumption, FS_Subset
  <2>3. Cardinality(Doomed(c)) \in Nat /\ (Doomed(c) # {} => Cardinality(Doomed(c)) # 0)
    BY <2>2, FS_CardinalityType, FS_EmptySet
  <2> QED
    BY <2>2, <2>3
<1> QED
  BY <1>1, <1>2, <1>3, <1>4

(* A heartbeat that is in time is not older than Timeout.                  *)
LEMMA InTimeIsYoung ==
    ASSUME KnownInv, NEW a \in Agents, NEW i \in 1 .. Len(queue), InTime(a, i)
    PROVE  age[a] =< Timeout
<1>1. /\ age[a] \in Nat /\ HoldLeft \in Nat /\ Cardinality(left) \in Nat /\ Timeout \in Nat
      /\ i - 1 \in Nat /\ Len(queue) \in Nat /\ \A c : Cardinality(Doomed(c)) \in Nat
  <2>1. Len(queue) \in Nat
    BY LineTypes DEF KnownInv
  <2> QED
    BY <2>1, HealthyTypes, DeadTypes, TimesAssumption DEF KnownInv
<1>2. \A g, h, k, t \in Nat : g + h + k =< t => g =< t
  OBVIOUS
<1>3. CASE holder[1] = "mark"
  <2>1. i - 1 + Cardinality(left) \in Nat
    BY <1>1
  <2>2. Calls(i - 1 + Cardinality(left)) \in Nat
    BY <2>1, CallsAdd
  <2>3. age[a] + HoldLeft + Calls(i - 1 + Cardinality(left)) =< Timeout
    BY <1>3 DEF InTime
  <2> QED
    BY ONLY <1>1, <1>2, <2>2, <2>3
<1>4. CASE \E c \in 1 .. i - 1 : queue[c] = Check
  <2>1. PICK c \in 1 .. i - 1 : queue[c] = Check
    BY <1>4
  <2>2. age[a] + HoldLeft + Calls(i - 2 + Cardinality(Doomed(c))) =< Timeout
    BY <2>1 DEF InTime
  <2>3. i - 2 + Cardinality(Doomed(c)) \in Nat
    <3>1. i - 2 \in Nat
      BY <1>1, <2>1
    <3> QED
      BY <1>1, <3>1
  <2>4. Calls(i - 2 + Cardinality(Doomed(c))) \in Nat
    BY <2>3, CallsAdd
  <2> QED
    BY ONLY <1>1, <1>2, <2>2, <2>4
<1>5. CASE holder[1] # "mark" /\ \A c \in 1 .. i - 1 : queue[c] # Check
  <2>1. Calls(i - 1) \in Nat
    BY <1>1, CallsAdd
  <2>2. age[a] + HoldLeft + Calls(i - 1) =< Timeout
    BY <1>5 DEF InTime
  <2> QED
    BY ONLY <1>1, <1>2, <2>1, <2>2
<1> QED
  BY <1>3, <1>4, <1>5

(* An agent that waits is not older than Timeout.                          *)
LEMMA WaitingIsYoung ==
    ASSUME KnownInv, UpInv, NEW a \in Agents, Waits(a)
    PROVE  age[a] =< Timeout
<1>1. age[a] \in Nat /\ BeatWait(a) \in Nat /\ OthersWait \in Nat /\ Timeout \in Nat
  BY HealthyTypes, RoomTypes, TimesAssumption
<1>2. age[a] + BeatWait(a) + OthersWait =< Timeout
  BY DEF UpInv
<1> QED
  BY <1>1, <1>2
(* What a check finds stale is dead, and has no call left in the line.     *)
LEMMA StaleIsDead ==
    ASSUME KnownInv, HealthyInv, holder = Free, NEW a \in Stale
    PROVE  live[a] = "dead" /\ \A i \in Places : ~CallOf(i, a)
<1>1. a \in Agents /\ entry[a] = "online" /\ ~(age[a] =< Timeout)
  BY HealthyTypes, TimesAssumption DEF Stale
<1>2. Len(queue) \in Nat
  BY LineTypes DEF KnownInv
<1>3. ASSUME NEW i \in Places, CallOf(i, a) PROVE FALSE
  <2>1. i # 0 /\ i \in 1 .. Len(queue)
    BY <1>2, <1>3 DEF Places, CallOf, At, CallOps, Free
  <2>2. queue[i] = <<"register", a>> \/ queue[i] = <<"heartbeat", a>>
    <3>1. queue[i] \in Ops \cup {Check} /\ At(i) = queue[i]
      BY <2>1, LineTypes DEF KnownInv
    <3> QED
      BY <1>3, <3>1 DEF CallOf, CallOps, Ops, Check
  <2>3. queue[i] # <<"register", a>>
    BY <1>1, <2>1 DEF HealthyInv, LifeInv
  <2>4. InTime(a, i)
    BY <1>1, <2>1, <2>2, <2>3 DEF HealthyInv, InLineInv
  <2> QED
    BY <1>1, <2>1, <2>4, InTimeIsYoung
<1>4. live[a] # "up"
  BY <1>1, <1>3, WaitingIsYoung DEF HealthyInv, Waits
<1>5. live[a] \notin {"off", "joining"}
  BY <1>1 DEF HealthyInv, LifeInv, Free
<1>6. live[a] \in {"off", "joining", "up", "dead"}
  BY <1>1 DEF KnownInv, TypeOK
<1> QED
  BY <1>3, <1>4, <1>5, <1>6

(* GoneInv is inductive.                                                   *)
LEMMA GoneStep ==
    ASSUME KnownInv, KnownInv', HealthyInv, [Next]_vars
    PROVE  GoneInv'
<1> DEFINE Gone(a) == entry[a] = "offline" \/ a \in left
<1>0. /\ live \in [Agents -> {"off", "joining", "up", "dead"}] /\ Len(queue) \in Nat
      /\ entry \in [Agents -> {"absent", "online", "offline"}]
      /\ \A a \in Agents : Gone(a) => live[a] = "dead" /\ \A i \in Places : ~CallOf(i, a)
  BY LineTypes DEF KnownInv, TypeOK, HealthyInv, GoneInv
<1>1. ASSUME NEW op \in Ops \cup {Check}, Joins(op), UNCHANGED <<entry, left>>,
             \A a \in Agents : live[a] = "dead" => live'[a] = "dead",
             op[1] \in CallOps => live[op[2]] # "dead"
      PROVE  GoneInv'
  <2>1. PICK e \in Nat : e = Len(queue) + 1
    BY <1>0
  <2>2. Places' = Places \cup {e} /\ (\A i \in Places : At(i)' = At(i)) /\ At(e)' = op
    BY <1>1, <2>1, JoinedPlaces DEF KnownInv
  <2>3. ASSUME NEW a \in Agents, Gone(a) PROVE live'[a] = "dead" /\ \A i \in Places' : ~CallOf(i, a)'
    <3>1. live[a] = "dead" /\ \A i \in Places : ~CallOf(i, a)
      BY <1>0, <2>3
    <3> QED
      BY <1>1, <2>2, <3>1 DEF CallOf
  <2> QED
    BY <1>1, <2>3 DEF GoneInv
<1>2. ASSUME NEW b \in Agents, Boot(b) PROVE GoneInv'
  <2>1. /\ live[b] = "off" /\ live' = [live EXCEPT ![b] = "joining"] /\ UNCHANGED <<entry, left>>
        /\ Joins(<<"register", b>>) /\ <<"register", b>> \in Ops
    BY <1>2, JoinMoves DEF Boot, KnownInv, Ops
  <2> QED
    BY <1>0, <1>1, <2>1
<1>3. ASSUME NEW b \in Agents, SendHeartbeat(b) PROVE GoneInv'
  <2>1. /\ live[b] = "up" /\ UNCHANGED <<live, entry, left>>
        /\ Joins(<<"heartbeat", b>>) /\ <<"heartbeat", b>> \in Ops
    BY <1>3, JoinMoves DEF SendHeartbeat, SendsHeartbeat, KnownInv, Ops
  <2> QED
    BY <1>1, <2>1
<1>4. ASSUME NEW b \in Agents, DeleteAgent(b) PROVE GoneInv'
  <2>1. /\ UNCHANGED <<live, entry, left>>
        /\ Joins(<<"remove", b>>) /\ <<"remove", b>> \in Ops /\ "remove" \notin CallOps
    BY <1>4, JoinMoves DEF DeleteAgent, agentVars, KnownInv, Ops, CallOps
  <2> QED
    BY <1>1, <2>1
<1>5. CASE StartCheck
  <2>1. /\ UNCHANGED <<live, entry, left>> /\ Joins(Check) /\ Check[1] \notin CallOps
    BY <1>5, JoinMoves, AgentsAssumption DEF StartCheck, agentVars, KnownInv, Check, CallOps
  <2> QED
    BY <1>1, <2>1
<1>6. ASSUME NEW op, Moved(op), UNCHANGED live,
             \A a \in Agents : (entry'[a] = "offline" \/ a \in left') =>
                live[a] = "dead" /\ \A i \in Places : ~CallOf(i, a)
      PROVE  GoneInv'
  <2>1. \A i \in Places', a \in Agents : CallOf(i, a)' => i + 1 \in Places /\ CallOf(i + 1, a)
    BY <1>6, MovedCalls DEF KnownInv
  <2> QED
    BY <1>6, <2>1 DEF GoneInv
<1>7. ASSUME NEW b \in Agents, Register(b) \/ Heartbeat(b) \/ Remove(b) PROVE GoneInv'
  <2>1. \E op : Moved(op)
    BY <1>7, GrantMoves DEF KnownInv
  <2>2. UNCHANGED <<live, left>>
    BY <1>7 DEF Register, Heartbeat, Remove, agentVars
  <2>3. entry' = entry \/ \E v \in {"online", "absent"} : entry' = [entry EXCEPT ![b] = v]
    BY <1>7 DEF Register, Heartbeat, Remove, Refresh
  <2>4. \A a \in Agents : entry'[a] = "offline" => entry[a] = "offline"
    BY <1>0, <2>3
  <2> QED
    BY <1>0, <1>6, <2>1, <2>2, <2>4
<1>8. CASE MarkOffline
  <2>1. Moved(Check) /\ holder = Free /\ UNCHANGED live /\ left = {}
    BY <1>8, GrantMoves, AgentsAssumption
       DEF MarkOffline, agentVars, Granted, KnownInv, LockInv
  <2>2. ASSUME NEW a \in Agents, entry'[a] = "offline" \/ a \in left' PROVE Gone(a) \/ a \in Stale
    <3>1. CASE Stale = {}
      BY <1>8, <2>2, <3>1 DEF MarkOffline
    <3>2. CASE Stale # {}
      <4>1. PICK b \in Stale : entry' = [entry EXCEPT ![b] = "offline"] /\ left' = Stale \ {b}
        BY <1>8, <3>2 DEF MarkOffline, Mark
      <4> QED
        BY <1>0, <2>2, <4>1
    <3> QED
      BY <3>1, <3>2
  <2> QED
    BY <1>0, <1>6, <2>1, <2>2, StaleIsDead
<1>9. ASSUME Shifts(0), \A a \in Agents : live[a] = "dead" => live'[a] = "dead",
             \A a \in Agents : entry'[a] = "offline" \/ a \in left' => Gone(a)
      PROVE  GoneInv'
  <2>1. \A i \in Places' :
              /\ i + 0 \in Places
              /\ \/ At(i)' = At(i + 0)
                 \/ i = 0 /\ At(i)' = Free
                 \/ i = 0 /\ At(i)' \in Ops /\ At(i)'[1] = "mark" /\ CheckAt(i + 0)
    BY <1>0, <1>9, ShiftedPlaces DEF KnownInv
  <2>2. \A i \in Places', a \in Agents : CallOf(i, a)' => i + 0 \in Places /\ CallOf(i + 0, a)
    BY <2>1 DEF CallOf, CallOps, Free
  <2>3. ASSUME NEW a \in Agents, entry'[a] = "offline" \/ a \in left'
        PROVE  live'[a] = "dead" /\ \A i \in Places' : ~CallOf(i, a)'
    <3>1. Gone(a)
      BY <1>9, <2>3
    <3> QED
      BY <1>0, <1>9, <2>2, <3>1
  <2> QED
    BY <2>3 DEF GoneInv
<1>10. CASE DbReturns
  <2>1. \A a \in Agents : live[a] = "dead" => live'[a] = "dead"
    BY <1>10 DEF DbReturns, Unlock
  <2>2. \A a \in Agents : entry'[a] = "offline" \/ a \in left' => Gone(a)
    <3>1. CASE left = {}
      BY <1>10, <3>1 DEF DbReturns, Unlock
    <3>2. CASE left # {}
      <4>1. PICK b \in left : entry' = [entry EXCEPT ![b] = "offline"] /\ left' = left \ {b}
        BY <1>10, <3>2 DEF DbReturns, Unlock, Mark
      <4> QED
        BY <1>0, <4>1
    <3> QED
      BY <3>1, <3>2
  <2> QED
    BY <1>9, <1>10, <2>1, <2>2, StayMoves DEF KnownInv
<1>11. ASSUME NEW b \in Agents, Crash(b) PROVE GoneInv'
  <2>1. live' = [live EXCEPT ![b] = "dead"] /\ UNCHANGED <<entry, left, queue, holder>>
    BY <1>11 DEF Crash, lockVars
  <2> QED
    BY <1>0, <1>9, <2>1, StayMoves DEF KnownInv
<1>12. CASE Tick
  BY <1>9, <1>12, StayMoves DEF KnownInv, Tick
<1>13. CASE EnqueueStartTest \/ Poll \/ DequeueCommand \/ GiveUp \/ DequeueForNobody \/ UNCHANGED vars
  BY <1>9, <1>13, IdleSteps, StayMoves DEF KnownInv, lineVars
<1> QED
  BY <1>2, <1>3, <1>4, <1>5, <1>7, <1>8, <1>10, <1>11, <1>12, <1>13 DEF Next

(* HeldInv is inductive.                                                   *)
LEMMA HeldStep ==
    ASSUME KnownInv, KnownInv', HeldInv, [Next]_vars
    PROVE  HeldInv'
<1>0. /\ live \in [Agents -> {"off", "joining", "up", "dead"}]
      /\ beatDue \in [Agents -> BOOLEAN]
      /\ \A a \in Agents : age[a] \in Nat /\ beatIn[a] \in 1 .. Interval
      /\ dbAge \in Nat /\ age \in [Agents -> 0 .. AgeCap]
  BY HealthyTypes, TimesAssumption DEF KnownInv, TypeOK, FlagsOK
<1>1. ASSUME UNCHANGED <<holder, age, dbAge, beatIn>>,
             \A a \in Agents : live'[a] = "up" => live[a] = "up",
             \A a \in Agents : CallOf(0, a) => beatDue'[a] = beatDue[a] \/ live'[a] # "up"
      PROVE  HeldInv'
  BY <1>1 DEF HeldInv, CallOf, At
<1>2. ASSUME NEW b \in Agents, Boot(b) PROVE HeldInv'
  <2>1. live' = [live EXCEPT ![b] = "joining"] /\ UNCHANGED <<holder, age, dbAge, beatIn, beatDue>>
    BY <1>2 DEF Boot
  <2> QED
    BY <1>0, <1>1, <2>1
<1>3. ASSUME NEW b \in Agents, SendHeartbeat(b) PROVE HeldInv'
  <2>1. /\ live[b] = "up" /\ ~Busy(<<"heartbeat", b>>) /\ beatDue' = [beatDue EXCEPT ![b] = FALSE]
        /\ UNCHANGED <<live, holder, age, dbAge, beatIn>>
    BY <1>3 DEF SendHeartbeat, SendsHeartbeat
  <2>2. \A a \in Agents : CallOf(0, a) => a # b
    <3>1. 0 \in Places
      BY LineTypes DEF KnownInv, Places
    <3> QED
      BY <2>1, <3>1, SenderHasNoCall DEF KnownInv
  <2> QED
    BY <1>0, <1>1, <2>1, <2>2
<1>4. CASE StartCheck \/ \E b \in Agents : DeleteAgent(b)
  BY <1>1, <1>4 DEF StartCheck, DeleteAgent, agentVars
<1>5. ASSUME NEW b \in Agents, Crash(b) PROVE HeldInv'
  <2>1. /\ live' = [live EXCEPT ![b] = "dead"] /\ beatDue' = [beatDue EXCEPT ![b] = FALSE]
        /\ UNCHANGED <<holder, age, dbAge, beatIn>>
    BY <1>5 DEF Crash, lockVars
  <2> QED
    BY <1>0, <1>1, <2>1
<1>6. CASE EnqueueStartTest \/ Poll \/ DequeueCommand \/ GiveUp \/ DequeueForNobody \/ UNCHANGED vars
  BY <1>1, <1>6, IdleSteps DEF lineVars
<1>7. ASSUME holder' = Free \/ holder'[1] = "mark" \/ holder'[1] = "remove" PROVE HeldInv'
  BY <1>7 DEF HeldInv, CallOf, At, CallOps, Free
<1>8. ASSUME NEW b \in Agents, Remove(b) PROVE HeldInv'
  BY <1>7, <1>8 DEF Remove, CallDb
<1>9. CASE MarkOffline
  BY <1>7, <1>9 DEF MarkOffline, Mark, CallDb, Granted
<1>10. CASE DbReturns
  <2>1. holder' = Free \/ holder'[1] = "mark"
    BY <1>10 DEF DbReturns, Unlock, Mark, CallDb
  <2> QED
    BY <1>7, <2>1
<1>11. ASSUME NEW b \in Agents, Register(b) \/ Heartbeat(b) PROVE HeldInv'
  <2>1. CASE holder' = Free
    BY <1>7, <2>1
  <2>2. CASE holder' # Free
    <3>1. /\ \E k \in CallOps : holder' = <<k, b>>
          /\ age' = [age EXCEPT ![b] = 0] /\ dbAge' = 0 /\ beatIn' = beatIn
      BY <1>11, <2>2 DEF Register, Heartbeat, Refresh, CallDb, agentVars, Granted, CallOps
    <3>2. \A a \in Agents : CallOf(0, a)' => a = b
      BY <3>1 DEF CallOf, At
    <3>3. age'[b] = 0
      BY <1>0, <3>1
    <3>4. 0 + beatIn[b] =< Interval /\ 0 =< 0
      BY <1>0, TimesAssumption
    <3> QED
      BY <3>1, <3>2, <3>3, <3>4 DEF HeldInv
  <2> QED
    BY <2>1, <2>2
<1>12. CASE Tick
  <2>1. /\ UNCHANGED <<holder, live>>
        /\ \A a \in Agents : age'[a] \in Nat /\ age'[a] =< age[a] + 1
    BY <1>12, TickTimes DEF Tick
  <2>2. ASSUME NEW a \in Agents, CallOf(0, a)'
        PROVE  /\ age'[a] =< dbAge'
               /\ live'[a] = "up" => beatDue'[a] \/ dbAge' + beatIn'[a] =< Interval
    <3>1. CallOf(0, a)
      BY <2>1, <2>2 DEF CallOf, At
    <3>2. dbAge' = dbAge + 1
      BY <1>12, <3>1 DEF Tick, CallOf, At, CallOps, Free
    <3>3. age[a] =< dbAge /\ (live[a] = "up" => beatDue[a] \/ dbAge + beatIn[a] =< Interval)
      BY <3>1 DEF HeldInv
    <3>4. age'[a] =< dbAge'
      BY <1>0, <2>1, <3>2, <3>3
    <3>5. ASSUME live'[a] = "up" PROVE beatDue'[a] \/ dbAge' + beatIn'[a] =< Interval
      <4>1. live[a] = "up"
        BY <2>1, <3>5
      <4>2. beatDue'[a] = (beatDue[a] \/ (live[a] = "up" /\ beatIn[a] = 1))
            /\ beatIn'[a] = IF beatIn[a] = 1 THEN Interval ELSE beatIn[a] - 1
        BY <1>12, <4>1 DEF Tick, NextBeat
      <4>3. beatDue'[a] <=> (beatDue[a] \/ beatIn[a] = 1)
        BY <4>1, <4>2
      <4>4. beatIn[a] # 1 /\ dbAge + beatIn[a] =< Interval => dbAge' + beatIn'[a] =< Interval
        BY <1>0, <3>2, <4>2, TimesAssumption
      <4> QED
        BY <3>3, <4>1, <4>3, <4>4
    <3> QED
      BY <3>4, <3>5
  <2> QED
    BY <2>2 DEF HeldInv
<1> QED
  BY <1>2, <1>3, <1>4, <1>5, <1>6, <1>8, <1>9, <1>10, <1>11, <1>12 DEF Next
-----------------------------------------------------------------------------
(* Fewer agents doomed, fewer marks to wait for.                           *)
LEMMA FewerDoomed ==
    ASSUME KnownInv, KnownInv', NEW c, NEW d, Doomed(c)' \subseteq Doomed(d)
    PROVE  /\ Cardinality(Doomed(c)') \in Nat /\ Cardinality(Doomed(d)) \in Nat
           /\ Cardinality(Doomed(c)') =< Cardinality(Doomed(d))
<1>1. IsFiniteSet(Doomed(d)) /\ Cardinality(Doomed(d)) \in Nat
  BY HealthyTypes
<1>2. IsFiniteSet(Doomed(c)') /\ Cardinality(Doomed(c)') =< Cardinality(Doomed(d))
  BY <1>1, FS_Subset
<1>3. Cardinality(Doomed(c)') \in Nat
  BY <1>2, FS_CardinalityType
<1> QED
  BY <1>1, <1>2, <1>3

(* Those that join the line change nothing for those in it.                *)
LEMMA LineStaysInTime ==
    ASSUME KnownInv, NEW a \in Agents, NEW i \in 1 .. Len(queue), InTime(a, i),
           UNCHANGED <<age, entry, holder, left, dbAge>>,
           queue' = queue \/ \E op \in Ops \cup {Check} : Joins(op)
    PROVE  InTime(a, i)'
<1>1. HoldLeft' = HoldLeft /\ Len(queue) \in Nat
  BY LineTypes DEF HoldLeft, KnownInv
<1>2. \A j \in 1 .. Len(queue) : queue'[j] = queue[j]
  BY DEF Joins
<1>3. \A c \in 1 .. i - 1 : c \in 1 .. Len(queue) /\ \A j \in 0 .. c - 1 : j = 0 \/ j \in 1 .. Len(queue)
  BY <1>1
<1>4. ASSUME NEW c \in 1 .. i - 1 PROVE Doomed(c)' = Doomed(c)
  <2>1. \A j \in 0 .. c - 1, x \in Agents : CallOf(j, x)' <=> CallOf(j, x)
    BY <1>2, <1>3, <1>4 DEF CallOf, At
  <2> QED
    BY <1>1, <2>1 DEF Doomed
<1> QED
  BY <1>1, <1>2, <1>3, <1>4 DEF InTime

(* Another writer gets m.mu: a heartbeat moves up as the call begins.      *)
LEMMA GrantKeepsInTime ==
    ASSUME KnownInv, KnownInv', NEW a \in Agents, NEW b \in Agents, NEW k \in {"register", "heartbeat", "remove"},
           NEW i \in 1 .. Len(queue'), InTime(a, i + 1), Moved(<<k, b>>),
           holder = Free, holder' = <<k, b>> \/ (holder' = Free /\ entry'[b] = "absent"),
           \A x \in Agents : x # b => entry'[x] = entry[x] /\ age'[x] = age[x],
           k = "remove" => entry'[b] = "absent", a # b
    PROVE  InTime(a, i)'
<1>1. /\ At(1) = <<k, b>> /\ Len(queue') = Len(queue) - 1 /\ Len(queue) \in Nat
      /\ \A j \in 1 .. Len(queue') : j + 1 \in 1 .. Len(queue) /\ j + 1 # 0 /\ queue'[j] = queue[j + 1]
  BY MovedCalls DEF KnownInv
<1>2. HoldLeft = 0 /\ HoldLeft' \in 0 .. DbTicks /\ DbTicks \in Nat /\ age[a] \in Nat /\ Timeout \in Nat
      /\ age'[a] = age[a]
  BY HealthyTypes, NextTypes, TimesAssumption DEF KnownInv, HoldLeft
<1>3. holder'[1] # "mark" /\ holder[1] # "mark"
  BY DEF Free
<1>4. \A g, h, d, q, t \in Nat : g + 0 + (q + d) =< t /\ h =< d => g + h + q =< t
  OBVIOUS
<1>5. ASSUME NEW c \in 1 .. i - 1, queue'[c] = Check
      PROVE  age'[a] + HoldLeft' + Calls(i - 2 + Cardinality(Doomed(c)')) =< Timeout
  <2>1. /\ c \in 1 .. Len(queue') /\ c + 1 \in 1 .. (i + 1) - 1 /\ queue[c + 1] = Check
        /\ c - 1 \in Nat /\ (c - 1) + 1 = c /\ (c + 1) - 1 = c /\ i - 2 \in Nat
    BY <1>1, <1>5
  <2>2. age[a] + 0 + Calls((i + 1) - 2 + Cardinality(Doomed(c + 1))) =< Timeout
    BY <1>2, <2>1 DEF InTime
  <2>3. Doomed(c)' \subseteq Doomed(c + 1)
    <3>1. SUFFICES ASSUME NEW x \in Doomed(c)' PROVE x \in Doomed(c + 1)
      OBVIOUS
    <3>2. x \in Agents /\ entry'[x] = "online" /\ age'[x] + HoldLeft' + Calls(c - 1) > Timeout
          /\ \A j \in 0 .. c - 1 : ~CallOf(j, x)'
      BY <3>1 DEF Doomed
    <3>3. x # b
      <4>1. SUFFICES ASSUME x = b PROVE FALSE
        OBVIOUS
      <4>2. holder' = <<k, b>> /\ k \in CallOps
        BY <3>2, <4>1 DEF CallOps
      <4>3. CallOf(0, b)' /\ 0 \in 0 .. c - 1
        BY <2>1, <4>2 DEF CallOf, At
      <4> QED
        BY <3>2, <4>1, <4>3
    <3>4. entry[x] = "online" /\ age'[x] = age[x] /\ age[x] \in Nat
      BY <3>2, <3>3, HealthyTypes
    <3>5. age[x] + HoldLeft + Calls((c + 1) - 1) > Timeout
      <4>1. Calls(c) = Calls(c - 1) + DbTicks /\ Calls(c - 1) \in Nat
        BY <2>1, CallsAdd
      <4>2. \A g, h, q, d, t \in Nat : g + h + q > t /\ h =< d => g + 0 + (q + d) > t
        OBVIOUS
      <4>3. age[x] + 0 + Calls(c) > Timeout
        BY ONLY <1>2, <3>2, <3>4, <4>1, <4>2
      <4> QED
        BY <1>2, <2>1, <4>3
    <3>6. ASSUME NEW j \in 0 .. c PROVE ~CallOf(j, x)
      <4>1. CASE j = 0
        BY <4>1 DEF CallOf, At, CallOps, Free
      <4>2. CASE j = 1
        BY <1>1, <3>3, <4>2 DEF CallOf
      <4>3. CASE j # 0 /\ j # 1
        <5>1. j - 1 \in 0 .. c - 1 /\ j - 1 # 0 /\ j - 1 \in 1 .. Len(queue') /\ (j - 1) + 1 = j
          BY <1>1, <2>1, <4>3
        <5>2. At(j - 1)' = At(j)
          BY <1>1, <4>3, <5>1 DEF At
        <5> QED
          BY <3>2, <5>1, <5>2 DEF CallOf
      <4> QED
        BY <4>1, <4>2, <4>3
    <3> QED
      BY <2>1, <3>2, <3>4, <3>5, <3>6 DEF Doomed
  <2>4. /\ Cardinality(Doomed(c)') \in Nat /\ Cardinality(Doomed(c + 1)) \in Nat
        /\ Cardinality(Doomed(c)') =< Cardinality(Doomed(c + 1))
    BY <2>3, FewerDoomed
  <2>5. /\ i - 2 + Cardinality(Doomed(c)') \in Nat
        /\ (i - 2 + Cardinality(Doomed(c)')) + 1 \in Nat
        /\ (i + 1) - 2 + Cardinality(Doomed(c + 1)) \in Nat
        /\ (i - 2 + Cardinality(Doomed(c)')) + 1 =< (i + 1) - 2 + Cardinality(Doomed(c + 1))
    BY <2>1, <2>4
  <2>6. /\ Calls((i - 2 + Cardinality(Doomed(c)')) + 1)
             = Calls(i - 2 + Cardinality(Doomed(c)')) + DbTicks
        /\ Calls(i - 2 + Cardinality(Doomed(c)')) \in Nat
        /\ Calls((i + 1) - 2 + Cardinality(Doomed(c + 1))) \in Nat
        /\ Calls((i - 2 + Cardinality(Doomed(c)')) + 1)
             =< Calls((i + 1) - 2 + Cardinality(Doomed(c + 1)))
    BY <2>5, CallsAdd, CallsGrow
  <2>8. HoldLeft' \in Nat /\ HoldLeft' =< DbTicks
    BY <1>2
  <2>9. Calls(i - 2 + Cardinality(Doomed(c)')) + DbTicks
          =< Calls((i + 1) - 2 + Cardinality(Doomed(c + 1)))
    BY <2>6
  <2>10. age[a] + 0 + (Calls(i - 2 + Cardinality(Doomed(c)')) + DbTicks) =< Timeout
    <3>1. \A g, r, s, t \in Nat : g + 0 + r =< t /\ s =< r => g + 0 + s =< t
      OBVIOUS
    <3>2. Calls(i - 2 + Cardinality(Doomed(c)')) + DbTicks \in Nat
      BY <1>2, <2>6
    <3> QED
      BY ONLY <1>2, <2>2, <2>6, <2>9, <3>1, <3>2
  <2>11. age[a] + HoldLeft' + Calls(i - 2 + Cardinality(Doomed(c)')) =< Timeout
    BY ONLY <1>2, <1>4, <2>6, <2>8, <2>10
  <2> QED
    BY <1>2, <2>11
<1>6. ASSUME \A c \in 1 .. i - 1 : queue'[c] # Check
      PROVE  age'[a] + HoldLeft' + Calls(i - 1) =< Timeout
  <2>1. \A c \in 1 .. (i + 1) - 1 : c = 1 \/ (c - 1 \in 1 .. i - 1 /\ (c - 1) + 1 = c /\ c - 1 \in 1 .. Len(queue'))
    BY <1>1
  <2>2. queue[1] # Check
    BY DEF Moved, Check
  <2>3. ASSUME NEW c \in 1 .. (i + 1) - 1 PROVE queue[c] # Check
    <3>1. CASE c = 1
      BY <2>2, <3>1
    <3>2. ASSUME c # 1 PROVE queue[c] # Check
      <4>1. c - 1 \in 1 .. i - 1 /\ (c - 1) + 1 = c /\ c - 1 \in 1 .. Len(queue')
        BY <2>1, <3>2
      <4>2. queue'[c - 1] = queue[(c - 1) + 1]
        BY <1>1, <4>1
      <4>3. queue'[c - 1] # Check
        BY <1>6, <4>1
      <4> QED
        BY <4>1, <4>2, <4>3
    <3> QED
      BY <3>1, <3>2
  <2>4. age[a] + 0 + Calls((i + 1) - 1) =< Timeout
    BY <1>2, <1>3, <2>3 DEF InTime
  <2>5. i - 1 \in Nat /\ (i + 1) - 1 = (i - 1) + 1
    BY <1>1
  <2>6. Calls((i - 1) + 1) = Calls(i - 1) + DbTicks /\ Calls(i - 1) \in Nat
    BY <2>5, CallsAdd
  <2>7. age[a] + 0 + (Calls(i - 1) + DbTicks) =< Timeout
    BY <2>4, <2>5, <2>6
  <2>8. HoldLeft' \in Nat /\ HoldLeft' =< DbTicks
    BY <1>2
  <2> QED
    BY ONLY <1>2, <1>4, <2>6, <2>7, <2>8
<1> QED
  BY <1>3, <1>5, <1>6 DEF InTime

(* The check gets m.mu: those it finds stale were counted when it came.    *)
LEMMA MarkOfflineKeepsInTime ==
    ASSUME KnownInv, KnownInv', NEW a \in Agents, NEW i \in 1 .. Len(queue'), InTime(a, i + 1),
           MarkOffline
    PROVE  InTime(a, i)'
<1>1. Moved(Check) /\ holder = Free /\ left = {} /\ HoldLeft = 0 /\ age' = age
  BY GrantMoves DEF KnownInv, LockInv, MarkOffline, Granted, HoldLeft
<1>2. /\ At(1) = Check /\ 1 \in Places /\ Len(queue') = Len(queue) - 1 /\ Len(queue) \in Nat
      /\ \A j \in 1 .. Len(queue') : j + 1 \in 1 .. Len(queue) /\ j + 1 # 1 /\ queue'[j] = queue[j + 1]
  BY <1>1, MovedCalls DEF KnownInv
<1>3. \A j \in 1 .. Len(queue') : queue'[j] # Check
  <2>1. SUFFICES ASSUME NEW j \in 1 .. Len(queue'), queue'[j] = Check PROVE FALSE
    OBVIOUS
  <2>2. j + 1 \in 1 .. Len(queue) /\ j + 1 # 1 /\ queue[j + 1] = Check
    BY <1>2, <2>1
  <2>3. j + 1 \in Places
    BY <1>2, <2>2 DEF Places
  <2>4. At(j + 1) = Check
    BY <2>2, LineTypes DEF KnownInv
  <2>5. CheckAt(1) /\ CheckAt(j + 1)
    BY <1>2, <2>4 DEF CheckAt, Check
  <2> QED
    BY <1>2, <2>2, <2>3, <2>5 DEF KnownInv, LineInv
<1>4. /\ age[a] \in Nat /\ Timeout \in Nat /\ DbTicks \in Nat /\ Cardinality(Doomed(1)) \in Nat
      /\ IsFiniteSet(Doomed(1)) /\ i - 1 \in Nat /\ (i + 1) - 2 = i - 1 /\ 1 \in 1 .. (i + 1) - 1
  BY <1>2, HealthyTypes, TimesAssumption
<1>5. age[a] + 0 + Calls(i - 1 + Cardinality(Doomed(1))) =< Timeout
  <2>1. queue[1] = Check
    BY <1>1 DEF Moved
  <2>2. age[a] + 0 + Calls((i + 1) - 2 + Cardinality(Doomed(1))) =< Timeout
    BY <1>1, <1>4, <2>1 DEF InTime
  <2> QED
    BY <1>4, <2>2
<1>6. Stale \subseteq Doomed(1)
  <2>1. SUFFICES ASSUME NEW x \in Stale PROVE x \in Doomed(1)
    OBVIOUS
  <2>2. x \in Agents /\ entry[x] = "online" /\ age[x] > Timeout /\ age[x] \in Nat
    BY <2>1, HealthyTypes DEF Stale
  <2>3. Calls(1 - 1) = 0
    BY CallsAdd
  <2>4. age[x] + HoldLeft + Calls(1 - 1) > Timeout
    BY <1>1, <2>2, <2>3, TimesAssumption
  <2>5. \A j \in 0 .. 1 - 1 : j = 0
    OBVIOUS
  <2>6. ~CallOf(0, x)
    BY <1>1 DEF CallOf, At, CallOps, Free
  <2> QED
    BY <2>2, <2>4, <2>5, <2>6 DEF Doomed
<1>7. /\ IsFiniteSet(Stale) /\ Cardinality(Stale) \in Nat
      /\ i - 1 + Cardinality(Stale) \in Nat /\ i - 1 + Cardinality(Doomed(1)) \in Nat
      /\ i - 1 + Cardinality(Stale) =< i - 1 + Cardinality(Doomed(1))
      /\ i - 1 =< i - 1 + Cardinality(Stale)
  <2>1. IsFiniteSet(Stale) /\ Cardinality(Stale) =< Cardinality(Doomed(1))
    BY <1>4, <1>6, FS_Subset
  <2>2. Cardinality(Stale) \in Nat
    BY <2>1, FS_CardinalityType
  <2>3. \A q, m, n \in Nat : m =< n => q + m \in Nat /\ q + n \in Nat /\ q + m =< q + n /\ q =< q + m
    OBVIOUS
  <2> QED
    BY <1>4, <2>1, <2>2, <2>3
<1>8. /\ Calls(i - 1 + Cardinality(Stale)) \in Nat /\ Calls(i - 1) \in Nat
      /\ age[a] + 0 + Calls(i - 1 + Cardinality(Stale)) =< Timeout
      /\ Calls(i - 1) =< Calls(i - 1 + Cardinality(Stale))
  <2>1. /\ Calls(i - 1 + Cardinality(Stale)) =< Calls(i - 1 + Cardinality(Doomed(1)))
        /\ Calls(i - 1) =< Calls(i - 1 + Cardinality(Stale))
        /\ Calls(i - 1 + Cardinality(Stale)) \in Nat
        /\ Calls(i - 1 + Cardinality(Doomed(1))) \in Nat
        /\ Calls(i - 1) \in Nat
    BY <1>4, <1>7, CallsGrow, CallsAdd
  <2>2. \A g, r, s, t \in Nat : g + 0 + r =< t /\ s =< r => g + 0 + s =< t
    OBVIOUS
  <2>3. age[a] + 0 + Calls(i - 1 + Cardinality(Stale)) =< Timeout
    BY ONLY <1>4, <1>5, <2>1, <2>2
  <2> QED
    BY <2>1, <2>3
<1>9. CASE Stale = {}
  <2>1. holder' = Free /\ HoldLeft' = 0
    BY <1>1, <1>9 DEF MarkOffline, HoldLeft, Free
  <2>2. age[a] + 0 + Calls(i - 1) =< Timeout
    <3>1. \A g, r, s, t \in Nat : g + 0 + r =< t /\ s =< r => g + 0 + s =< t
      OBVIOUS
    <3> QED
      BY ONLY <1>4, <1>8, <3>1
  <2>3. \A c \in 1 .. i - 1 : c \in 1 .. Len(queue')
    BY <1>2
  <2>4. holder'[1] # "mark"
    BY <2>1 DEF Free
  <2> QED
    BY <1>1, <1>3, <2>1, <2>2, <2>3, <2>4 DEF InTime
<1>10. CASE Stale # {}
  <2>1. PICK b \in Stale : Mark(b, Stale \ {b})
    BY <1>10 DEF MarkOffline
  <2>2. holder' = <<"mark", b>> /\ dbAge' = 0 /\ left' = Stale \ {b}
    BY <2>1 DEF Mark, CallDb
  <2>3. HoldLeft' = DbTicks /\ holder'[1] = "mark"
    BY <2>2, TimesAssumption DEF HoldLeft, Free
  <2>4. Cardinality(left') = Cardinality(Stale) - 1 /\ Cardinality(left') \in Nat
    <3>1. Cardinality(left') = Cardinality(Stale) - 1
      BY <1>7, <2>2, FS_RemoveElement
    <3> QED
      BY <3>1, NextTypes DEF KnownInv
  <2>5. i - 1 + Cardinality(left') \in Nat /\ (i - 1 + Cardinality(left')) + 1 = i - 1 + Cardinality(Stale)
    <3>1. \A q, m, n \in Nat : n = m - 1 => q + n \in Nat /\ (q + n) + 1 = q + m
      OBVIOUS
    <3> QED
      BY ONLY <1>4, <1>7, <2>4, <3>1
  <2>6. Calls(i - 1 + Cardinality(Stale)) = Calls(i - 1 + Cardinality(left')) + DbTicks
        /\ Calls(i - 1 + Cardinality(left')) \in Nat
    BY <2>5, CallsAdd
  <2>7. age[a] + 0 + (Calls(i - 1 + Cardinality(left')) + DbTicks) =< Timeout
    BY <1>8, <2>6
  <2>8. age[a] + DbTicks + Calls(i - 1 + Cardinality(left')) =< Timeout
    <3>1. \A g, q, d, t \in Nat : g + 0 + (q + d) =< t => g + d + q =< t
      OBVIOUS
    <3> QED
      BY ONLY <1>4, <2>6, <2>7, <3>1
  <2>9. \A c \in 1 .. i - 1 : c \in 1 .. Len(queue')
    BY <1>2
  <2> QED
    BY <1>1, <1>3, <2>3, <2>8, <2>9 DEF InTime
<1> QED
  BY <1>9, <1>10

(* The call of the holder is over: m.mu is free, or goes on to the next    *)
(* agent to mark.                                                          *)
LEMMA ReturnKeepsInTime ==
    ASSUME KnownInv, KnownInv', HeldInv, Room, NEW a \in Agents, NEW i \in 1 .. Len(queue),
           InTime(a, i), DbReturns
    PROVE  InTime(a, i)'
<1>1. UNCHANGED <<age, queue>> /\ holder # Free
  BY DEF DbReturns
<1>2. /\ age[a] \in Nat /\ Timeout \in Nat /\ DbTicks \in Nat /\ HoldLeft \in Nat
      /\ Cardinality(left) \in Nat /\ i - 1 \in Nat /\ Len(queue) \in Nat
      /\ \A c \in 1 .. i - 1 : c \in 1 .. Len(queue) /\ c - 1 \in Nat /\ c \in Nat /\ i - 2 \in Nat
      /\ \A c \in 1 .. i - 1 : c \in Places /\ c - 1 \in Places /\ 0 \in 0 .. c - 1
  <2>1. Len(queue) \in Nat
    BY LineTypes DEF KnownInv
  <2> QED
    BY <2>1, HealthyTypes, DeadTypes, TimesAssumption DEF KnownInv, Places
<1>3. CASE left = {}
  <2>1. left' = {} /\ holder' = Free /\ HoldLeft' = 0 /\ entry' = entry
    BY <1>3 DEF DbReturns, Unlock, HoldLeft, Free
  <2>2. holder'[1] # "mark"
    BY <2>1 DEF Free
  <2>3. ASSUME NEW c \in 1 .. i - 1, queue[c] = Check
        PROVE  age[a] + 0 + Calls(i - 2 + Cardinality(Doomed(c)')) =< Timeout
    <3>1. age[a] + HoldLeft + Calls(i - 2 + Cardinality(Doomed(c))) =< Timeout
      BY <2>3 DEF InTime
    <3>2. Doomed(c)' \subseteq Doomed(c)
      <4>1. SUFFICES ASSUME NEW x \in Doomed(c)' PROVE x \in Doomed(c)
        OBVIOUS
      <4>2. x \in Agents /\ entry[x] = "online" /\ age[x] + 0 + Calls(c - 1) > Timeout
            /\ (\A j \in 0 .. c - 1 : ~CallOf(j, x)') /\ age[x] \in Nat
        BY <1>1, <2>1, <4>1, HealthyTypes DEF Doomed
      <4>3. Calls(c - 1) \in Nat
        BY <1>2, CallsAdd
      <4>4. age[x] + HoldLeft + Calls(c - 1) > Timeout
        <5>1. \A g, h, q, t \in Nat : g + 0 + q > t => g + h + q > t
          OBVIOUS
        <5> QED
          BY ONLY <1>2, <4>2, <4>3, <5>1
      <4>5. \A j \in 0 .. c - 1 : j # 0 => ~CallOf(j, x)
        BY <1>1, <4>2 DEF CallOf, At
      <4>6. ~CallOf(0, x)
        <5>1. SUFFICES ASSUME CallOf(0, x) PROVE FALSE
          OBVIOUS
        <5>2. age[x] =< dbAge /\ dbAge \in 0 .. DbTicks
          BY <4>2, <5>1, HealthyTypes DEF HeldInv
        <5>3. DbTicks + Calls(c - 1) =< MaxWait
          <6>1. c \in Places /\ c - 1 \in Places /\ At(c) = Check
            BY <1>2, <2>3, LineTypes DEF KnownInv
          <6>2. \A j \in 0 .. c - 1 : j \in Places /\ j # c
            BY <1>2 DEF Places
          <6>3. CheckAt(c)
            BY <6>1 DEF CheckAt, Check
          <6>4. \A j \in 0 .. c - 1 : ~CheckAt(j)
            BY <6>1, <6>2, <6>3 DEF KnownInv, LineInv
          <6>5. \A j \in 0 .. c - 1 : \/ j = 0 /\ holder = Free
                                      \/ At(j)[1] = "remove"
                                      \/ \E y \in Agents : CallOf(j, y)
            BY <6>2, <6>4, PlaceKinds DEF KnownInv
          <6>6. DbTicks + Calls(c - 1) =< Calls(Cardinality(Agents) + MaxRemoves)
            BY <1>1, <6>1, <6>5, WaitFits DEF KnownInv
          <6> QED
            BY <6>6, BoundTypes DEF N
        <5>4. MaxWait \in Nat /\ Interval \in Nat /\ Interval + MaxWait =< Timeout
          BY BoundTypes, TimesAssumption DEF Room
        <5>5. \A g, d, q, w \in Nat : g =< d /\ d + q =< w => g + 0 + q =< w
          OBVIOUS
        <5>6. age[x] + 0 + Calls(c - 1) =< MaxWait
          <6>1. age[x] =< DbTicks
            BY <1>2, <4>2, <5>2
          <6> QED
            BY ONLY <1>2, <4>2, <4>3, <5>3, <5>4, <5>5, <6>1
        <5>7. MaxWait =< Timeout
          BY <1>2, <5>4
        <5>8. \A g, q, w, t \in Nat : g + 0 + q =< w /\ w =< t => ~(g + 0 + q > t)
          OBVIOUS
        <5> QED
          BY ONLY <1>2, <4>2, <4>3, <5>4, <5>6, <5>7, <5>8
      <4> QED
        BY <4>2, <4>4, <4>5, <4>6 DEF Doomed
    <3>3. /\ Cardinality(Doomed(c)') \in Nat /\ Cardinality(Doomed(c)) \in Nat
          /\ Cardinality(Doomed(c)') =< Cardinality(Doomed(c))
      BY <3>2, FewerDoomed
    <3>4. \A q, m, n \in Nat : m =< n => q + m \in Nat /\ q + n \in Nat /\ q + m =< q + n
      OBVIOUS
    <3>5. /\ i - 2 + Cardinality(Doomed(c)') \in Nat /\ i - 2 + Cardinality(Doomed(c)) \in Nat
          /\ i - 2 + Cardinality(Doomed(c)') =< i - 2 + Cardinality(Doomed(c))
      BY <1>2, <3>3, <3>4
    <3>6. /\ Calls(i - 2 + Cardinality(Doomed(c)')) \in Nat /\ Calls(i - 2 + Cardinality(Doomed(c))) \in Nat
          /\ Calls(i - 2 + Cardinality(Doomed(c)')) =< Calls(i - 2 + Cardinality(Doomed(c)))
      BY <3>5, CallsAdd, CallsGrow
    <3>7. \A g, h, q, r, t \in Nat : g + h + r =< t /\ q =< r => g + 0 + q =< t
      OBVIOUS
    <3> QED
      BY ONLY <1>2, <3>1, <3>6, <3>7
  <2>4. ASSUME \A c \in 1 .. i - 1 : queue[c] # Check
        PROVE  age[a] + 0 + Calls(i - 1) =< Timeout
    <3>1. Calls(i - 1) \in Nat /\ Calls(i - 1 + Cardinality(left)) \in Nat
          /\ Calls(i - 1) =< Calls(i - 1 + Cardinality(left))
      <4>1. i - 1 + Cardinality(left) \in Nat /\ i - 1 =< i - 1 + Cardinality(left)
        BY <1>2
      <4> QED
        BY <1>2, <4>1, CallsAdd, CallsGrow
    <3>2. \/ age[a] + HoldLeft + Calls(i - 1 + Cardinality(left)) =< Timeout
          \/ age[a] + HoldLeft + Calls(i - 1) =< Timeout
      BY <2>4 DEF InTime
    <3>3. \A g, h, q, r, t \in Nat : g + h + r =< t /\ q =< r => g + 0 + q =< t
      OBVIOUS
    <3>4. \A q \in Nat : q =< q
      OBVIOUS
    <3> QED
      BY ONLY <1>2, <3>1, <3>2, <3>3, <3>4
  <2> QED
    BY <1>1, <2>1, <2>2, <2>3, <2>4 DEF InTime
<1>4. CASE left # {}
  <2>1. PICK b \in left : Mark(b, left \ {b})
    BY <1>4 DEF DbReturns, Unlock
  <2>2. holder' = <<"mark", b>> /\ dbAge' = 0 /\ left' = left \ {b}
    BY <2>1 DEF Mark, CallDb
  <2>3. HoldLeft' = DbTicks /\ holder'[1] = "mark" /\ holder[1] = "mark"
    BY <1>4, <2>2, TimesAssumption DEF HoldLeft, Free, KnownInv, LineInv
  <2>4. Cardinality(left') = Cardinality(left) - 1 /\ Cardinality(left') \in Nat
    <3>1. IsFiniteSet(left)
      BY AgentsAssumption, FS_Subset DEF KnownInv, TypeOK
    <3>2. Cardinality(left') = Cardinality(left) - 1
      BY <2>2, <3>1, FS_RemoveElement
    <3> QED
      BY <3>2, NextTypes DEF KnownInv
  <2>5. i - 1 + Cardinality(left') \in Nat /\ (i - 1 + Cardinality(left')) + 1 = i - 1 + Cardinality(left)
    <3>1. \A q, m, n \in Nat : n = m - 1 => q + n \in Nat /\ (q + n) + 1 = q + m
      OBVIOUS
    <3> QED
      BY ONLY <1>2, <2>4, <3>1
  <2>6. Calls(i - 1 + Cardinality(left)) = Calls(i - 1 + Cardinality(left')) + DbTicks
        /\ Calls(i - 1 + Cardinality(left')) \in Nat
    BY <2>5, CallsAdd
  <2>7. age[a] + HoldLeft + (Calls(i - 1 + Cardinality(left')) + DbTicks) =< Timeout
    BY <2>3, <2>6 DEF InTime
  <2>8. age[a] + DbTicks + Calls(i - 1 + Cardinality(left')) =< Timeout
    <3>1. \A g, h, q, d, t \in Nat : g + h + (q + d) =< t => g + d + q =< t
      OBVIOUS
    <3> QED
      BY ONLY <1>2, <2>6, <2>7, <3>1
  <2>9. \A c \in 1 .. i - 1 : queue[c] # Check
    <3>1. SUFFICES ASSUME NEW c \in 1 .. i - 1, queue[c] = Check PROVE FALSE
      OBVIOUS
    <3>2. c \in Places /\ 0 \in Places /\ c # 0
      BY <1>2 DEF Places
    <3>3. At(c) = Check
      BY <1>2, <3>1, LineTypes DEF KnownInv
    <3>4. CheckAt(0) /\ CheckAt(c)
      BY <2>3, <3>3 DEF CheckAt, At, Check
    <3> QED
      BY <3>2, <3>4 DEF KnownInv, LineInv
  <2> QED
    BY <1>1, <2>3, <2>8, <2>9 DEF InTime
<1> QED
  BY <1>3, <1>4

(* Time goes on: what age gains, the call of the holder has less left.     *)
LEMMA TickKeepsInTime ==
    ASSUME KnownInv, KnownInv', NEW a \in Agents, NEW i \in 1 .. Len(queue), InTime(a, i), Tick
    PROVE  InTime(a, i)'
<1>1. /\ UNCHANGED <<queue, holder, left, entry>>
      /\ \A x \in Agents : age'[x] \in Nat /\ age'[x] =< age[x] + 1
  BY TickTimes
<1>2. HoldLeft \in Nat /\ HoldLeft >= 1 /\ HoldLeft' = HoldLeft - 1 /\ HoldLeft' \in Nat
  <2>1. queue # <<>>
    <3>1. Len(queue) \in Nat
      BY LineTypes DEF KnownInv
    <3>2. Len(queue) # 0
      BY <3>1
    <3> QED
      BY <3>2, EmptySeq
  <2>2. holder # Free
    BY <2>1, TickTimes
  <2> QED
    BY <2>2, TickTimes
<1>3. /\ \A x \in Agents : age[x] \in Nat
      /\ Timeout \in Nat /\ Cardinality(left) \in Nat /\ i - 1 \in Nat /\ Len(queue) \in Nat
      /\ \A c \in 1 .. i - 1 : c - 1 \in Nat /\ i - 2 \in Nat
      /\ \A c : Cardinality(Doomed(c)) \in Nat
  <2>1. Len(queue) \in Nat
    BY LineTypes DEF KnownInv
  <2> QED
    BY <2>1, HealthyTypes, DeadTypes, TimesAssumption DEF KnownInv
<1>4. ASSUME NEW x \in Agents, NEW q \in Nat
      PROVE  age[x] + HoldLeft + q =< Timeout => age'[x] + HoldLeft' + q =< Timeout
  <2>1. \A g, b, h, t \in Nat : b =< g + 1 /\ h >= 1 => (g + h + q =< t => b + (h - 1) + q =< t)
    OBVIOUS
  <2> QED
    BY <1>1, <1>2, <1>3, <2>1
<1>5. ASSUME NEW c \in 1 .. i - 1 PROVE Doomed(c)' \subseteq Doomed(c)
  <2>1. SUFFICES ASSUME NEW x \in Doomed(c)' PROVE x \in Doomed(c)
    OBVIOUS
  <2>2. x \in Agents /\ entry[x] = "online" /\ age'[x] + HoldLeft' + Calls(c - 1) > Timeout
        /\ \A j \in 0 .. c - 1 : ~CallOf(j, x)
    BY <1>1, <2>1 DEF Doomed, CallOf, At
  <2>3. Calls(c - 1) \in Nat
    BY <1>3, <1>5, CallsAdd
  <2>4. ~(age[x] + HoldLeft + Calls(c - 1) =< Timeout)
    <3>1. age[x] + HoldLeft + Calls(c - 1) =< Timeout => age'[x] + HoldLeft' + Calls(c - 1) =< Timeout
      BY <1>4, <2>2, <2>3
    <3>2. age'[x] \in Nat
      BY <1>1, <2>2
    <3> QED
      BY <1>2, <1>3, <2>2, <2>3, <3>1, <3>2
  <2>5. age[x] \in Nat
    BY <1>3, <2>2
  <2>6. age[x] + HoldLeft + Calls(c - 1) > Timeout
    BY <1>2, <1>3, <2>3, <2>4, <2>5
  <2> QED
    BY <2>2, <2>6 DEF Doomed
<1>6. ASSUME NEW c \in 1 .. i - 1, queue[c] = Check
      PROVE  age'[a] + HoldLeft' + Calls(i - 2 + Cardinality(Doomed(c)')) =< Timeout
  <2>1. age[a] + HoldLeft + Calls(i - 2 + Cardinality(Doomed(c))) =< Timeout
    BY <1>6 DEF InTime
  <2>2. /\ Cardinality(Doomed(c)') \in Nat /\ Cardinality(Doomed(c)) \in Nat
        /\ Cardinality(Doomed(c)') =< Cardinality(Doomed(c))
    BY <1>5, FewerDoomed
  <2>3. \A q, m, n \in Nat : m =< n => q + m \in Nat /\ q + n \in Nat /\ q + m =< q + n
    OBVIOUS
  <2>4. /\ i - 2 + Cardinality(Doomed(c)') \in Nat /\ i - 2 + Cardinality(Doomed(c)) \in Nat
        /\ i - 2 + Cardinality(Doomed(c)') =< i - 2 + Cardinality(Doomed(c))
    BY <1>3, <2>2, <2>3
  <2>5. /\ Calls(i - 2 + Cardinality(Doomed(c)')) \in Nat /\ Calls(i - 2 + Cardinality(Doomed(c))) \in Nat
        /\ Calls(i - 2 + Cardinality(Doomed(c)')) =< Calls(i - 2 + Cardinality(Doomed(c)))
    BY <2>4, CallsAdd, CallsGrow
  <2>6. \A g, h, q, r, t \in Nat : g + h + r =< t /\ q =< r => g + h + q =< t
    OBVIOUS
  <2>7. age[a] \in Nat
    BY <1>3
  <2>8. age[a] + HoldLeft + Calls(i - 2 + Cardinality(Doomed(c)')) =< Timeout
    BY ONLY <1>2, <1>3, <2>1, <2>5, <2>6, <2>7
  <2> QED
    BY <1>4, <2>5, <2>8
<1>7. Calls(i - 1) \in Nat /\ Calls(i - 1 + Cardinality(left)) \in Nat
  <2>1. i - 1 + Cardinality(left) \in Nat
    BY <1>3
  <2> QED
    BY <1>3, <2>1, CallsAdd
<1>8. holder[1] = "mark" => age'[a] + HoldLeft' + Calls(i - 1 + Cardinality(left)) =< Timeout
  BY <1>4, <1>7 DEF InTime
<1>9. (holder[1] # "mark" /\ \A c \in 1 .. i - 1 : queue[c] # Check)
        => age'[a] + HoldLeft' + Calls(i - 1) =< Timeout
  BY <1>4, <1>7 DEF InTime
<1> QED
  BY <1>1, <1>6, <1>8, <1>9 DEF InTime

(* A heartbeat that is sent is in time: it waits for others only, and what *)
(* a check marks before it has no call in the line.                        *)
LEMMA SenderIsInTime ==
    ASSUME KnownInv, HealthyInv, Room, NEW a \in Agents, SendHeartbeat(a), entry[a] = "online",
           NEW e \in Nat, e = Len(queue) + 1
    PROVE  InTime(a, e)'
<1>1. /\ UNCHANGED <<age, entry, holder, left, dbAge>> /\ Joins(<<"heartbeat", a>>)
      /\ live[a] = "up" /\ beatDue[a] /\ ~Busy(<<"heartbeat", a>>)
  BY JoinMoves DEF SendHeartbeat, SendsHeartbeat, KnownInv
<1>2. HoldLeft' = HoldLeft /\ \A j \in 1 .. Len(queue) : queue'[j] = queue[j]
  BY <1>1 DEF HoldLeft, Joins
<1>3. /\ Len(queue) \in Nat /\ e - 1 = Len(queue) /\ 0 \in Places /\ Len(queue) \in Places
      /\ \A j \in 1 .. Len(queue) : j \in Places /\ j # 0 /\ j - 1 \in Places
  <2>1. Len(queue) \in Nat
    BY LineTypes DEF KnownInv
  <2> QED
    BY <2>1 DEF Places
<1>n. IsFiniteSet(1 .. Len(queue)) /\ Cardinality(1 .. Len(queue)) = Len(queue)
  <2>1. \A n \in Nat : IsFiniteSet(1 .. n) /\ Cardinality(1 .. n) = n
    <3>1. SUFFICES ASSUME NEW n \in Nat PROVE IsFiniteSet(1 .. n) /\ Cardinality(1 .. n) = n
      OBVIOUS
    <3>2. n \in Int /\ 1 \in Int
      OBVIOUS
    <3>3. IsFiniteSet(1 .. n) /\ Cardinality(1 .. n) = IF 1 > n THEN 0 ELSE n - 1 + 1
      BY ONLY <3>2, FS_Interval
    <3> QED
      BY <3>3
  <2> QED
    BY <1>3, <2>1
<1>4. \A i \in Places : ~CallOf(i, a)
  BY <1>1, SenderHasNoCall DEF KnownInv
<1>5. age[a] + OthersWait =< Timeout /\ age[a] \in Nat /\ OthersWait \in Nat /\ Timeout \in Nat
  <2>1. age[a] \in Nat /\ OthersWait \in Nat /\ Timeout \in Nat
    BY HealthyTypes, RoomTypes, TimesAssumption
  <2>2. age[a] + BeatWait(a) + OthersWait =< Timeout /\ BeatWait(a) = 0
    BY <1>1, <1>4 DEF HealthyInv, UpInv, Waits, BeatWait
  <2> QED
    BY <2>1, <2>2
<1> DEFINE Y == Agents \ {a}
<1>6. Y \in SUBSET Agents /\ Calls(Cardinality(Y) + MaxRemoves) = OthersWait
  BY RoomTypes DEF OthersWait
<1> HIDE DEF Y
<1>7. ASSUME NEW q \in Nat, HoldLeft + q =< OthersWait PROVE age[a] + HoldLeft + q =< Timeout
  <2>1. \A g, h, w, t \in Nat : g + w =< t /\ h + q =< w => g + h + q =< t
    OBVIOUS
  <2>2. HoldLeft \in Nat
    BY HoldLeftType, TimesAssumption DEF KnownInv
  <2> QED
    BY <1>5, <1>7, <2>1, <2>2
<1>8. ASSUME NEW i \in Places, ~CheckAt(i)
      PROVE  \/ i = 0 /\ holder = Free
             \/ At(i)[1] = "remove"
             \/ \E x \in Y : CallOf(i, x)
  BY <1>4, <1>8, PlaceKinds DEF KnownInv, Y
<1>9. ASSUME holder[1] = "mark"
      PROVE  age[a] + HoldLeft + Calls(e - 1 + Cardinality(left)) =< Timeout
  <2>1. PICK m \in Agents : holder = <<"mark", m>>
    BY <1>9 DEF KnownInv, TypeOK, Ops, Free
  <2>2. entry[m] = "offline" /\ m \notin left /\ left \subseteq Agents
    BY <2>1 DEF KnownInv, TypeOK, LockInv, Says, Free
  <2>3. \A x \in left \cup {m} : /\ x \in Agents /\ live[x] = "dead"
                                 /\ \A i \in Places : ~CallOf(i, x)
    BY <2>2 DEF HealthyInv, GoneInv
  <2>4. left \cup {m} \subseteq Y
    BY <1>1, <2>3 DEF Y
  <2>5. \A i \in 1 .. Len(queue) : At(i)[1] = "remove" \/ \E x \in Y \ (left \cup {m}) : CallOf(i, x)
    <3>1. CheckAt(0)
      BY <1>9 DEF CheckAt, At
    <3>2. \A i \in 1 .. Len(queue) : ~CheckAt(i)
      BY <1>3, <3>1 DEF KnownInv, LineInv
    <3> QED
      BY <1>3, <1>8, <2>3, <3>2
  <2>6. 1 .. Len(queue) \in SUBSET Places
    BY <1>3
  <2>7. Cardinality(1 .. Len(queue)) + Cardinality(left \cup {m}) =< Cardinality(Y) + MaxRemoves
        /\ Cardinality(Y) \in Nat
    BY <1>6, <2>4, <2>5, <2>6, CountPlaces DEF KnownInv
  <2>8. Cardinality(left \cup {m}) = Cardinality(left) + 1 /\ Cardinality(left) \in Nat
    <3>1. IsFiniteSet(left)
      BY <2>2, AgentsAssumption, FS_Subset
    <3> QED
      BY <2>2, <3>1, FS_AddElement, FS_CardinalityType
  <2>9. Cardinality(1 .. Len(queue)) = Len(queue)
    BY <1>n
  <2>10. /\ e - 1 + Cardinality(left) \in Nat /\ (e - 1 + Cardinality(left)) + 1 \in Nat
         /\ (e - 1 + Cardinality(left)) + 1 =< Cardinality(Y) + MaxRemoves
         /\ Cardinality(Y) + MaxRemoves \in Nat
    <3>1. \A l, m2, y \in Nat : l + (m2 + 1) =< y =>
             l + m2 \in Nat /\ (l + m2) + 1 \in Nat /\ (l + m2) + 1 =< y
      OBVIOUS
    <3>2. Cardinality(Y) + MaxRemoves \in Nat
      BY <2>7, TimesAssumption
    <3>3. Len(queue) + (Cardinality(left) + 1) =< Cardinality(Y) + MaxRemoves
      BY <2>7, <2>8, <2>9
    <3>4. /\ Len(queue) + Cardinality(left) \in Nat /\ (Len(queue) + Cardinality(left)) + 1 \in Nat
          /\ (Len(queue) + Cardinality(left)) + 1 =< Cardinality(Y) + MaxRemoves
      BY ONLY <1>3, <2>8, <3>1, <3>2, <3>3
    <3> QED
      BY <1>3, <3>2, <3>4
  <2>11. /\ Calls((e - 1 + Cardinality(left)) + 1) = Calls(e - 1 + Cardinality(left)) + DbTicks
         /\ Calls((e - 1 + Cardinality(left)) + 1) =< OthersWait
         /\ Calls(e - 1 + Cardinality(left)) \in Nat
    BY <1>6, <2>10, CallsAdd, CallsGrow
  <2>12. HoldLeft + Calls(e - 1 + Cardinality(left)) =< OthersWait
    <3>1. HoldLeft \in 0 .. DbTicks /\ DbTicks \in Nat
      BY HoldLeftType, TimesAssumption DEF KnownInv
    <3>2. \A d, q, w \in Nat : \A h \in 0 .. d : q + d =< w => h + q =< w
      OBVIOUS
    <3>3. Calls(e - 1 + Cardinality(left)) + DbTicks =< OthersWait
      BY <2>11
    <3> QED
      BY ONLY <1>5, <2>11, <3>1, <3>2, <3>3
  <2> QED
    BY <1>7, <2>11, <2>12
<1>10. ASSUME NEW c \in 1 .. Len(queue), queue[c] = Check
       PROVE  age[a] + HoldLeft + Calls(e - 2 + Cardinality(Doomed(c))) =< Timeout
  <2>1. CheckAt(c) /\ c \in Places /\ \A i \in Places : i # c => ~CheckAt(i)
    <3>1. CheckAt(c)
      BY <1>10, LineTypes DEF KnownInv, CheckAt, Check
    <3> QED
      BY <1>3, <3>1 DEF KnownInv, LineInv
  <2>2. \A i \in 0 .. c - 1 : i \in Places /\ i # c
    BY <1>3 DEF Places
  <2>3. c - 1 \in Places /\ c - 1 \in Nat /\ 0 \in 0 .. c - 1
    BY <1>3
  <2>4. HoldLeft + Calls(c - 1) =< OthersWait
    <3>1. \A i \in 0 .. c - 1 : \/ i = 0 /\ holder = Free
                                \/ At(i)[1] = "remove"
                                \/ \E x \in Y : CallOf(i, x)
      BY <1>8, <2>1, <2>2
    <3> QED
      BY <1>6, <2>3, <3>1, WaitFits DEF KnownInv
  <2>5. a \notin Doomed(c)
    <3>1. Calls(c - 1) \in Nat /\ HoldLeft \in Nat
      BY <2>3, CallsAdd, HoldLeftType, TimesAssumption DEF KnownInv
    <3>2. age[a] + HoldLeft + Calls(c - 1) =< Timeout
      BY <1>7, <2>4, <3>1
    <3>3. ~(age[a] + HoldLeft + Calls(c - 1) > Timeout)
      BY <1>5, <3>1, <3>2
    <3> QED
      BY <3>3 DEF Doomed
  <2>6. Doomed(c) \subseteq Y
    BY <2>5 DEF Doomed, Y
  <2>7. ASSUME NEW x \in Doomed(c), NEW i \in (1 .. Len(queue)) \ {c}, CallOf(i, x) PROVE FALSE
    <3>1. x \in Agents /\ entry[x] = "online" /\ age[x] + HoldLeft + Calls(c - 1) > Timeout
          /\ \A j \in 0 .. c - 1 : ~CallOf(j, x)
      BY DEF Doomed
    <3>2. c \in 1 .. i - 1 /\ i \in 1 .. Len(queue)
      <4>1. i \notin 0 .. c - 1
        BY <2>7, <3>1
      <4> QED
        BY <1>3, <4>1
    <3>3. queue[i] = <<"register", x>> \/ queue[i] = <<"heartbeat", x>>
      <4>1. queue[i] \in Ops \cup {Check} /\ At(i) = queue[i]
        BY <3>2, LineTypes DEF KnownInv
      <4> QED
        BY <2>7, <4>1 DEF CallOf, CallOps, Ops, Check
    <3>4. queue[i] = <<"heartbeat", x>>
      BY <3>1, <3>2, <3>3 DEF HealthyInv, LifeInv
    <3>5. age[x] + HoldLeft + Calls(i - 2 + Cardinality(Doomed(c))) =< Timeout
      BY <1>10, <3>1, <3>2, <3>4 DEF HealthyInv, InLineInv, InTime
    <3>6. c - 1 =< i - 2 + Cardinality(Doomed(c)) /\ i - 2 + Cardinality(Doomed(c)) \in Nat
      <4>1. c - 1 =< i - 2 /\ i - 2 \in Nat
        BY <1>3, <3>2
      <4>2. Cardinality(Doomed(c)) \in Nat
        BY HealthyTypes
      <4>3. \A p, q, n \in Nat : p =< q => p =< q + n /\ q + n \in Nat
        OBVIOUS
      <4> QED
        BY <2>3, <4>1, <4>2, <4>3
    <3>7. /\ Calls(c - 1) =< Calls(i - 2 + Cardinality(Doomed(c)))
          /\ Calls(c - 1) \in Nat /\ Calls(i - 2 + Cardinality(Doomed(c))) \in Nat
      BY <2>3, <3>6, CallsAdd, CallsGrow
    <3>8. age[x] \in Nat /\ HoldLeft \in Nat
      BY <3>1, HealthyTypes, HoldLeftType, TimesAssumption DEF KnownInv
    <3>9. \A g, h, q, r, t \in Nat : q =< r /\ g + h + r =< t => ~(g + h + q > t)
      OBVIOUS
    <3> QED
      BY ONLY <1>5, <3>1, <3>5, <3>7, <3>8, <3>9
  <2>8. \A i \in (1 .. Len(queue)) \ {c} :
           At(i)[1] = "remove" \/ \E x \in Y \ Doomed(c) : CallOf(i, x)
    BY <1>3, <1>8, <2>1, <2>7
  <2>9. holder = Free \/ At(0)[1] = "remove" \/ \E x \in Y \ Doomed(c) : CallOf(0, x)
    <3>1. 0 # c
      BY <1>3
    <3>2. \A x \in Doomed(c) : ~CallOf(0, x)
      BY <2>3 DEF Doomed
    <3> QED
      BY <1>3, <1>8, <2>1, <3>1, <3>2
  <2>10. /\ HoldLeft + Calls(Cardinality((1 .. Len(queue)) \ {c}) + Cardinality(Doomed(c))) =< OthersWait
         /\ Cardinality(Doomed(c)) \in Nat
    <3>1. (1 .. Len(queue)) \ {c} \subseteq 1 .. Len(queue)
      OBVIOUS
    <3> QED
      BY <1>6, <2>6, <2>8, <2>9, <3>1, LineFits DEF KnownInv
  <2>11. Cardinality((1 .. Len(queue)) \ {c}) = e - 2 /\ e - 2 \in Nat
    <3>1. IsFiniteSet(1 .. Len(queue)) /\ Cardinality(1 .. Len(queue)) = Len(queue)
      BY <1>n
    <3>2. Cardinality((1 .. Len(queue)) \ {c}) = Cardinality(1 .. Len(queue)) - 1
      BY <3>1, FS_RemoveElement
    <3> QED
      BY <1>3, <3>1, <3>2
  <2>12. e - 2 + Cardinality(Doomed(c)) \in Nat
    BY <2>10, <2>11
  <2>13. Calls(e - 2 + Cardinality(Doomed(c))) \in Nat
    BY <2>12, CallsAdd
  <2> QED
    BY <1>7, <2>10, <2>11, <2>13
<1>11. ASSUME holder[1] # "mark", \A c \in 1 .. Len(queue) : queue[c] # Check
       PROVE  age[a] + HoldLeft + Calls(e - 1) =< Timeout
  <2>1. \A i \in Places : ~CheckAt(i)
    <3>1. \A i \in 1 .. Len(queue) : queue[i] \in Ops /\ queue[i][1] # "mark" /\ At(i) = queue[i]
      BY <1>11, LineTypes DEF KnownInv, LineInv
    <3>2. \A i \in 1 .. Len(queue) : ~CheckAt(i)
      BY <3>1 DEF CheckAt, Ops
    <3>3. ~CheckAt(0)
      BY <1>11, LineTypes DEF KnownInv, CheckAt, Ops, Free
    <3>4. \A i \in Places : i = 0 \/ i \in 1 .. Len(queue)
      BY <1>3 DEF Places
    <3> QED
      BY <3>2, <3>3, <3>4
  <2>2. \A i \in 0 .. Len(queue) : \/ i = 0 /\ holder = Free
                                   \/ At(i)[1] = "remove"
                                   \/ \E x \in Y : CallOf(i, x)
    BY <1>8, <2>1 DEF Places
  <2>3. HoldLeft + Calls(Len(queue)) =< OthersWait
    BY <1>3, <1>6, <2>2, WaitFits DEF KnownInv
  <2>4. Calls(Len(queue)) \in Nat
    BY <1>3, CallsAdd
  <2> QED
    BY <1>3, <1>7, <2>3, <2>4
<1>12. ASSUME NEW c \in 1 .. Len(queue) PROVE Doomed(c)' = Doomed(c)
  <2>1. \A j \in 0 .. c - 1 : j = 0 \/ j \in 1 .. Len(queue)
    BY <1>3
  <2>2. \A j \in 0 .. c - 1, x \in Agents : CallOf(j, x)' <=> CallOf(j, x)
    BY <1>1, <1>2, <2>1 DEF CallOf, At
  <2> QED
    BY <1>1, <1>2, <2>2 DEF Doomed
<1>13. \A c \in 1 .. e - 1 : queue'[c] = queue[c] /\ c \in 1 .. Len(queue)
  BY <1>2, <1>3
<1>14. \A c \in 1 .. e - 1 : queue'[c] = Check =>
          age[a] + HoldLeft + Calls(e - 2 + Cardinality(Doomed(c)')) =< Timeout
  BY <1>10, <1>12, <1>13
<1>15. (holder[1] # "mark" /\ \A c \in 1 .. e - 1 : queue'[c] # Check) =>
          age[a] + HoldLeft + Calls(e - 1) =< Timeout
  <2>1. (\A c \in 1 .. e - 1 : queue'[c] # Check) => \A c \in 1 .. Len(queue) : queue[c] # Check
    BY <1>2, <1>3
  <2> QED
    BY <1>11, <2>1
<1> QED
  BY <1>1, <1>2, <1>9, <1>14, <1>15 DEF InTime

(* A call of an agent that moves up was in the line before.                *)
LEMMA CallsMoveUp ==
    ASSUME KnownInv, KnownInv', NEW op, Moved(op), holder = Free, NEW a \in Agents,
           op[1] \notin CallOps \/ op[2] # a, \A i \in Places' : ~CallOf(i, a)'
    PROVE  \A i \in Places : ~CallOf(i, a)
<1>1. /\ At(1) = op /\ Len(queue') = Len(queue) - 1 /\ Len(queue) \in Nat
      /\ \A j \in 1 .. Len(queue') : j + 1 \in 1 .. Len(queue) /\ j + 1 # 0 /\ queue'[j] = queue[j + 1]
  BY MovedCalls DEF KnownInv
<1>2. SUFFICES ASSUME NEW i \in Places, CallOf(i, a) PROVE FALSE
  OBVIOUS
<1>3. i # 0
  BY <1>2 DEF CallOf, At, CallOps, Free
<1>4. i # 1
  BY <1>1, <1>2 DEF CallOf
<1>5. i - 1 \in 1 .. Len(queue') /\ (i - 1) + 1 = i /\ i - 1 # 0 /\ i - 1 \in Places'
  BY <1>1, <1>3, <1>4 DEF Places
<1>6. queue'[i - 1] = queue[i]
  BY <1>1, <1>5
<1>7. CallOf(i - 1, a)'
  BY <1>2, <1>3, <1>5, <1>6 DEF CallOf, At
<1> QED
  BY <1>5, <1>7

(* InLineInv is inductive.                                                 *)
LEMMA InLineStep ==
    ASSUME KnownInv, KnownInv', HealthyInv, Room, [Next]_vars
    PROVE  InLineInv'
<1>0. /\ Len(queue) \in Nat /\ entry \in [Agents -> {"absent", "online", "offline"}]
      /\ age \in [Agents -> 0 .. AgeCap]
      /\ \A a \in Agents, i \in 1 .. Len(queue) :
            queue[i] = <<"heartbeat", a>> /\ entry[a] = "online" => InTime(a, i)
  BY LineTypes DEF KnownInv, TypeOK, HealthyInv, InLineInv
<1>1. ASSUME UNCHANGED <<age, entry, holder, left, dbAge>>, queue' = queue PROVE InLineInv'
  BY <1>0, <1>1, LineStaysInTime DEF InLineInv
<1>2. ASSUME UNCHANGED <<age, entry, holder, left, dbAge>>, NEW op \in Ops \cup {Check}, Joins(op),
             \A b \in Agents, e \in Nat : op = <<"heartbeat", b>> /\ e = Len(queue) + 1
                                           /\ entry[b] = "online" => InTime(b, e)'
      PROVE  InLineInv'
  <2>1. ASSUME NEW a \in Agents, NEW i \in 1 .. Len(queue'),
               queue'[i] = <<"heartbeat", a>>, entry'[a] = "online"
        PROVE  InTime(a, i)'
    <3>1. i \in Nat /\ (i \in 1 .. Len(queue) \/ i = Len(queue) + 1)
      BY <1>0, <1>2 DEF Joins
    <3>2. CASE i \in 1 .. Len(queue)
      <4>1. queue[i] = <<"heartbeat", a>> /\ entry[a] = "online"
        BY <1>2, <2>1, <3>2 DEF Joins
      <4> QED
        BY <1>0, <1>2, <3>2, <4>1, LineStaysInTime
    <3>3. CASE i = Len(queue) + 1
      <4>1. op = <<"heartbeat", a>> /\ entry[a] = "online"
        BY <1>2, <2>1, <3>3 DEF Joins
      <4> QED
        BY <1>2, <3>1, <3>3, <4>1
    <3> QED
      BY <3>1, <3>2, <3>3
  <2> QED
    BY <2>1 DEF InLineInv
<1>3. ASSUME NEW b \in Agents, Boot(b) PROVE InLineInv'
  <2>1. /\ UNCHANGED <<age, entry, holder, left, dbAge>> /\ Joins(<<"register", b>>)
        /\ <<"register", b>> \in Ops /\ \A a : <<"register", b>> # <<"heartbeat", a>>
    BY <1>3, JoinMoves DEF Boot, KnownInv, Ops
  <2> QED
    BY <1>2, <2>1
<1>4. ASSUME NEW b \in Agents, SendHeartbeat(b) PROVE InLineInv'
  <2>1. /\ UNCHANGED <<age, entry, holder, left, dbAge>> /\ Joins(<<"heartbeat", b>>)
        /\ <<"heartbeat", b>> \in Ops
    BY <1>4, JoinMoves DEF SendHeartbeat, KnownInv, Ops
  <2>2. ASSUME NEW c \in Agents, NEW e \in Nat, <<"heartbeat", b>> = <<"heartbeat", c>>,
               e = Len(queue) + 1, entry[c] = "online"
        PROVE  InTime(c, e)'
    <3>1. c = b
      BY <2>2
    <3> QED
      BY <1>4, <2>2, <3>1, SenderIsInTime
  <2> QED
    BY <1>2, <2>1, <2>2
<1>5. ASSUME NEW b \in Agents, DeleteAgent(b) PROVE InLineInv'
  <2>1. /\ UNCHANGED <<age, entry, holder, left, dbAge>> /\ Joins(<<"remove", b>>)
        /\ <<"remove", b>> \in Ops /\ \A a : <<"remove", b>> # <<"heartbeat", a>>
    BY <1>5, JoinMoves DEF DeleteAgent, KnownInv, Ops
  <2> QED
    BY <1>2, <2>1
<1>6. CASE StartCheck
  <2>1. UNCHANGED <<age, entry, holder, left, dbAge>> /\ Joins(Check)
        /\ \A a : Check # <<"heartbeat", a>>
    BY <1>6, JoinMoves, AgentsAssumption DEF StartCheck, KnownInv, Check
  <2> QED
    BY <1>2, <2>1
<1>7. ASSUME NEW b \in Agents, Register(b) \/ Heartbeat(b) \/ Remove(b) PROVE InLineInv'
  <2>1. PICK k \in {"register", "heartbeat", "remove"} :
           /\ Moved(<<k, b>>)
           /\ holder' = <<k, b>> \/ (holder' = Free /\ entry'[b] = "absent")
           /\ k = "remove" => entry'[b] = "absent"
    <3>1. CASE Register(b)
      BY <1>7, <3>1, GrantMoves DEF Register, Refresh, CallDb, KnownInv
    <3>2. CASE Heartbeat(b)
      BY <1>7, <3>2, GrantMoves DEF Heartbeat, Refresh, CallDb, KnownInv, Granted
    <3>3. CASE Remove(b)
      BY <1>0, <1>7, <3>3, GrantMoves DEF Remove, CallDb, KnownInv
    <3> QED
      BY <1>7, <3>1, <3>2, <3>3
  <2>2. holder = Free /\ \A x \in Agents : x # b => entry'[x] = entry[x] /\ age'[x] = age[x]
    <3>1. entry' = entry \/ \E v : entry' = [entry EXCEPT ![b] = v]
      BY <1>7 DEF Register, Heartbeat, Remove, Refresh
    <3>2. age' = age \/ age' = [age EXCEPT ![b] = 0]
      BY <1>7 DEF Register, Heartbeat, Remove, Refresh
    <3>3. holder = Free
      BY <1>7 DEF Register, Heartbeat, Remove, Granted
    <3> QED
      BY <1>0, <3>1, <3>2, <3>3
  <2>3. ASSUME NEW a \in Agents, NEW i \in 1 .. Len(queue'),
               queue'[i] = <<"heartbeat", a>>, entry'[a] = "online"
        PROVE  InTime(a, i)'
    <3>1. /\ At(1) = <<k, b>> /\ 1 \in Places
          /\ i + 1 \in 1 .. Len(queue) /\ i + 1 # 1 /\ i + 1 # 0 /\ queue'[i] = queue[i + 1]
      BY <2>1, MovedCalls DEF KnownInv
    <3>2. a # b
      <4>1. SUFFICES ASSUME a = b PROVE FALSE
        OBVIOUS
      <4>2. k \in CallOps
        BY <2>1, <2>3, <4>1 DEF CallOps
      <4>3. CallOf(1, b) /\ CallOf(i + 1, b) /\ i + 1 \in Places
        BY <1>0, <2>3, <3>1, <4>1, <4>2 DEF CallOf, At, CallOps, Places
      <4> QED
        BY <3>1, <4>3 DEF KnownInv, LineInv
    <3>3. InTime(a, i + 1)
      BY <1>0, <2>2, <2>3, <3>1, <3>2
    <3> QED
      BY <2>1, <2>2, <3>2, <3>3, GrantKeepsInTime
  <2> QED
    BY <2>3 DEF InLineInv
<1>8. CASE MarkOffline
  <2>1. Moved(Check)
    BY <1>8, GrantMoves, AgentsAssumption DEF KnownInv
  <2>2. \A a \in Agents : entry'[a] = "online" => entry[a] = "online"
    <3>1. entry' = entry \/ \E b \in Agents : entry' = [entry EXCEPT ![b] = "offline"]
      BY <1>8 DEF MarkOffline, Mark, Stale
    <3> QED
      BY <1>0, <3>1
  <2>3. ASSUME NEW a \in Agents, NEW i \in 1 .. Len(queue'),
               queue'[i] = <<"heartbeat", a>>, entry'[a] = "online"
        PROVE  InTime(a, i)'
    <3>1. i + 1 \in 1 .. Len(queue) /\ queue'[i] = queue[i + 1]
      BY <2>1, MovedCalls DEF KnownInv
    <3>2. InTime(a, i + 1)
      BY <1>0, <2>2, <2>3, <3>1
    <3> QED
      BY <1>8, <3>2, MarkOfflineKeepsInTime
  <2> QED
    BY <2>3 DEF InLineInv
<1>9. CASE DbReturns
  <2>1. queue' = queue
    BY <1>9 DEF DbReturns
  <2>2. \A a \in Agents : entry'[a] = "online" => entry[a] = "online"
    <3>1. entry' = entry \/ \E b \in left : entry' = [entry EXCEPT ![b] = "offline"]
      BY <1>9 DEF DbReturns, Unlock, Mark
    <3> QED
      BY <1>0, <3>1
  <2> QED
    BY <1>0, <1>9, <2>1, <2>2, ReturnKeepsInTime DEF InLineInv, HealthyInv
<1>10. ASSUME NEW b \in Agents, Crash(b) PROVE InLineInv'
  BY <1>1, <1>10 DEF Crash, lockVars
<1>11. CASE Tick
  <2>1. queue' = queue /\ entry' = entry
    BY <1>11 DEF Tick
  <2> QED
    BY <1>0, <1>11, <2>1, TickKeepsInTime DEF InLineInv
<1>12. CASE EnqueueStartTest \/ Poll \/ DequeueCommand \/ GiveUp \/ DequeueForNobody \/ UNCHANGED vars
  BY <1>1, <1>12, IdleSteps DEF lineVars
<1> QED
  BY <1>3, <1>4, <1>5, <1>6, <1>7, <1>8, <1>9, <1>10, <1>11, <1>12 DEF Next

(* UpInv is inductive.                                                     *)
LEMMA UpStep ==
    ASSUME KnownInv, KnownInv', HealthyInv, Room, [Next]_vars
    PROVE  UpInv'
<1> DEFINE Young(a) == age'[a] + BeatWait(a)' + OthersWait =< Timeout
<1>0. /\ Len(queue) \in Nat /\ age \in [Agents -> 0 .. AgeCap]
      /\ live \in [Agents -> {"off", "joining", "up", "dead"}]
      /\ entry \in [Agents -> {"absent", "online", "offline"}]
      /\ beatDue \in [Agents -> BOOLEAN] /\ beatIn \in [Agents -> 1 .. Interval]
      /\ \A a \in Agents : Waits(a) => age[a] + BeatWait(a) + OthersWait =< Timeout
      /\ 0 \in Places
  <2>1. Len(queue) \in Nat
    BY LineTypes DEF KnownInv
  <2> QED
    BY <2>1 DEF KnownInv, TypeOK, FlagsOK, HealthyInv, UpInv, Places
<1>1. ASSUME NEW a \in Agents, Waits(a), age'[a] = age[a],
             beatDue'[a] = beatDue[a], beatIn'[a] = beatIn[a]
      PROVE  Young(a)
  <2>1. BeatWait(a)' = BeatWait(a)
    BY <1>1 DEF BeatWait
  <2> QED
    BY <1>0, <1>1, <2>1
<1> HIDE DEF Young
<1>2. ASSUME NEW op \in Ops \cup {Check}, Joins(op), UNCHANGED <<age, entry, beatIn>>,
             \A a \in Agents : live'[a] = "up" => live[a] = "up",
             \A a \in Agents : beatDue'[a] # beatDue[a] => op = <<"heartbeat", a>>
      PROVE  UpInv'
  <2>1. PICK e \in Nat : e = Len(queue) + 1
    BY <1>0
  <2>2. Places' = Places \cup {e} /\ (\A i \in Places : At(i)' = At(i)) /\ At(e)' = op
    BY <1>2, <2>1, JoinedPlaces DEF KnownInv
  <2>3. ASSUME NEW a \in Agents, Waits(a)' PROVE Young(a)
    <3>1. \A i \in Places' : ~CallOf(i, a)'
      BY <2>3 DEF Waits
    <3>2. \A i \in Places : ~CallOf(i, a)
      BY <2>2, <3>1 DEF CallOf
    <3>3. op # <<"heartbeat", a>>
      BY <2>2, <3>1 DEF CallOf, CallOps
    <3>4. Waits(a)
      BY <1>2, <2>3, <3>2 DEF Waits
    <3> QED
      BY <1>1, <1>2, <3>3, <3>4
  <2> QED
    BY <2>3 DEF UpInv, Young
<1>3. ASSUME NEW b \in Agents, Boot(b) PROVE UpInv'
  <2>1. /\ UNCHANGED <<age, entry, beatIn, beatDue>> /\ live' = [live EXCEPT ![b] = "joining"]
        /\ Joins(<<"register", b>>) /\ <<"register", b>> \in Ops
    BY <1>3, JoinMoves DEF Boot, KnownInv, Ops
  <2>2. \A a \in Agents : live'[a] = "up" => live[a] = "up"
    BY <1>0, <2>1
  <2> QED
    BY <1>2, <2>1, <2>2
<1>4. ASSUME NEW b \in Agents, SendHeartbeat(b) PROVE UpInv'
  <2>1. /\ UNCHANGED <<age, entry, beatIn, live>> /\ beatDue' = [beatDue EXCEPT ![b] = FALSE]
        /\ Joins(<<"heartbeat", b>>) /\ <<"heartbeat", b>> \in Ops
    BY <1>4, JoinMoves DEF SendHeartbeat, KnownInv, Ops
  <2>2. \A a \in Agents : beatDue'[a] # beatDue[a] => <<"heartbeat", b>> = <<"heartbeat", a>>
    BY <1>0, <2>1
  <2> QED
    BY <1>2, <2>1, <2>2
<1>5. ASSUME NEW b \in Agents, DeleteAgent(b) PROVE UpInv'
  <2>1. /\ UNCHANGED <<age, entry, beatIn, beatDue, live>>
        /\ Joins(<<"remove", b>>) /\ <<"remove", b>> \in Ops
    BY <1>5, JoinMoves DEF DeleteAgent, KnownInv, Ops, agentVars
  <2> QED
    BY <1>2, <2>1
<1>6. CASE StartCheck
  <2>1. UNCHANGED <<age, entry, beatIn, beatDue, live>> /\ Joins(Check)
    BY <1>6, JoinMoves, AgentsAssumption DEF StartCheck, KnownInv, agentVars
  <2> QED
    BY <1>2, <2>1
<1>7. ASSUME NEW b \in Agents, Register(b) \/ Heartbeat(b) \/ Remove(b) PROVE UpInv'
  <2>1. PICK k \in {"register", "heartbeat", "remove"} :
           /\ Moved(<<k, b>>)
           /\ (k \in CallOps /\ holder' = <<k, b>>) \/ entry'[b] = "absent"
    <3>1. CASE Register(b)
      BY <1>7, <3>1, GrantMoves DEF Register, Refresh, CallDb, KnownInv, CallOps
    <3>2. CASE Heartbeat(b)
      BY <1>7, <3>2, GrantMoves DEF Heartbeat, Refresh, CallDb, KnownInv, CallOps
    <3>3. CASE Remove(b)
      BY <1>0, <1>7, <3>3, GrantMoves DEF Remove, KnownInv
    <3> QED
      BY <1>7, <3>1, <3>2, <3>3
  <2>2. /\ holder = Free /\ UNCHANGED <<live, beatIn, beatDue>>
        /\ \A x \in Agents : x # b => entry'[x] = entry[x] /\ age'[x] = age[x]
    <3>1. entry' = entry \/ \E v : entry' = [entry EXCEPT ![b] = v]
      BY <1>7 DEF Register, Heartbeat, Remove, Refresh
    <3>2. age' = age \/ age' = [age EXCEPT ![b] = 0]
      BY <1>7 DEF Register, Heartbeat, Remove, Refresh
    <3>3. holder = Free /\ UNCHANGED <<live, beatIn, beatDue>>
      BY <1>7 DEF Register, Heartbeat, Remove, Granted, agentVars
    <3> QED
      BY <1>0, <3>1, <3>2, <3>3
  <2>3. ASSUME NEW a \in Agents, Waits(a)' PROVE Young(a)
    <3>1. (\A i \in Places' : ~CallOf(i, a)') /\ live'[a] = "up" /\ entry'[a] = "online"
      BY <2>3 DEF Waits
    <3>2. a # b
      <4>1. 0 \in Places'
        BY LenProperties DEF KnownInv, TypeOK, Places
      <4>2. (k \in CallOps /\ holder' = <<k, b>>) => CallOf(0, b)'
        BY DEF CallOf, At
      <4> QED
        BY <2>1, <3>1, <4>1, <4>2
    <3>3. \A i \in Places : ~CallOf(i, a)
      BY <2>1, <2>2, <3>1, <3>2, CallsMoveUp
    <3>4. Waits(a)
      BY <2>2, <3>1, <3>2, <3>3 DEF Waits
    <3> QED
      BY <1>1, <2>2, <3>2, <3>4
  <2> QED
    BY <2>3 DEF UpInv, Young
<1>8. CASE MarkOffline
  <2>1. Moved(Check) /\ holder = Free /\ UNCHANGED <<live, beatIn, beatDue, age>>
    BY <1>8, GrantMoves, AgentsAssumption DEF KnownInv, MarkOffline, Granted, agentVars
  <2>2. \A a \in Agents : entry'[a] = "online" => entry[a] = "online"
    <3>1. entry' = entry \/ \E b \in Agents : entry' = [entry EXCEPT ![b] = "offline"]
      BY <1>8 DEF MarkOffline, Mark, Stale
    <3> QED
      BY <1>0, <3>1
  <2>3. ASSUME NEW a \in Agents, Waits(a)' PROVE Young(a)
    <3>1. (\A i \in Places' : ~CallOf(i, a)') /\ live'[a] = "up" /\ entry'[a] = "online"
      BY <2>3 DEF Waits
    <3>2. \A i \in Places : ~CallOf(i, a)
      BY <2>1, <3>1, CallsMoveUp DEF Check, CallOps
    <3>3. Waits(a)
      BY <2>1, <2>2, <3>1, <3>2 DEF Waits
    <3> QED
      BY <1>1, <2>1, <3>3
  <2> QED
    BY <2>3 DEF UpInv, Young
<1>9. ASSUME DbReturns, NEW a \in Agents, Waits(a)' PROVE Young(a)
  <2>1. /\ UNCHANGED <<queue, age, beatIn, beatDue>>
        /\ live'[a] = IF holder = <<"register", a>> /\ live[a] = "joining" THEN "up" ELSE live[a]
    BY <1>9 DEF DbReturns, Unlock
  <2>2. live'[a] = "up" /\ entry'[a] = "online" /\ \A i \in Places : i # 0 => ~CallOf(i, a)
    <3>1. Places' = Places /\ \A i \in Places : i # 0 => At(i)' = At(i)
      BY <2>1 DEF Places, At
    <3> QED
      BY <1>9, <3>1 DEF Waits, CallOf
  <2>3. entry[a] = "online"
    <3>1. entry' = entry \/ \E b \in left : entry' = [entry EXCEPT ![b] = "offline"]
      BY <1>9 DEF DbReturns, Unlock, Mark
    <3> QED
      BY <1>0, <2>2, <3>1
  <2>4. CASE ~CallOf(0, a)
    <3>1. holder # <<"register", a>>
      BY <2>4 DEF CallOf, At, CallOps
    <3>2. Waits(a)
      BY <2>1, <2>2, <2>3, <2>4, <3>1 DEF Waits
    <3> QED
      BY <1>1, <2>1, <3>2
  <2>5. CASE CallOf(0, a)
    <3>1. /\ age[a] =< dbAge /\ dbAge =< DbTicks
          /\ live[a] = "up" => beatDue[a] \/ dbAge + beatIn[a] =< Interval
      BY <2>5, HealthyTypes, TimesAssumption DEF HealthyInv, HeldInv
    <3>2. /\ age[a] \in Nat /\ dbAge \in Nat /\ DbTicks \in Nat /\ Interval \in Nat
          /\ Timeout \in Nat /\ OthersWait \in Nat /\ beatIn[a] \in Nat
          /\ Interval + (OthersWait + DbTicks) =< Timeout
      BY HealthyTypes, RoomTypes, TimesAssumption DEF Room
    <3>3. \A g, d, n, o, t \in Nat : g =< d /\ n + (o + d) =< t => g + n + o =< t /\ g + 0 + o =< t
      OBVIOUS
    <3>4. age[a] =< DbTicks
      BY <3>1, <3>2
    <3>5. age[a] + Interval + OthersWait =< Timeout /\ age[a] + 0 + OthersWait =< Timeout
      BY ONLY <3>2, <3>3, <3>4
    <3>6. CASE live[a] = "up"
      <4>1. CASE beatDue[a]
        <5>1. BeatWait(a)' = 0
          BY <2>1, <4>1 DEF BeatWait
        <5> QED
          BY <2>1, <3>5, <5>1 DEF Young
      <4>2. CASE ~beatDue[a]
        <5>1. BeatWait(a)' = beatIn[a]
          BY <2>1, <4>2 DEF BeatWait
        <5>2. \A g, e, n, o, d, t \in Nat : g + e =< n /\ n + (o + d) =< t => g + e + o =< t
          OBVIOUS
        <5>3. age[a] + beatIn[a] =< Interval
          BY <3>1, <3>2, <3>6, <4>2
        <5>4. age[a] + beatIn[a] + OthersWait =< Timeout
          BY ONLY <3>2, <5>2, <5>3
        <5> QED
          BY <2>1, <5>1, <5>4 DEF Young
      <4> QED
        BY <4>1, <4>2
    <3>7. CASE live[a] # "up"
      <4>1. live[a] = "joining"
        BY <2>1, <2>2, <3>7
      <4>2. beatIn[a] = Interval /\ ~beatDue[a]
        BY <4>1 DEF HealthyInv, LifeInv
      <4>3. BeatWait(a)' = Interval
        BY <2>1, <4>2 DEF BeatWait
      <4> QED
        BY <2>1, <3>5, <4>3 DEF Young
    <3> QED
      BY <3>6, <3>7
  <2> QED
    BY <2>4, <2>5
<1>10. ASSUME NEW b \in Agents, Crash(b) PROVE UpInv'
  <2>1. /\ live' = [live EXCEPT ![b] = "dead"] /\ beatDue' = [beatDue EXCEPT ![b] = FALSE]
        /\ UNCHANGED <<age, entry, beatIn, queue, holder>>
    BY <1>10 DEF Crash, lockVars
  <2>2. ASSUME NEW a \in Agents, Waits(a)' PROVE Young(a)
    <3>1. a # b
      BY <1>0, <2>1, <2>2 DEF Waits
    <3>2. Waits(a)
      BY <1>0, <2>1, <2>2, <3>1 DEF Waits, Places, CallOf, At
    <3>3. beatDue'[a] = beatDue[a]
      BY <1>0, <2>1, <3>1
    <3> QED
      BY <1>1, <2>1, <3>2, <3>3
  <2> QED
    BY <2>2 DEF UpInv, Young
<1>11. ASSUME Tick, NEW a \in Agents, Waits(a)' PROVE Young(a)
  <2>1. /\ UNCHANGED <<live, entry, queue, holder>> /\ ~SendsHeartbeat(a)
        /\ beatIn'[a] = NextBeat(a)
        /\ beatDue'[a] = (beatDue[a] \/ (live[a] = "up" /\ beatIn[a] = 1))
    BY <1>11 DEF Tick, Urgent
  <2>2. Waits(a)
    BY <1>11, <2>1 DEF Waits, Places, CallOf, At
  <2>3. ~beatDue[a]
    <3>1. live[a] = "up" /\ ~Busy(<<"heartbeat", a>>)
      BY <2>2, SenderHasNoCall DEF Waits, KnownInv
    <3> QED
      BY <2>1, <3>1 DEF SendsHeartbeat
  <2>4. BeatWait(a) = beatIn[a] /\ beatIn[a] \in Nat /\ beatIn[a] >= 1
    BY <2>3, HealthyTypes, TimesAssumption DEF BeatWait
  <2>5. BeatWait(a)' = beatIn[a] - 1
    <3>1. live[a] = "up"
      BY <2>2 DEF Waits
    <3>2. CASE beatIn[a] = 1
      <4>1. beatDue'[a]
        BY <2>1, <3>1, <3>2
      <4> QED
        BY <3>2, <4>1 DEF BeatWait
    <3>3. CASE beatIn[a] # 1
      <4>1. ~beatDue'[a] /\ beatIn'[a] = beatIn[a] - 1
        BY <2>1, <2>3, <3>1, <3>3 DEF NextBeat
      <4> QED
        BY <4>1 DEF BeatWait
    <3> QED
      BY <3>2, <3>3
  <2>6. age'[a] \in Nat /\ age'[a] =< age[a] + 1 /\ age[a] \in Nat /\ OthersWait \in Nat /\ Timeout \in Nat
    BY <1>11, TickTimes, HealthyTypes, RoomTypes, TimesAssumption
  <2>7. age[a] + beatIn[a] + OthersWait =< Timeout
    BY <1>0, <2>2, <2>4
  <2>8. \A g, b, n, o, t \in Nat :
           b =< g + 1 /\ n >= 1 /\ g + n + o =< t => b + (n - 1) + o =< t
    OBVIOUS
  <2>9. age'[a] + (beatIn[a] - 1) + OthersWait =< Timeout
    BY ONLY <2>4, <2>6, <2>7, <2>8
  <2> QED
    BY <2>5, <2>9 DEF Young
<1>12. CASE EnqueueStartTest \/ Poll \/ DequeueCommand \/ GiveUp \/ DequeueForNobody \/ UNCHANGED vars
  <2>1. UNCHANGED <<live, entry, queue, holder, age, beatIn, beatDue>>
    BY <1>12, IdleSteps DEF lineVars
  <2>2. ASSUME NEW a \in Agents, Waits(a)' PROVE Young(a)
    <3>1. Waits(a)
      BY <2>1, <2>2 DEF Waits, Places, CallOf, At
    <3> QED
      BY <1>1, <2>1, <3>1
  <2> QED
    BY <2>2 DEF UpInv, Young
<1>13. CASE DbReturns \/ Tick
  BY <1>9, <1>11, <1>13 DEF UpInv, Young
<1> QED
  BY <1>3, <1>4, <1>5, <1>6, <1>7, <1>8, <1>10, <1>12, <1>13 DEF Next

(* The healthy invariant holds of the initial states and of every step.    *)
LEMMA HealthyStep ==
    ASSUME KnownInv, KnownInv', HealthyInv, Room, [Next]_vars
    PROVE  HealthyInv'
  BY LifeStep, GoneStep, HeldStep, InLineStep, UpStep DEF HealthyInv

LEMMA InitHealthy == Init => HealthyInv
<1> SUFFICES ASSUME Init PROVE HealthyInv
  OBVIOUS
<1>1. /\ queue = <<>> /\ holder = Free /\ left = {} /\ Len(queue) = 0
      /\ \A a \in Agents : /\ live[a] = "off" /\ entry[a] = "absent"
                           /\ beatIn[a] = Interval /\ beatDue[a] = FALSE
  BY DEF Init
<1>2. \A i : i \notin 1 .. Len(queue)
  BY <1>1
<1>3. \A a \in Agents : ~CallOf(0, a)
  BY <1>1 DEF CallOf, At, CallOps, Free
<1>4. LifeInv
  BY <1>1, <1>2 DEF LifeInv
<1>5. GoneInv /\ HeldInv /\ UpInv
  BY <1>1, <1>3 DEF GoneInv, HeldInv, UpInv, Waits
<1>6. InLineInv
  BY <1>2 DEF InLineInv
<1> QED
  BY <1>4, <1>5, <1>6 DEF HealthyInv

(* A live agent is never marked offline, for any number of agents, when    *)
(* the calls that can come before its heartbeat fit in what Timeout leaves *)
(* after Interval: HealthyStaysOnline.                                     *)
THEOREM HealthyAgentsStayOnline == Spec => []HealthyStaysOnline
<1>1. Init => KnownInv /\ (Room => HealthyInv)
  BY InitKnown, InitHealthy
<1>2. KnownInv /\ (Room => HealthyInv) /\ [Next]_vars => (KnownInv /\ (Room => HealthyInv))'
  <2> SUFFICES ASSUME KnownInv, Room => HealthyInv, [Next]_vars
               PROVE  KnownInv' /\ (Room' => HealthyInv')
    OBVIOUS
  <2>1. KnownInv'
    BY KnownStep
  <2>2. Room' => Room
    BY DEF Room, MaxWait
  <2> QED
    BY <2>1, <2>2, HealthyStep
<1>3. KnownInv /\ (Room => HealthyInv) => HealthyStaysOnline
  BY DEF HealthyStaysOnline, Room, HealthyInv, GoneInv
<1> QED
  BY <1>1, <1>2, <1>3, PTL DEF Spec
=============================================================================
