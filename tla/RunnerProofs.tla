---------------------------- MODULE RunnerProofs ----------------------------
(***************************************************************************)
(* Theorems about Runner, for any number of virtual users, any size of the *)
(* channel and any number of requests and snapshots: its safety            *)
(* invariants, and that it implements ResultPipe; and about RunCommand,    *)
(* for any files, flags, thresholds and formats: that it takes only the    *)
(* runner's steps, and what it has written when it ends.                   *)
(***************************************************************************)
EXTENDS RunCommand, SumProofs, SequenceTheorems

USE VUsersAssumption, RampUpAssumption, BufSizeAssumption, MaxRequestsAssumption,
    MaxSnapshotsAssumption

(* A virtual user that is about to send holds one result.                  *)
HandsMatch == \A i \in VUserIds : vu[i] = "sending" => Len(hand[i]) = 1

(* The virtual users are started one after the other.                      *)
StartsInOrder == \A i \in VUserIds : i > started => vu[i] = "none"

(* The end of a run goes in order: ticker, virtual users, channel,         *)
(* recorder, report.                                                       *)
EndsInOrder ==
    /\ main \in {"joining", "closed", "done"} => ctxDone /\ ticker = "ended"
    /\ closed <=> main \in {"closed", "done"}
    /\ recorder = "ended" => closed /\ resultCh = <<>>
    /\ main = "done" => recorder = "ended"
    /\ IF main = "done" THEN Len(report) = 1 ELSE report = <<>>

(* The counters agree, but for the result the recorder is in the middle of.*)
CountsAgree ==
    /\ totalReqs = histogram + (IF recorder \in {"counted", "windowed", "judged"} THEN 1 ELSE 0)
    /\ totalErrors <= histogram + (IF recorder = "judged" THEN 1 ELSE 0)

(* While a snapshot is taken, mu keeps the histogram as it is.             *)
SnapAgrees ==
    /\ ticker \in {"total", "errors", "window"} =>
          histogram <= snap.total /\ snap.total <= histogram + 1
    /\ ticker \in {"errors", "window"} => snap.errors <= histogram + 1

(* The inductive invariant: what makes the last three hold is that of the  *)
(* counters, the channel and the order of the end.                         *)
RunInv ==
    /\ TypeOK
    /\ HandsMatch
    /\ StartsInOrder
    /\ EndsInOrder
    /\ CountsAgree
    /\ SnapAgrees
    /\ NoSendOnClosed
    /\ ResultsAccounted
    /\ ReportIsFinal
    /\ SnapshotSkew
-----------------------------------------------------------------------------
(* There are finitely many virtual users.                                  *)
LEMMA SendingIsFinite == IsFiniteSet(Sending) /\ Cardinality(Sending) \in Nat
<1>1. IsFiniteSet(VUserIds)
  BY FS_Interval DEF VUserIds
<1>2. Sending \subseteq VUserIds
  BY DEF Sending
<1> QED
  BY <1>1, <1>2, FS_Subset, FS_CardinalityType

(* Nothing is sent before a virtual user has started.                      *)
LEMMA InitRunInv == Init => RunInv
<1> SUFFICES ASSUME Init PROVE RunInv
  OBVIOUS
<1>1. Sending = {}
  BY DEF Init, Sending
<1>2. Cardinality(Sending) = 0
  BY <1>1, FS_EmptySet
<1>3. TypeOK
  <2>1. vu \in [VUserIds -> {"none", "looping", "requesting", "sending", "ended"}]
    BY DEF Init
  <2>2. <<>> \in Seq(Outcomes)
    OBVIOUS
  <2>3. hand \in [VUserIds -> Seq(Outcomes)]
    BY <2>2 DEF Init
  <2>4. PoolTypeOK
    <3>1. ctxDone = FALSE /\ main = "starting" /\ started = 0
          /\ made = 0 /\ finished = 0 /\ dropped = 0
      BY DEF Init
    <3>2. started \in 0 .. VUsers
      BY <3>1, VUsersAssumption
    <3>3. /\ ctxDone \in BOOLEAN
          /\ main \in {"starting", "running", "joining", "closed", "done"}
          /\ made \in Nat /\ finished \in Nat /\ dropped \in Nat
      BY <3>1
    <3> QED
      BY <3>2, <3>3, <2>1, <2>3 DEF PoolTypeOK
  <2>5. <<>> \in Seq([total : Nat, errors : Nat, hist : Nat])
    OBVIOUS
  <2>6. ChanTypeOK
    BY <2>2, <2>5 DEF Init, ChanTypeOK
  <2>7. CountTypeOK
    BY DEF Init, CountTypeOK, NoSnap, Snaps
  <2> QED
    BY <2>4, <2>6, <2>7 DEF TypeOK
<1>4. HandsMatch /\ StartsInOrder /\ EndsInOrder /\ CountsAgree /\ SnapAgrees
  BY DEF Init, HandsMatch, StartsInOrder, EndsInOrder, CountsAgree, SnapAgrees
<1>5. NoSendOnClosed /\ ReportIsFinal /\ SnapshotSkew
  BY DEF Init, NoSendOnClosed, ReportIsFinal, SnapshotSkew
<1>6. ResultsAccounted
  BY <1>2 DEF Init, ResultsAccounted, OnTheWay
<1> QED
  BY <1>3, <1>4, <1>5, <1>6 DEF RunInv
-----------------------------------------------------------------------------
(* One more virtual user is started: it is the first that had not been.    *)
LEMMA StartVUserKeepsInv == ASSUME RunInv, StartVUser PROVE RunInv'
<1> USE DEF StartVUser, poolVars, chanVars, snapVars, countVars
<1>1. PoolTypeOK /\ ChanTypeOK /\ CountTypeOK
  BY DEF RunInv, TypeOK
<1>2. started \in 0 .. VUsers /\ started < VUsers
  BY <1>1 DEF PoolTypeOK, MoreVUsers
<1>3. started + 1 \in VUserIds /\ started + 1 \in 0 .. VUsers
  BY <1>2 DEF VUserIds
<1>4. vu[started + 1] = "none"
  BY <1>2, <1>3 DEF RunInv, StartsInOrder
<1>5. vu \in [VUserIds -> {"none", "looping", "requesting", "sending", "ended"}]
  BY <1>1 DEF PoolTypeOK
<1>6. \A i \in VUserIds : vu'[i] = IF i = started + 1 THEN "looping" ELSE vu[i]
  BY <1>5
<1>7. vu' \in [VUserIds -> {"none", "looping", "requesting", "sending", "ended"}]
  BY <1>5
<1>8. TypeOK'
  <2>1. PoolTypeOK'
    BY <1>1, <1>3, <1>7 DEF PoolTypeOK
  <2>2. ChanTypeOK' /\ CountTypeOK'
    BY <1>1 DEF ChanTypeOK, CountTypeOK
  <2> QED
    BY <2>1, <2>2 DEF TypeOK
<1>9. HandsMatch'
  BY <1>6 DEF RunInv, HandsMatch
<1>10. StartsInOrder'
  <2> SUFFICES ASSUME NEW i \in VUserIds, i > started + 1 PROVE vu'[i] = "none"
    BY DEF StartsInOrder
  <2>1. i > started /\ i # started + 1
    BY <1>2 DEF VUserIds
  <2> QED
    BY <2>1, <1>6 DEF RunInv, StartsInOrder
<1>11. EndsInOrder' /\ NoSendOnClosed'
  BY DEF RunInv, EndsInOrder, NoSendOnClosed
<1>12. CountsAgree' /\ SnapAgrees' /\ SnapshotSkew' /\ ReportIsFinal'
  BY DEF RunInv, CountsAgree, SnapAgrees, SnapshotSkew, ReportIsFinal
<1>13. Sending' = Sending
  BY <1>4, <1>6 DEF Sending
<1>14. ResultsAccounted'
  BY <1>13 DEF RunInv, ResultsAccounted, OnTheWay
<1> QED
  BY <1>8, <1>9, <1>10, <1>11, <1>12, <1>14 DEF RunInv

(* The context ends, or Run goes on to the next phase of its end.          *)
LEMMA PhaseKeepsInv ==
    ASSUME RunInv, CtxEnds \/ StartReturns \/ JoinTicker \/ JoinPool
    PROVE  RunInv'
<1> USE DEF CtxEnds, StartReturns, JoinTicker, JoinPool,
            poolVars, chanVars, snapVars, countVars
<1>1. PoolTypeOK' /\ ChanTypeOK' /\ CountTypeOK'
  BY DEF RunInv, TypeOK, PoolTypeOK, ChanTypeOK, CountTypeOK
<1>2. HandsMatch' /\ StartsInOrder'
  BY DEF RunInv, HandsMatch, StartsInOrder
<1>3. EndsInOrder'
  BY DEF RunInv, TypeOK, PoolTypeOK, EndsInOrder
<1>4. CountsAgree' /\ SnapAgrees' /\ SnapshotSkew' /\ ReportIsFinal'
  BY DEF RunInv, CountsAgree, SnapAgrees, SnapshotSkew, ReportIsFinal
<1>5. NoSendOnClosed'
  BY DEF RunInv, NoSendOnClosed, Idle
<1>6. Sending' = Sending
  BY DEF Sending
<1>7. ResultsAccounted'
  BY <1>6 DEF RunInv, ResultsAccounted, OnTheWay
<1> QED
  BY <1>1, <1>2, <1>3, <1>4, <1>5, <1>7 DEF RunInv, TypeOK

(* The report is made when no virtual user sends, the channel is empty and *)
(* the recorder has ended: it has all the results that were not given up.  *)
LEMMA ReportKeepsInv == ASSUME RunInv, Report PROVE RunInv'
<1> USE DEF Report, poolVars, chanVars, snapVars, countVars
<1>1. /\ totalReqs \in Nat /\ totalErrors \in Nat /\ histogram \in Nat
      /\ finished \in Nat /\ dropped \in Nat
  BY DEF RunInv, TypeOK, PoolTypeOK, CountTypeOK
<1>2. report' = <<[total |-> totalReqs, errors |-> totalErrors, hist |-> histogram]>>
  OBVIOUS
<1>3. TypeOK'
  <2>1. report' \in Seq([total : Nat, errors : Nat, hist : Nat])
    BY <1>1, <1>2
  <2>2. ChanTypeOK'
    BY <2>1 DEF RunInv, TypeOK, ChanTypeOK
  <2>3. PoolTypeOK' /\ CountTypeOK'
    BY DEF RunInv, TypeOK, PoolTypeOK, CountTypeOK
  <2> QED
    BY <2>2, <2>3 DEF TypeOK
<1>4. HandsMatch' /\ StartsInOrder' /\ NoSendOnClosed'
  BY DEF RunInv, HandsMatch, StartsInOrder, NoSendOnClosed, Idle
<1>5. EndsInOrder'
  BY <1>2 DEF RunInv, EndsInOrder
<1>6. CountsAgree' /\ SnapAgrees' /\ SnapshotSkew'
  BY DEF RunInv, CountsAgree, SnapAgrees, SnapshotSkew
<1>7. Sending = {}
  BY DEF RunInv, EndsInOrder, NoSendOnClosed, Idle, Sending
<1>8. OnTheWay = 0
  BY <1>7, FS_EmptySet DEF RunInv, EndsInOrder, OnTheWay
<1>9. Sending' = Sending
  BY DEF Sending
<1>10. ResultsAccounted'
  BY <1>9 DEF RunInv, ResultsAccounted, OnTheWay
<1>11. ReportIsFinal'
  <2>1. totalReqs = finished - dropped
    BY <1>1, <1>8 DEF RunInv, ResultsAccounted
  <2>2. totalReqs = histogram /\ totalErrors <= histogram
    BY <1>1 DEF RunInv, CountsAgree
  <2>3. DOMAIN report' = {1} /\ report'[1] = [total |-> totalReqs, errors |-> totalErrors, hist |-> histogram]
    BY <1>2
  <2> QED
    BY <2>1, <2>2, <2>3 DEF ReportIsFinal
<1> QED
  BY <1>3, <1>4, <1>5, <1>6, <1>10, <1>11 DEF RunInv
-----------------------------------------------------------------------------
(* Virtual users: what a step of one of them changes, and what it leaves.  *)

(* A virtual user ends, or begins its next request: results stay where     *)
(* they are.                                                               *)
LEMMA LoopKeepsInv ==
    ASSUME RunInv, NEW i \in VUserIds, VUserEnds(i) \/ Request(i)
    PROVE  RunInv'
<1> USE DEF VUserEnds, Request, poolVars, chanVars, snapVars, countVars
<1>1. vu \in [VUserIds -> {"none", "looping", "requesting", "sending", "ended"}]
  BY DEF RunInv, TypeOK, PoolTypeOK
<1>2. vu[i] = "looping" /\ vu'[i] \in {"requesting", "ended"}
      /\ \A j \in VUserIds \ {i} : vu'[j] = vu[j]
  <2>1. CASE VUserEnds(i)
    BY <1>1, <2>1
  <2>2. CASE Request(i)
    BY <1>1, <2>2
  <2> QED
    BY <2>1, <2>2
<1>3. vu' \in [VUserIds -> {"none", "looping", "requesting", "sending", "ended"}]
  BY <1>1
<1>4. TypeOK'
  <2>1. made' \in Nat
    BY DEF RunInv, TypeOK, PoolTypeOK
  <2>2. PoolTypeOK'
    BY <1>3, <2>1 DEF RunInv, TypeOK, PoolTypeOK
  <2>3. ChanTypeOK' /\ CountTypeOK'
    BY DEF RunInv, TypeOK, ChanTypeOK, CountTypeOK
  <2> QED
    BY <2>2, <2>3 DEF TypeOK
<1>5. HandsMatch' /\ StartsInOrder'
  BY <1>2 DEF RunInv, HandsMatch, StartsInOrder
<1>6. EndsInOrder' /\ CountsAgree' /\ SnapAgrees' /\ SnapshotSkew' /\ ReportIsFinal'
  BY DEF RunInv, EndsInOrder, CountsAgree, SnapAgrees, SnapshotSkew, ReportIsFinal
<1>7. NoSendOnClosed'
  BY <1>2 DEF RunInv, NoSendOnClosed, Idle
<1>8. Sending' = Sending
  BY <1>2 DEF Sending
<1>9. ResultsAccounted'
  BY <1>8 DEF RunInv, ResultsAccounted, OnTheWay
<1> QED
  BY <1>4, <1>5, <1>6, <1>7, <1>9 DEF RunInv

(* The client returns a result: one more virtual user sends.               *)
LEMMA RespondKeepsInv == ASSUME RunInv, NEW i \in VUserIds, Respond(i) PROVE RunInv'
<1> USE DEF Respond, poolVars, chanVars, snapVars, countVars
<1>1. /\ vu \in [VUserIds -> {"none", "looping", "requesting", "sending", "ended"}]
      /\ hand \in [VUserIds -> Seq(Outcomes)]
      /\ finished \in Nat /\ dropped \in Nat /\ totalReqs \in Nat /\ resultCh \in Seq(Outcomes)
  BY DEF RunInv, TypeOK, PoolTypeOK, ChanTypeOK, CountTypeOK
<1>2. vu[i] = "requesting" /\ vu'[i] = "sending"
      /\ \A j \in VUserIds \ {i} : vu'[j] = vu[j]
  BY <1>1
<1>3. PICK r \in Outcomes : hand' = [hand EXCEPT ![i] = <<r>>]
  OBVIOUS
<1>4. vu' \in [VUserIds -> {"none", "looping", "requesting", "sending", "ended"}]
  BY <1>1
<1>5. <<r>> \in Seq(Outcomes) /\ Len(<<r>>) = 1
  OBVIOUS
<1>6. hand' \in [VUserIds -> Seq(Outcomes)] /\ hand'[i] = <<r>>
      /\ \A j \in VUserIds \ {i} : hand'[j] = hand[j]
  BY <1>1, <1>3, <1>5
<1>7. TypeOK'
  BY <1>1, <1>4, <1>6 DEF RunInv, TypeOK, PoolTypeOK, ChanTypeOK, CountTypeOK
<1>8. HandsMatch' /\ StartsInOrder'
  BY <1>2, <1>5, <1>6 DEF RunInv, HandsMatch, StartsInOrder
<1>9. EndsInOrder' /\ CountsAgree' /\ SnapAgrees' /\ SnapshotSkew'
  BY DEF RunInv, EndsInOrder, CountsAgree, SnapAgrees, SnapshotSkew
<1>10. ~closed /\ report = <<>>
  BY <1>2 DEF RunInv, NoSendOnClosed, EndsInOrder, Idle
<1>11. NoSendOnClosed' /\ ReportIsFinal'
  BY <1>10 DEF NoSendOnClosed, ReportIsFinal
<1>12. Sending' = Sending \cup {i} /\ i \notin Sending
  BY <1>2 DEF Sending
<1>13. Cardinality(Sending') = Cardinality(Sending) + 1
  BY <1>12, SendingIsFinite, FS_AddElement
<1>14. ResultsAccounted'
  BY <1>1, <1>13, SendingIsFinite DEF RunInv, ResultsAccounted, OnTheWay
<1> QED
  BY <1>7, <1>8, <1>9, <1>11, <1>14 DEF RunInv

(* A channel that takes one result is longer by one.                       *)
LEMMA ChannelTakesOne ==
    ASSUME NEW ch \in Seq(Outcomes), NEW one \in Seq(Outcomes), Len(one) = 1
    PROVE  ch \o one \in Seq(Outcomes) /\ Len(ch \o one) = Len(ch) + 1
BY ConcatProperties

(* What was in the hand of a virtual user goes to the channel, or is lost. *)
LEMMA HandOverKeepsInv ==
    ASSUME RunInv, NEW i \in VUserIds, Send(i) \/ GiveUp(i)
    PROVE  RunInv'
<1> USE DEF Send, GiveUp, MayGiveUp, poolVars, chanVars, snapVars, countVars
<1>1. /\ vu \in [VUserIds -> {"none", "looping", "requesting", "sending", "ended"}]
      /\ hand \in [VUserIds -> Seq(Outcomes)]
      /\ finished \in Nat /\ dropped \in Nat /\ totalReqs \in Nat /\ resultCh \in Seq(Outcomes)
  BY DEF RunInv, TypeOK, PoolTypeOK, ChanTypeOK, CountTypeOK
<1>2. vu[i] = "sending" /\ vu'[i] \in {"looping", "ended"}
      /\ \A j \in VUserIds \ {i} : vu'[j] = vu[j]
  BY <1>1
<1>3. vu' \in [VUserIds -> {"none", "looping", "requesting", "sending", "ended"}]
  BY <1>1
<1>4. hand' \in [VUserIds -> Seq(Outcomes)] /\ \A j \in VUserIds \ {i} : hand'[j] = hand[j]
  <2>1. hand' = [hand EXCEPT ![i] = <<>>] /\ <<>> \in Seq(Outcomes)
    OBVIOUS
  <2> QED
    BY <1>1, <2>1
<1>5. hand[i] \in Seq(Outcomes) /\ Len(hand[i]) = 1
  BY <1>1, <1>2 DEF RunInv, HandsMatch
<1>6. ~closed /\ report = <<>>
  BY <1>2 DEF RunInv, NoSendOnClosed, EndsInOrder, Idle
<1>7. i \in Sending /\ Sending' = Sending \ {i}
  BY <1>2 DEF Sending
<1>8. Cardinality(Sending') = Cardinality(Sending) - 1 /\ Cardinality(Sending) \in Nat
  BY <1>7, SendingIsFinite, FS_RemoveElement
<1>9. resultCh' \in Seq(Outcomes) /\ dropped' \in Nat
      /\ Len(resultCh') + dropped' = Len(resultCh) + dropped + 1
      /\ (dropped' = dropped \/ ctxDone)
  <2>1. CASE Send(i)
    <3>1. resultCh' = resultCh \o hand[i] /\ dropped' = dropped
      BY <2>1
    <3>2. resultCh' \in Seq(Outcomes) /\ Len(resultCh') = Len(resultCh) + 1
      BY <1>1, <1>5, <3>1, ChannelTakesOne
    <3> QED
      BY <1>1, <3>1, <3>2
  <2>2. CASE GiveUp(i)
    BY <1>1, <2>2
  <2> QED
    BY <2>1, <2>2
<1>10. UNCHANGED <<ctxDone, main, started, made, finished, closed, recorder, rec, report>>
       /\ UNCHANGED <<ticker, snap, snapshots, totalReqs, totalErrors, windowReqs, histogram>>
  OBVIOUS
<1> HIDE DEF Send, GiveUp
<1>11. TypeOK'
  BY <1>3, <1>4, <1>9, <1>10 DEF RunInv, TypeOK, PoolTypeOK, ChanTypeOK, CountTypeOK
<1>12. HandsMatch' /\ StartsInOrder'
  BY <1>2, <1>4, <1>10 DEF RunInv, HandsMatch, StartsInOrder
<1>13. EndsInOrder' /\ NoSendOnClosed' /\ ReportIsFinal'
  BY <1>6, <1>10 DEF RunInv, EndsInOrder, NoSendOnClosed, ReportIsFinal
<1>14. CountsAgree' /\ SnapAgrees' /\ SnapshotSkew'
  BY <1>10 DEF RunInv, CountsAgree, SnapAgrees, SnapshotSkew
<1>15. ResultsAccounted'
  <2>1. Len(resultCh) \in Nat /\ Len(resultCh') \in Nat
    BY <1>1, <1>9
  <2> DEFINE m == Cardinality(Sending)  l == Len(resultCh)
             n == Cardinality(Sending') k == Len(resultCh')
             t == IF recorder = "taken" THEN 1 ELSE 0
             d == dropped'
  <2>2. n \in Nat /\ m = n + 1 /\ l \in Nat /\ k \in Nat /\ t \in Nat /\ d \in Nat
        /\ k + d = l + dropped + 1 /\ (d = dropped \/ ctxDone)
    BY <1>7, <1>8, <1>9, <2>1, SendingIsFinite, FS_RemoveElement, FS_CardinalityType
  <2>3. finished = totalReqs + (m + l + t) + dropped /\ (dropped > 0 => ctxDone)
    BY DEF RunInv, ResultsAccounted, OnTheWay
  <2>4. OnTheWay' = n + k + t
    BY <1>10 DEF OnTheWay
  <2> HIDE DEF m, l, n, k, t, d
  <2>5. finished = totalReqs + (n + k + t) + d /\ (d > 0 => ctxDone)
    BY <1>1, <2>2, <2>3
  <2>6. d = dropped'
    BY DEF d
  <2> QED
    BY <1>10, <2>4, <2>5, <2>6 DEF ResultsAccounted
<1> QED
  BY <1>11, <1>12, <1>13, <1>14, <1>15 DEF RunInv
-----------------------------------------------------------------------------
(* The recorder takes the next result, or ends when the channel is closed  *)
(* and empty.                                                              *)
LEMMA TakeKeepsInv == ASSUME RunInv, Take PROVE RunInv'
<1> USE DEF Take, poolVars, chanVars, snapVars, countVars
<1>1. resultCh \in Seq(Outcomes) /\ rec \in Seq(Outcomes)
  BY DEF RunInv, TypeOK, ChanTypeOK
<1>2. HandsMatch' /\ StartsInOrder' /\ NoSendOnClosed'
  BY DEF RunInv, HandsMatch, StartsInOrder, NoSendOnClosed, Idle
<1>3. SnapAgrees' /\ SnapshotSkew' /\ ReportIsFinal'
  BY DEF RunInv, SnapAgrees, SnapshotSkew, ReportIsFinal
<1>4. Sending' = Sending
  BY DEF Sending
<1>5. CASE resultCh = <<>>
  <2>1. recorder' = "ended" /\ closed /\ UNCHANGED <<resultCh, rec>>
    BY <1>5
  <2>2. TypeOK'
    BY <2>1 DEF RunInv, TypeOK, PoolTypeOK, ChanTypeOK, CountTypeOK
  <2>3. EndsInOrder' /\ CountsAgree' /\ ResultsAccounted'
    BY <1>4, <1>5, <2>1 DEF RunInv, EndsInOrder, CountsAgree, ResultsAccounted, OnTheWay
  <2> QED
    BY <1>2, <1>3, <2>2, <2>3 DEF RunInv
<1>6. CASE resultCh # <<>>
  <2>1. recorder' = "taken" /\ rec' = <<Head(resultCh)>> /\ resultCh' = Tail(resultCh)
    BY <1>6
  <2>2. /\ Head(resultCh) \in Outcomes /\ <<Head(resultCh)>> \in Seq(Outcomes)
        /\ Tail(resultCh) \in Seq(Outcomes) /\ Len(Tail(resultCh)) = Len(resultCh) - 1
        /\ Len(resultCh) \in Nat
    BY <1>1, <1>6
  <2>3. TypeOK'
    BY <2>1, <2>2 DEF RunInv, TypeOK, PoolTypeOK, ChanTypeOK, CountTypeOK
  <2>4. EndsInOrder' /\ CountsAgree'
    BY <2>1 DEF RunInv, EndsInOrder, CountsAgree
  <2>5. ResultsAccounted'
    BY <1>4, <2>1, <2>2, SendingIsFinite
    DEF RunInv, TypeOK, PoolTypeOK, CountTypeOK, ResultsAccounted, OnTheWay
  <2> QED
    BY <1>2, <1>3, <2>3, <2>4, <2>5 DEF RunInv
<1> QED
  BY <1>5, <1>6

(* The recorder counts the result it has taken: it leaves the way, and it  *)
(* is in the total.                                                        *)
LEMMA CountRequestKeepsInv == ASSUME RunInv, CountRequest PROVE RunInv'
<1> USE DEF CountRequest, poolVars, chanVars, snapVars, countVars
<1>1. totalReqs \in Nat /\ finished \in Nat /\ dropped \in Nat /\ resultCh \in Seq(Outcomes)
  BY DEF RunInv, TypeOK, PoolTypeOK, ChanTypeOK, CountTypeOK
<1>2. TypeOK'
  BY DEF RunInv, TypeOK, PoolTypeOK, ChanTypeOK, CountTypeOK
<1>3. HandsMatch' /\ StartsInOrder' /\ NoSendOnClosed' /\ SnapAgrees' /\ SnapshotSkew'
  BY DEF RunInv, HandsMatch, StartsInOrder, NoSendOnClosed, Idle, SnapAgrees, SnapshotSkew
<1>4. EndsInOrder' /\ ReportIsFinal'
  BY DEF RunInv, EndsInOrder, ReportIsFinal
<1>5. CountsAgree'
  BY DEF RunInv, TypeOK, CountTypeOK, CountsAgree
<1>6. Sending' = Sending
  BY DEF Sending
<1>7. ResultsAccounted'
  <2> DEFINE m == Cardinality(Sending)  l == Len(resultCh)
  <2>1. m \in Nat /\ l \in Nat
    BY <1>1, SendingIsFinite
  <2>2. finished = totalReqs + (m + l + 1) + dropped /\ (dropped > 0 => ctxDone)
    BY DEF RunInv, ResultsAccounted, OnTheWay
  <2>3. OnTheWay' = m + l + 0
    BY <1>6 DEF OnTheWay
  <2> HIDE DEF m, l
  <2>4. finished = (totalReqs + 1) + (m + l + 0) + dropped
    BY <1>1, <2>1, <2>2
  <2> QED
    BY <2>2, <2>3, <2>4 DEF ResultsAccounted
<1> QED
  BY <1>2, <1>3, <1>4, <1>5, <1>7 DEF RunInv

(* The rest of Record: the total does not change, and the histogram only   *)
(* while no snapshot holds mu.                                             *)
LEMMA RecordKeepsInv ==
    ASSUME RunInv, CountWindow \/ CountError \/ CountValue
    PROVE  RunInv'
<1> USE DEF CountWindow, CountError, CountValue, MuFree, poolVars, chanVars, snapVars, countVars
<1>1. /\ totalReqs \in Nat /\ totalErrors \in Nat /\ windowReqs \in Nat /\ histogram \in Nat
      /\ recorder \in {"idle", "taken", "counted", "windowed", "judged", "ended"}
  BY DEF RunInv, TypeOK, ChanTypeOK, CountTypeOK
<1>2. UNCHANGED <<ctxDone, main, started, vu, hand, made, finished, dropped, resultCh, closed>>
      /\ UNCHANGED <<ticker, snap, snapshots, totalReqs, report>>
  OBVIOUS
<1>3. rec' \in Seq(Outcomes)
  <2>1. rec' = rec \/ rec' = <<>>
    OBVIOUS
  <2>2. rec \in Seq(Outcomes) /\ <<>> \in Seq(Outcomes)
    BY EmptySeq DEF RunInv, TypeOK, ChanTypeOK
  <2> QED
    BY <2>1, <2>2
<1>4. /\ totalErrors' \in Nat /\ windowReqs' \in Nat /\ histogram' \in Nat
      /\ recorder' \in {"windowed", "judged", "idle"}
      /\ recorder \in {"counted", "windowed", "judged"}
  <2>1. CASE CountWindow
    BY <1>1, <2>1
  <2>2. CASE CountError
    BY <1>1, <2>2
  <2>3. CASE CountValue
    BY <1>1, <2>3
  <2> QED
    BY <2>1, <2>2, <2>3
<1>5. TypeOK'
  BY <1>2, <1>3, <1>4 DEF RunInv, TypeOK, PoolTypeOK, ChanTypeOK, CountTypeOK
<1>6. HandsMatch' /\ StartsInOrder' /\ NoSendOnClosed' /\ SnapshotSkew'
  BY <1>2 DEF RunInv, HandsMatch, StartsInOrder, NoSendOnClosed, Idle, SnapshotSkew
<1>7. EndsInOrder' /\ report = <<>>
  <2>1. recorder # "ended" /\ recorder' # "ended"
    BY <1>4
  <2>2. main # "done" /\ report = <<>>
    BY <2>1 DEF RunInv, EndsInOrder
  <2> QED
    BY <1>2, <2>1, <2>2 DEF RunInv, EndsInOrder
<1>8. ReportIsFinal'
  BY <1>2, <1>7 DEF ReportIsFinal
<1>9. CountsAgree'
  BY <1>1 DEF RunInv, CountsAgree
<1>10. SnapAgrees'
  BY <1>1, <1>2 DEF RunInv, SnapAgrees
<1>11. Sending' = Sending
  BY <1>2 DEF Sending
<1>12. ResultsAccounted'
  BY <1>2, <1>4, <1>11 DEF RunInv, ResultsAccounted, OnTheWay
<1> QED
  BY <1>5, <1>6, <1>7, <1>8, <1>9, <1>10, <1>12 DEF RunInv
-----------------------------------------------------------------------------
(* A snapshot reads counters that may be one ahead of the histogram, which *)
(* waits for mu.                                                           *)
LEMMA SnapshotKeepsInv ==
    ASSUME RunInv, SnapTotal \/ Snapshot \/ TickerEnds
    PROVE  RunInv'
<1> USE DEF SnapTotal, Snapshot, SnapErrors, SnapWindow, SnapHistogram, TickerEnds,
            poolVars, chanVars, snapVars, countVars
<1>1. /\ totalReqs \in Nat /\ totalErrors \in Nat /\ windowReqs \in Nat /\ histogram \in Nat
      /\ snap \in Snaps /\ snapshots \in Seq(Snaps)
  BY DEF RunInv, TypeOK, CountTypeOK
<1>2. UNCHANGED <<ctxDone, main, started, vu, hand, made, finished, dropped, resultCh, closed>>
      /\ UNCHANGED <<recorder, rec, totalReqs, totalErrors, histogram, report>>
  OBVIOUS
<1>3. CountsAgree
  BY DEF RunInv
<1>4. /\ histogram <= totalReqs /\ totalReqs <= histogram + 1
      /\ totalErrors <= histogram + 1
  BY <1>1, <1>3 DEF CountsAgree
<1>5. HandsMatch' /\ StartsInOrder' /\ NoSendOnClosed' /\ CountsAgree' /\ ReportIsFinal'
  BY <1>2 DEF RunInv, HandsMatch, StartsInOrder, NoSendOnClosed, Idle, CountsAgree, ReportIsFinal
<1>6. EndsInOrder'
  BY <1>2 DEF RunInv, EndsInOrder
<1>7. Sending' = Sending
  BY <1>2 DEF Sending
<1>8. ResultsAccounted'
  BY <1>2, <1>7 DEF RunInv, ResultsAccounted, OnTheWay
<1>9. PoolTypeOK' /\ ChanTypeOK'
  BY <1>2 DEF RunInv, TypeOK, PoolTypeOK, ChanTypeOK
<1>10. CountTypeOK' /\ SnapAgrees' /\ SnapshotSkew'
  <2>1. CASE SnapTotal
    BY <2>1, <1>1, <1>4 DEF RunInv, CountTypeOK, SnapAgrees, SnapshotSkew, NoSnap, Snaps
  <2>2. CASE SnapErrors
    BY <2>2, <1>1, <1>4 DEF RunInv, CountTypeOK, SnapAgrees, SnapshotSkew, Snaps
  <2>3. CASE SnapWindow
    BY <2>3, <1>1, <1>4 DEF RunInv, CountTypeOK, SnapAgrees, SnapshotSkew, Snaps
  <2>4. CASE SnapHistogram
    <3> DEFINE s == [snap EXCEPT !.hist = histogram]
    <3>1. s \in Snaps /\ NoSnap \in Snaps
      BY <1>1 DEF Snaps, NoSnap
    <3>2. s.hist = histogram /\ s.total = snap.total /\ s.errors = snap.errors
      BY <1>1 DEF Snaps
    <3>3. s.hist <= s.total /\ s.total <= s.hist + 1 /\ s.errors <= s.hist + 1
      BY <2>4, <3>2 DEF RunInv, SnapAgrees
    <3>4. snapshots' = Append(snapshots, s) /\ snap' = NoSnap /\ ticker' = "waiting"
      BY <2>4
    <3> HIDE DEF s
    <3>5. snapshots' \in Seq(Snaps)
      BY <1>1, <3>1, <3>4
    <3>6. CountTypeOK' /\ SnapAgrees'
      BY <1>1, <2>4, <3>1, <3>4, <3>5 DEF RunInv, CountTypeOK, SnapAgrees
    <3>7. ASSUME NEW k \in DOMAIN snapshots'
          PROVE  (k \in DOMAIN snapshots /\ snapshots'[k] = snapshots[k]) \/ snapshots'[k] = s
      BY <1>1, <3>1, <3>4
    <3>8. SnapshotSkew'
      BY <3>3, <3>7 DEF RunInv, SnapshotSkew
    <3> QED
      BY <3>6, <3>8
  <2>5. CASE TickerEnds
    BY <2>5, <1>1 DEF RunInv, CountTypeOK, SnapAgrees, SnapshotSkew
  <2> QED
    BY <2>1, <2>2, <2>3, <2>4, <2>5
<1> QED
  BY <1>5, <1>6, <1>8, <1>9, <1>10 DEF RunInv, TypeOK
-----------------------------------------------------------------------------
(* RunInv is inductive.                                                    *)
LEMMA RunStep == RunInv /\ [Next]_vars => RunInv'
<1> SUFFICES ASSUME RunInv, [Next]_vars PROVE RunInv'
  OBVIOUS
<1>1. CASE StartVUser
  BY <1>1, StartVUserKeepsInv
<1>2. CASE CtxEnds \/ StartReturns \/ JoinTicker \/ JoinPool
  BY <1>2, PhaseKeepsInv
<1>3. CASE Report
  BY <1>3, ReportKeepsInv
<1>4. ASSUME NEW i \in VUserIds, Request(i) \/ VUser(i)
      PROVE  RunInv'
  BY <1>4, LoopKeepsInv, RespondKeepsInv, HandOverKeepsInv DEF VUser
<1>5. CASE Take
  BY <1>5, TakeKeepsInv
<1>6. CASE CountRequest
  BY <1>6, CountRequestKeepsInv
<1>7. CASE CountWindow \/ CountError \/ CountValue
  BY <1>7, RecordKeepsInv
<1>8. CASE SnapTotal \/ Snapshot \/ TickerEnds
  BY <1>8, SnapshotKeepsInv
<1>9. CASE UNCHANGED vars
  <2> USE <1>9 DEF vars, poolVars, chanVars, snapVars, countVars
  <2>1. TypeOK'
    BY DEF RunInv, TypeOK, PoolTypeOK, ChanTypeOK, CountTypeOK
  <2>2. HandsMatch' /\ StartsInOrder' /\ NoSendOnClosed' /\ EndsInOrder'
    BY DEF RunInv, HandsMatch, StartsInOrder, NoSendOnClosed, Idle, EndsInOrder
  <2>3. CountsAgree' /\ SnapAgrees' /\ SnapshotSkew' /\ ReportIsFinal'
    BY DEF RunInv, CountsAgree, SnapAgrees, SnapshotSkew, ReportIsFinal
  <2>4. ResultsAccounted'
    BY DEF RunInv, ResultsAccounted, OnTheWay, Sending
  <2> QED
    BY <2>1, <2>2, <2>3, <2>4 DEF RunInv
<1> QED
  BY <1>1, <1>2, <1>3, <1>4, <1>5, <1>6, <1>7, <1>8, <1>9 DEF Next, Main, Recorder

(* RunInv holds throughout a run.                                          *)
THEOREM RunInvariant == Spec => []RunInv
BY InitRunInv, RunStep, PTL DEF Spec

(* The variables of a run keep their types, for any number of virtual users *)
(* and any size of the channel.                                            *)
THEOREM RunTypes == Spec => []TypeOK
<1>1. RunInv => TypeOK
  BY DEF RunInv
<1> QED
  BY <1>1, RunInvariant, PTL

(* resultCh is closed only after every virtual user has ended, also if the *)
(* ramp-up is cut short: no send on a closed channel, which would panic.   *)
THEOREM NobodySendsOnClosed == Spec => []NoSendOnClosed
<1>1. RunInv => NoSendOnClosed
  BY DEF RunInv
<1> QED
  BY <1>1, RunInvariant, PTL

(* Every result the client returned is counted once, on its way, or given  *)
(* up after the end of the run.                                            *)
THEOREM EveryResultAccounted == Spec => []ResultsAccounted
<1>1. RunInv => ResultsAccounted
  BY DEF RunInv
<1> QED
  BY <1>1, RunInvariant, PTL

(* The report has all results that were not given up, in the histogram as  *)
(* well as in the counts.                                                  *)
THEOREM ReportsAreFinal == Spec => []ReportIsFinal
<1>1. RunInv => ReportIsFinal
  BY DEF RunInv
<1> QED
  BY <1>1, RunInvariant, PTL

(* Though counters and histogram are read one by one while results are     *)
(* recorded, a snapshot is off by one result at most.                      *)
THEOREM SnapshotsAgree == Spec => []SnapshotSkew
<1>1. RunInv => SnapshotSkew
  BY DEF RunInv
<1> QED
  BY <1>1, RunInvariant, PTL
-----------------------------------------------------------------------------
(* While a result is in a hand or with the recorder, not all are counted.  *)
LEMMA OneMoreOnTheWay ==
    ASSUME RunInv, (\E i \in VUserIds : vu[i] = "sending") \/ recorder = "taken"
    PROVE  totalReqs + dropped < finished
<1> DEFINE m == Cardinality(Sending)  l == Len(resultCh)
           t == IF recorder = "taken" THEN 1 ELSE 0
<1>1. m \in Nat /\ l \in Nat /\ t \in Nat
  BY SendingIsFinite DEF RunInv, TypeOK, ChanTypeOK
<1>2. m > 0 \/ t > 0
  <2>1. CASE recorder = "taken"
    BY <2>1
  <2>2. ASSUME NEW i \in VUserIds, vu[i] = "sending" PROVE m > 0
    <3>1. Sending # {}
      BY <2>2 DEF Sending
    <3> QED
      BY <3>1, SendingIsFinite, FS_EmptySet
  <2> QED
    BY <2>1, <2>2
<1>3. finished = totalReqs + (m + l + t) + dropped
  BY DEF RunInv, ResultsAccounted, OnTheWay
<1>4. totalReqs \in Nat /\ dropped \in Nat
  BY DEF RunInv, TypeOK, PoolTypeOK, CountTypeOK
<1> HIDE DEF m, l, t
<1> QED
  BY <1>1, <1>2, <1>3, <1>4

(* A run implements ResultPipe: every step of Runner is a step of the pipe *)
(* or leaves it as it is.                                                  *)
THEOREM RunImplementsPipe == Spec => PipeSpec
<1>1. Init => Pipe!PipeInit
  BY DEF Init, Pipe!PipeInit
<1>2. RunInv /\ RunInv' /\ [Next]_vars => [Pipe!PipeNext]_Pipe!pipeVars
  <2> SUFFICES ASSUME RunInv, RunInv', [Next]_vars
               PROVE  Pipe!PipeNext \/ UNCHANGED Pipe!pipeVars
    OBVIOUS
  <2> USE DEF poolVars, chanVars, snapVars, countVars
  <2> USE DEF Pipe!pipeVars
  <2>1. CASE CtxEnds
    BY <2>1 DEF CtxEnds, Pipe!PipeNext, Pipe!End
  <2>2. CASE StartVUser \/ StartReturns \/ JoinTicker \/ JoinPool
    BY <2>2 DEF StartVUser, StartReturns, JoinTicker, JoinPool
  <2>3. CASE Report
    <3>1. report = <<>> /\ report' # <<>> /\ report'[1].total = totalReqs
      BY <2>3 DEF Report, RunInv, EndsInOrder
    <3>2. ctxDone
      BY <2>3 DEF Report, RunInv, EndsInOrder
    <3>3. totalReqs + dropped = finished
      <4>1. 1 \in DOMAIN report'
        BY <2>3 DEF Report
      <4>2. totalReqs = finished - dropped
        BY <3>1, <4>1, <2>3 DEF Report, RunInv, ReportIsFinal
      <4> QED
        BY <4>2 DEF RunInv, TypeOK, PoolTypeOK, CountTypeOK
    <3>4. Pipe!Publish
      BY <2>3, <3>1, <3>2, <3>3 DEF Report, Pipe!Publish
    <3> QED
      BY <3>4 DEF Pipe!PipeNext
  <2>4. ASSUME NEW i \in VUserIds, Request(i) \/ VUserEnds(i) \/ Send(i)
        PROVE  UNCHANGED Pipe!pipeVars
    BY <2>4 DEF Request, VUserEnds, Send
  <2>5. ASSUME NEW i \in VUserIds, Respond(i)
        PROVE  Pipe!Finish
    <3>1. report = <<>>
      BY <2>5 DEF Respond, RunInv, NoSendOnClosed, EndsInOrder, Idle
    <3> QED
      BY <2>5, <3>1 DEF Respond, Pipe!Finish
  <2>6. ASSUME NEW i \in VUserIds, GiveUp(i)
        PROVE  Pipe!Lose
    <3>1. report = <<>>
      BY <2>6 DEF GiveUp, RunInv, NoSendOnClosed, EndsInOrder, Idle
    <3>2. totalReqs + dropped < finished
      BY <2>6, OneMoreOnTheWay DEF GiveUp
    <3> QED
      BY <2>6, <3>1, <3>2 DEF GiveUp, MayGiveUp, Pipe!Lose
  <2>7. CASE CountRequest
    <3>1. report = <<>>
      BY <2>7 DEF CountRequest, RunInv, EndsInOrder
    <3>2. totalReqs + dropped < finished
      BY <2>7, OneMoreOnTheWay DEF CountRequest
    <3>3. Pipe!Count
      BY <2>7, <3>1, <3>2 DEF CountRequest, Pipe!Count
    <3> QED
      BY <3>3 DEF Pipe!PipeNext
  <2>8. CASE Take \/ CountWindow \/ CountError \/ CountValue
    BY <2>8 DEF Take, CountWindow, CountError, CountValue
  <2>9. CASE SnapTotal \/ Snapshot \/ TickerEnds
    BY <2>9 DEF SnapTotal, Snapshot, SnapErrors, SnapWindow, SnapHistogram, TickerEnds
  <2>10. CASE UNCHANGED vars
    BY <2>10 DEF vars
  <2> QED
    BY <2>1, <2>2, <2>3, <2>4, <2>5, <2>6, <2>7, <2>8, <2>9, <2>10
    DEF Next, Main, Recorder, VUser, Pipe!PipeNext
<1> QED
  BY <1>1, <1>2, RunInvariant, PTL DEF Spec, PipeSpec, Pipe!Spec
-----------------------------------------------------------------------------
(* The windows of the snapshots, and of one more.                          *)
LEMMA WindowsAdd ==
    ASSUME RunInv
    PROVE  /\ Windowed \in Nat
           /\ \A s \in Snaps : snapshots' = Append(snapshots, s) => Windowed' = Windowed + s.window
<1> DEFINE n == Len(snapshots)
           f == [k \in DOMAIN snapshots |-> snapshots[k].window]
<1>1. snapshots \in Seq(Snaps) /\ n \in Nat /\ DOMAIN snapshots = 1 .. n
  BY LenProperties DEF RunInv, TypeOK, CountTypeOK
<1>2. \A k \in 1 .. n : f[k] \in Nat /\ f[k] = snapshots[k].window
  <2>1. \A k \in 1 .. n : snapshots[k] \in Snaps
    BY <1>1, ElementOfSeq
  <2> QED
    BY <1>1, <2>1 DEF Snaps
<1> HIDE DEF f
<1>3. IsFiniteSet(1 .. n)
  BY <1>1, FS_Interval
<1>4. SumFunctionOnSet(f, 1 .. n) \in Nat
  BY ONLY <1>2, <1>3, SumType
<1>5. Windowed = SumFunctionOnSet(f, 1 .. n)
  BY <1>1 DEF Windowed, f
<1>6. ASSUME NEW s \in Snaps, snapshots' = Append(snapshots, s)
      PROVE  Windowed' = Windowed + s.window
  <2> DEFINE g == [k \in DOMAIN snapshots' |-> snapshots'[k].window]
             m == n + 1
             S == 1 .. m
  <2>1. /\ DOMAIN snapshots' = S /\ snapshots'[m] = s
        /\ \A k \in 1 .. n : snapshots'[k] = snapshots[k]
    <3>1. /\ Append(snapshots, s) \in Seq(Snaps) /\ Len(Append(snapshots, s)) = n + 1
          /\ \A k \in 1 .. n : Append(snapshots, s)[k] = snapshots[k]
          /\ Append(snapshots, s)[n + 1] = s
      BY <1>1, AppendProperties
    <3>2. DOMAIN Append(snapshots, s) = 1 .. n + 1
      BY <3>1, LenProperties
    <3> QED
      BY <1>6, <3>1, <3>2
  <2>2. /\ m \in S /\ S \ {m} = 1 .. n
        /\ \A k \in S : k = m \/ k \in 1 .. n
    BY <1>1
  <2>3. s.window \in Nat
    BY DEF Snaps
  <2>4. /\ \A k \in S : g[k] \in Nat
        /\ \A k \in 1 .. n : g[k] = f[k]
        /\ g[m] = s.window
    BY <1>2, <2>1, <2>2, <2>3
  <2>5. Windowed' = SumFunctionOnSet(g, S)
    BY <2>1 DEF Windowed
  <2>6. IsFiniteSet(S)
    BY <1>1, FS_Interval
  <2> HIDE DEF g, m, S
  <2>7. SumFunctionOnSet(g, S) = g[m] + SumFunctionOnSet(g, S \ {m})
    BY ONLY <2>2, <2>4, <2>6, SumTakesOut
  <2>8. SumFunctionOnSet(f, 1 .. n) = SumFunctionOnSet(g, 1 .. n)
    BY ONLY <1>2, <1>3, <2>4, SumOfEquals
  <2> QED
    <3>1. SumFunctionOnSet(g, S) = s.window + SumFunctionOnSet(f, 1 .. n)
      BY ONLY <2>2, <2>4, <2>7, <2>8
    <3> QED
      BY ONLY <1>4, <1>5, <2>3, <2>5, <3>1
<1> QED
  BY <1>4, <1>5, <1>6

(* A request is counted, then in the window, then in one snapshot, which   *)
(* has nothing in it before the window is swapped.                         *)
WindowInv ==
    /\ ticker # "window" => snap.window = 0
    /\ WindowsPartition

LEMMA WindowStep == RunInv /\ WindowInv /\ [Next]_vars => WindowInv'
<1> SUFFICES ASSUME RunInv, WindowInv, [Next]_vars PROVE WindowInv'
  OBVIOUS
<1>a. /\ totalReqs \in Nat /\ windowReqs \in Nat /\ snap \in Snaps /\ snap.window \in Nat
      /\ Windowed \in Nat
  BY WindowsAdd DEF RunInv, TypeOK, CountTypeOK, Snaps
<1>b. snapshots' = snapshots => Windowed' = Windowed
  BY DEF Windowed
<1>1. CASE UNCHANGED <<snapshots, snap, ticker, totalReqs, windowReqs>>
           /\ (recorder' = "counted" <=> recorder = "counted")
  BY <1>1, <1>b DEF WindowInv, WindowsPartition
<1>2. CASE StartVUser \/ CtxEnds \/ StartReturns \/ JoinTicker \/ JoinPool \/ Report
  BY <1>1, <1>2 DEF StartVUser, CtxEnds, StartReturns, JoinTicker, JoinPool, Report, snapVars, countVars
<1>3. ASSUME NEW i \in VUserIds, Request(i) \/ VUser(i) PROVE WindowInv'
  BY <1>1, <1>3 DEF Request, VUser, VUserEnds, Respond, Send, GiveUp, snapVars, countVars
<1>4. CASE Take \/ CountError \/ CountValue
  BY <1>1, <1>4 DEF Take, CountError, CountValue, snapVars, countVars
<1>5. CASE CountRequest
  BY <1>5, <1>a, <1>b DEF CountRequest, snapVars, WindowInv, WindowsPartition
<1>6. CASE CountWindow
  BY <1>6, <1>a, <1>b DEF CountWindow, snapVars, WindowInv, WindowsPartition
<1>7. CASE SnapTotal
  BY <1>7, <1>b DEF SnapTotal, NoSnap, countVars, WindowInv, WindowsPartition
<1>8. CASE SnapErrors
  <2>1. snap'.window = snap.window
    BY <1>8, <1>a DEF SnapErrors, Snaps
  <2> QED
    BY <1>8, <1>b, <2>1 DEF SnapErrors, countVars, WindowInv, WindowsPartition
<1>9. CASE SnapWindow
  <2>1. snap'.window = windowReqs /\ snap.window = 0
    BY <1>9, <1>a DEF SnapWindow, Snaps, WindowInv
  <2>2. /\ windowReqs' = 0 /\ UNCHANGED <<snapshots, totalReqs, recorder>> /\ ticker' = "window"
    BY <1>9 DEF SnapWindow
  <2> QED
    BY <1>a, <1>b, <2>1, <2>2 DEF WindowInv, WindowsPartition
<1>10. CASE SnapHistogram
  <2> DEFINE s == [snap EXCEPT !.hist = histogram]
  <2>1. s \in Snaps /\ s.window = snap.window
    BY <1>a DEF Snaps, RunInv, TypeOK, CountTypeOK
  <2>2. /\ snapshots' = Append(snapshots, s) /\ snap'.window = 0
        /\ UNCHANGED <<totalReqs, windowReqs, recorder>>
    BY <1>10 DEF SnapHistogram, NoSnap, countVars
  <2> HIDE DEF s
  <2>3. Windowed' = Windowed + snap.window
    BY <2>1, <2>2, WindowsAdd
  <2> QED
    BY <1>a, <2>2, <2>3 DEF WindowInv, WindowsPartition
<1>11. CASE TickerEnds
  BY <1>11, <1>b DEF TickerEnds, countVars, WindowInv, WindowsPartition
<1>12. CASE UNCHANGED vars
  BY <1>1, <1>12 DEF vars, snapVars, countVars
<1> QED
  BY <1>2, <1>3, <1>4, <1>5, <1>6, <1>7, <1>8, <1>9, <1>10, <1>11, <1>12
  DEF Next, Main, Recorder, Snapshot

(* The windows of the snapshots, and of the one to come, have each request *)
(* that was counted once: the rates add up to the total.                   *)
THEOREM WindowsAddUp == Spec => []WindowsPartition
<1>1. Init => WindowInv
  <2>1. ASSUME Init PROVE Windowed = 0
    <3>1. DOMAIN snapshots = {}
      <4>1. snapshots \in Seq({}) /\ Len(snapshots) = 0
        BY <2>1, EmptySeq DEF Init
      <4> QED
        BY ONLY <4>1, LenProperties
    <3> DEFINE f == [k \in DOMAIN snapshots |-> snapshots[k].window]
    <3>2. SumFunctionOnSet(f, {}) = 0
      BY FS_EmptySet, SumUnfolds
    <3> QED
      BY <3>1, <3>2 DEF Windowed
  <2>2. Init => snap.window = 0 /\ windowReqs = 0 /\ totalReqs = 0 /\ recorder = "idle"
    BY DEF Init, NoSnap
  <2> QED
    BY <2>1, <2>2 DEF WindowInv, WindowsPartition
<1>2. WindowInv => WindowsPartition
  BY DEF WindowInv
<1> QED
  BY <1>1, <1>2, WindowStep, RunInvariant, PTL DEF Spec
-----------------------------------------------------------------------------
(* Before the run its context is not done and no request is made; what is  *)
(* written are formats that are known, and none before the verdict.        *)
CommandInv ==
    /\ cmd \in {"loading", "loaded", "overridden"} => ctxDone = FALSE /\ made = 0
    /\ cmd \notin {"exited", "panicked"} => exit = -1
    /\ asked \in Seq(STRING) /\ written \in 0 .. Len(asked)
    /\ \A k \in 1 .. written : asked[k] \in {"json", "html"}
    /\ cmd \notin {"reporting", "exited"} => written = 0
    /\ ReportsBeforeVerdict

(* A command starts with nothing done.                                     *)
LEMMA InitCommandInv == CmdInit => CommandInv
<1> SUFFICES ASSUME CmdInit PROVE CommandInv
  OBVIOUS
<1>1. /\ ctxDone = FALSE /\ made = 0 /\ exit = -1 /\ cmd = "loading"
      /\ asked = <<>> /\ written = 0
  BY DEF CmdInit, Init
<1>2. asked \in Seq(STRING) /\ Len(asked) = 0
  BY <1>1, EmptySeq
<1> QED
  BY <1>1, <1>2 DEF CommandInv, ReportsBeforeVerdict

(* The steps up to the verdict write nothing.                              *)
LEMMA BeforeReportsKeepsInv ==
    ASSUME CommandInv, Load \/ Override \/ StartRun \/ Evaluate \/ Running(Next)
    PROVE  CommandInv'
<1> USE DEF Load, Override, StartRun, Evaluate, Running, Exit, vars, poolVars, cmdVars
<1>1. /\ UNCHANGED <<asked, written>> /\ written = 0
      /\ cmd \notin {"reporting", "exited", "panicked"}
  BY DEF CommandInv
<1>2. /\ cmd' \in {"loading", "loaded", "overridden"} => ctxDone' = FALSE /\ made' = 0
      /\ cmd' \notin {"exited", "panicked"} => exit' = -1
      /\ cmd' # "reporting"
  BY DEF CommandInv
<1>3. ReportsBeforeVerdict'
  <2>1. exit' \in {-1, 2, 3} /\ (exit' = 2 => made' = 0)
    BY DEF CommandInv
  <2> QED
    BY <2>1 DEF ReportsBeforeVerdict
<1> QED
  BY <1>1, <1>2, <1>3 DEF CommandInv

(* The steps that write reports, and the exit.                             *)
LEMMA ReportsKeepInv ==
    ASSUME CommandInv, BeginReports \/ WriteReport \/ ExitWithVerdict
    PROVE  CommandInv'
<1> USE DEF Exit, vars, poolVars, cmdVars
<1>1. asked \in Seq(STRING) /\ Len(asked) \in Nat /\ written \in 0 .. Len(asked) /\ written \in Nat
  BY DEF CommandInv
<1>2. CASE BeginReports
  <2>1. /\ asked' \in FormatLists /\ written' = 0 /\ written = 0
        /\ \/ cmd' = "reporting" /\ exit' = -1
           \/ asked' # <<>> /\ cmd' = "exited" /\ exit' = 99
    BY <1>2 DEF BeginReports, CommandInv
  <2>2. asked' \in Seq(STRING) /\ Len(asked') \in Nat /\ (asked' # <<>> => Len(asked') > 0)
    BY <2>1, FormatsAssumption, EmptySeq, LenProperties
  <2> QED
    BY <2>1, <2>2 DEF CommandInv, ReportsBeforeVerdict
<1>3. CASE WriteReport
  <2>1. /\ asked' = asked /\ cmd = "reporting" /\ exit = -1 /\ written < Len(asked)
        /\ \/ written' = written /\ cmd' = "exited" /\ exit' = 99
           \/ /\ written' = written + 1 /\ cmd' = cmd /\ exit' = exit
              /\ asked[written + 1] \in {"json", "html"}
    BY <1>3 DEF WriteReport, generateJSON, generateHTML, UnknownFormat, Format, Fails, CommandInv
  <2>2. asked # <<>>
    BY <1>1, <2>1, EmptySeq
  <2>3. written' \in 0 .. Len(asked) /\ \A k \in 1 .. written' : asked[k] \in {"json", "html"}
    BY <1>1, <2>1 DEF CommandInv
  <2> QED
    BY <1>1, <2>1, <2>2, <2>3 DEF CommandInv, ReportsBeforeVerdict
<1>4. CASE ExitWithVerdict
  <2>1. /\ asked' = asked /\ written' = written /\ written = Len(asked)
        /\ cmd' = "exited" /\ exit' \in {0, 1}
    BY <1>4 DEF ExitWithVerdict, ExitCode
  <2>2. DOMAIN asked = 1 .. Len(asked)
    BY <1>1, LenProperties
  <2> QED
    BY <1>1, <2>1, <2>2 DEF CommandInv, ReportsBeforeVerdict
<1> QED
  BY <1>2, <1>3, <1>4

(* CommandInv holds throughout a command.                                  *)
THEOREM CommandInvariant == CmdSpec => []CommandInv
<1>1. CommandInv /\ [CmdNext]_allVars => CommandInv'
  <2> SUFFICES ASSUME CommandInv, [CmdNext]_allVars PROVE CommandInv'
    OBVIOUS
  <2>1. CASE UNCHANGED allVars
    BY <2>1 DEF allVars, vars, poolVars, cmdVars, CommandInv, ReportsBeforeVerdict
  <2> QED
    BY <2>1, BeforeReportsKeepsInv, ReportsKeepInv DEF CmdNext, Command
<1> QED
  BY <1>1, InitCommandInv, PTL DEF CmdSpec

(* A command takes only steps of the runner: what is proved of Spec holds  *)
(* of a run that `omnitest run` starts, also if its duration is over       *)
(* before it begins.                                                       *)
THEOREM CommandRunsTheRunner == CmdSpec => Spec
<1>1. CmdInit => Init
  BY DEF CmdInit
<1>2. CommandInv /\ [CmdNext]_allVars => [Next]_vars
  <2> SUFFICES ASSUME CommandInv, [CmdNext]_allVars PROVE Next \/ UNCHANGED vars
    OBVIOUS
  <2>1. CASE StartRun
    <3>1. ctxDone = FALSE
      BY <2>1 DEF StartRun, CommandInv
    <3>2. CASE ctxDone' = ctxDone
      BY <2>1, <3>2 DEF StartRun, vars
    <3>3. CASE ctxDone' # ctxDone
      <4>1. ctxDone' = TRUE
        <5> DEFINE over == cfg.scenarios[1].duration <= 0
        <5>1. ctxDone' = over
          BY <2>1, <3>3 DEF StartRun
        <5>2. over = TRUE \/ over = FALSE
          OBVIOUS
        <5> HIDE DEF over
        <5> QED
          BY <5>1, <5>2, <3>1, <3>3
      <4>2. CtxEnds
        BY <2>1, <3>1, <4>1 DEF StartRun, CtxEnds
      <4> QED
        BY <4>2 DEF Next
    <3> QED
      BY <3>2, <3>3
  <2>2. CASE Running(Next)
    BY <2>2 DEF Running
  <2>3. CASE Load \/ Override \/ Evaluate \/ BeginReports \/ ExitWithVerdict
    BY <2>3 DEF Load, Override, Evaluate, BeginReports, ExitWithVerdict
  <2>4. CASE WriteReport
    BY <2>4 DEF WriteReport, generateJSON, generateHTML, UnknownFormat, Format
  <2>5. CASE UNCHANGED allVars
    BY <2>5 DEF allVars
  <2> QED
    BY <2>1, <2>2, <2>3, <2>4, <2>5 DEF CmdNext, Command
<1> QED
  BY <1>1, <1>2, CommandInvariant, PTL DEF CmdSpec, Spec

(* Exit codes 0 and 1 are given only with every report written, an error   *)
(* while they are written is not a verdict, and a configuration error is   *)
(* found before the first request.                                         *)
THEOREM VerdictComesLast == CmdSpec => []ReportsBeforeVerdict
<1>1. CommandInv => ReportsBeforeVerdict
  BY DEF CommandInv
<1> QED
  BY <1>1, CommandInvariant, PTL

(* So the invariants of a run hold of every command.                       *)
THEOREM CommandKeepsRunInv ==
    CmdSpec => [](/\ ResultsAccounted /\ ReportIsFinal /\ NoSendOnClosed
                  /\ SnapshotSkew /\ WindowsPartition)
<1>1. RunInv => ResultsAccounted /\ ReportIsFinal /\ NoSendOnClosed /\ SnapshotSkew
  BY DEF RunInv
<1> QED
  BY <1>1, CommandRunsTheRunner, RunInvariant, WindowsAddUp, PTL
-----------------------------------------------------------------------------
(* Comparing with a thousandth more or less than the value matters only    *)
(* when value and limit are equal.                                         *)
LEMMA RoundingMattersWhenEqual ==
    ASSUME NEW x \in Int, NEW y \in Int, NEW u \in -1 .. 1, NEW op, x # y \/ u = 0
    PROVE  Compare(op, 1000 * x + u, 1000 * y) <=> Compare(op, x, y)
BY DEF Compare

(* The bucket of a latency is small beside it.                             *)
LEMMA BucketsAreNarrow ==
    ASSUME NEW us \in Nat, NEW u \in WidthsOf(us)
    PROVE  /\ Percentile(us, u) \in Nat
           /\ us <= Percentile(us, u) /\ Percentile(us, u) <= us + Resolution(us)
<1>1. u \in Nat \ {0} /\ (u = 1 \/ 1024 * u <= us)
  BY SMT DEF WidthsOf, Widths
<1>2. us % u \in 0 .. u - 1
  BY <1>1
<1>3. us \div 1024 \in Nat /\ u - 1 <= us \div 1024
  BY <1>1
<1> QED
  BY <1>1, <1>2, <1>3 DEF Percentile, Resolution

(* What the histogram reports is within its resolution of the latency.     *)
LEMMA ReportedIsClose ==
    ASSUME NEW us \in Nat, NEW reported \in Reported(us), NEW metric \in Latencies
    PROVE  /\ reported[metric] \in Nat
           /\ us <= reported[metric] + Resolution(us)
           /\ reported[metric] <= us + Resolution(us)
<1>1. PICK mean \in Means(us), u \in WidthsOf(us) :
         reported = [m \in Latencies |-> IF m = "avg" THEN mean ELSE Percentile(us, u)]
  BY DEF Reported
<1>2. CASE metric = "avg"
  <2>1. reported[metric] = mean
    BY <1>1, <1>2
  <2>2. mean \in Nat /\ us - us \div 2048 - 1 <= mean /\ mean <= us + us \div 2048
    BY DEF Means
  <2>3. us \div 2048 \in Nat /\ us \div 1024 \in Nat /\ us \div 2048 <= us \div 1024
    OBVIOUS
  <2> QED
    BY <2>1, <2>2, <2>3 DEF Resolution
<1>3. CASE metric # "avg"
  <2>1. reported[metric] = Percentile(us, u)
    BY <1>1, <1>3
  <2>2. Resolution(us) \in Nat
    BY DEF Resolution
  <2> QED
    BY <2>1, <2>2, BucketsAreNarrow
<1> QED
  BY <1>2, <1>3

(* The verdict on a condition of the documented form is what the condition *)
(* says of what happened, but on the edge.                                 *)
LEMMA PassedMeansHolds ==
    ASSUME NEW t, WellWritten(t), t.condition.number \in Int,
           NEW total \in Nat, NEW errors \in 0 .. total, NEW us \in Nat, NEW ulp \in -1 .. 1,
           NEW reported \in Reported(us),
           NEW result, result = [total |-> total, errors |-> errors, latency |-> reported],
           NEW truth, truth = [total |-> total, errors |-> errors,
                               latency |-> [metric \in Latencies |-> us]],
           ~OnTheEdge(t, truth)
    PROVE  Passed(t, result, ulp) <=> Holds(t, truth)
<1> DEFINE c == t.condition
           e == IF IsRounded(c) \/ IsProduct(t.metric, result) THEN ulp ELSE 0
<1>1. t.metric \in Metrics /\ c.number \in Int /\ Limit(c) \in Int /\ e \in -1 .. 1
  <2>1. c.number \in Int
    OBVIOUS
  <2>2. Limit(c) = 1000 * c.number \/ Limit(c) = c.number
    BY DEF Limit
  <2>3. Limit(c) \in Int
    BY <2>1, <2>2
  <2>4. e = ulp \/ e = 0
    OBVIOUS
  <2>5. e \in -1 .. 1
    BY <2>4
  <2>6. t.metric \in Metrics
    BY DEF WellWritten
  <2> HIDE DEF e
  <2> QED
    BY <2>1, <2>3, <2>5, <2>6
<1>2. Passed(t, result, ulp) <=>
        Compare(c.op, 1000 * Actual(t.metric, result).num + e,
                      1000 * (Limit(c) * Actual(t.metric, result).den))
  BY <1>1 DEF Passed, EvaluateCondition
<1>3. /\ result.total = total /\ result.errors = errors /\ result.latency = reported
      /\ truth.total = total /\ truth.errors = errors
      /\ \A x \in Latencies : truth.latency[x] = us
  OBVIOUS
<1>4. CASE t.metric \in Latencies
  <2>1. c.unit \in {"ms", "s"} /\ Limit(c) % 1000 = 0 /\ t.metric \notin {"failed", "reqs"}
    BY <1>4 DEF WellWritten, Latencies
  <2>2. Limit(c) = IF c.unit = "s" THEN 1000 * c.number ELSE c.number
    BY <2>1 DEF Limit
  <2> DEFINE seen == reported[t.metric]
             r == Resolution(us)
             late == IF c.op \in {"<=", ">"} \/ IsRounded(c) THEN 1000 ELSE 0
  <2>3. Actual(t.metric, result) = [num |-> 1000 * Milli(seen), den |-> 1]
    BY <1>3, <1>4, <2>1 DEF Actual
  <2>4. Holds(t, truth) <=> Compare(c.op, us, Limit(c))
    BY <1>3, <1>4, <2>1, <2>2 DEF Holds
  <2>5. seen \in Nat /\ us <= seen + r /\ seen <= us + r /\ r \in Nat
    BY <1>4, ReportedIsClose DEF Resolution
  <2>6. ~(Limit(c) <= us + r /\ us < Limit(c) + late + r)
    <3>1. truth.latency[t.metric] = us
      BY <1>3, <1>4
    <3> QED
      BY <1>4, <3>1 DEF OnTheEdge
  <2>7. late \in {0, 1000} /\ (c.op \in {"<=", ">"} \/ e # 0 => late = 1000)
    <3>1. e # 0 => IsRounded(c)
      BY <2>1 DEF IsProduct
    <3> QED
      BY <3>1
  <2>8. Passed(t, result, ulp) <=> Compare(c.op, 1000 * (1000 * Milli(seen)) + e, 1000 * Limit(c))
    <3>1. Limit(c) * 1 = Limit(c)
      BY <1>1
    <3> QED
      BY <1>2, <2>3, <3>1
  <2> DEFINE lim == Limit(c)
             op == c.op
  <2> HIDE DEF seen, r, late, e
  <2>9. /\ lim \in Int /\ lim % 1000 = 0 /\ e \in -1 .. 1
        /\ us + r < lim \/ lim + r <= us
        /\ op \in {"<=", ">"} \/ e # 0 => us + r < lim \/ lim + 1000 + r <= us
    BY <1>1, <2>1, <2>5, <2>6, <2>7
  <2> HIDE DEF lim, op
  (* Off the edge, what is reported is on the side of the limit that it was. *)
  <2>10. Compare(op, 1000 * (1000 * Milli(seen)) + e, 1000 * lim) <=> Compare(op, us, lim)
    <3>1. PICK q \in Int : lim = 1000 * q
      BY <2>9
    <3>2. PICK n \in Int, m \in 0 .. 999 : seen = 1000 * n + m /\ Milli(seen) = n
      BY <2>5 DEF Milli
    <3>3. CASE us + r < lim
      <4>1. seen < lim /\ us < lim
        BY <2>5, <2>9, <3>3
      <4>2. n + 1 <= q
        BY <3>1, <3>2, <4>1
      <4> QED
        BY <2>9, <3>1, <3>2, <4>1, <4>2 DEF Compare
    <3>4. CASE op \in {"<=", ">"} \/ e # 0
      <4>1. us + r < lim \/ lim + 1000 + r <= us
        BY <2>9, <3>4
      <4>2. CASE lim + 1000 + r <= us
        <5>1. lim + 1000 <= seen /\ lim < us
          BY <2>5, <2>9, <4>2
        <5>2. q + 1 <= n
          BY <3>1, <3>2, <5>1
        <5> QED
          BY <2>9, <3>1, <3>2, <5>1, <5>2 DEF Compare
      <4> QED
        BY <3>3, <4>1, <4>2
    <3>5. CASE op \notin {"<=", ">"} /\ e = 0
      <4>1. CASE lim + r <= us
        <5>1. lim <= seen /\ lim <= us
          BY <2>5, <2>9, <4>1
        <5>2. q <= n
          BY <3>1, <3>2, <5>1
        <5> QED
          BY <3>1, <3>2, <3>5, <5>1, <5>2 DEF Compare
      <4> QED
        BY <2>9, <3>3, <4>1
    <3> QED
      BY <3>3, <3>4, <3>5
  <2> QED
    BY <2>4, <2>8, <2>10 DEF lim, op
<1>5. CASE t.metric = "reqs"
  <2>1. Actual(t.metric, result) = [num |-> 1000 * total, den |-> 1]
    BY <1>3, <1>5 DEF Actual
  <2>2. c.unit = ""
    BY <1>5 DEF WellWritten
  <2>3. Limit(c) = c.number /\ e = 0
    BY <1>5, <2>2 DEF Limit, IsRounded, IsProduct
  <2>4. c.number * 1 = c.number
    BY <1>1
  <2>5. Holds(t, truth) <=> Compare(c.op, 1000 * total, c.number)
    BY <1>3, <1>5 DEF Holds
  <2>6. Passed(t, result, ulp) <=> Compare(c.op, 1000 * (1000 * total) + 0, 1000 * c.number)
    BY <1>2, <2>1, <2>3, <2>4
  <2> QED
    BY <1>1, <2>5, <2>6, RoundingMattersWhenEqual
<1>6. CASE t.metric = "failed"
  <2>1. Limit(c) = c.number /\ ~IsRounded(c)
    BY <1>1, <1>6 DEF WellWritten, Limit, IsRounded
  <2>2. CASE total = 0
    <3>1. Actual(t.metric, result) = [num |-> 0, den |-> 1]
      BY <1>3, <1>6, <2>2 DEF Actual
    <3>2. Holds(t, truth) <=> Compare(c.op, 0, c.number)
      BY <1>3, <1>6, <2>2 DEF Holds
    <3>3. Passed(t, result, ulp) <=> Compare(c.op, 1000 * 0 + e, 1000 * c.number)
      <4>1. c.number * 1 = c.number
        BY <1>1
      <4> QED
        BY <1>2, <2>1, <3>1, <4>1
    <3>4. e = 0
      BY <1>3, <2>1, <2>2 DEF IsProduct
    <3> HIDE DEF e
    <3> QED
      BY <1>1, <3>2, <3>3, <3>4, RoundingMattersWhenEqual
  <2>3. CASE total > 0
    <3> DEFINE x == 100000 * errors
               y == c.number * total
    <3>1. Actual(t.metric, result) = [num |-> x, den |-> total]
      BY <1>3, <1>6, <2>3 DEF Actual
    <3>2. x \in Int /\ y \in Int /\ e \in -1 .. 1
      BY <1>1
    <3>3. Holds(t, truth) <=> Compare(c.op, x, y)
      BY <1>3, <1>6, <2>3 DEF Holds
    <3>4. x # y \/ e = 0
      <4>1. e # 0 => errors \notin {0, total}
        BY <1>3, <2>1 DEF IsProduct
      <4> QED
        BY <1>3, <1>6, <4>1 DEF OnTheEdge
    <3>5. Passed(t, result, ulp) <=> Compare(c.op, 1000 * x + e, 1000 * y)
      BY <1>2, <2>1, <3>1
    <3> HIDE DEF x, y, e
    <3> QED
      BY <3>2, <3>3, <3>4, <3>5 DEF Compare
  <2> QED
    BY <2>2, <2>3
<1> QED
  BY <1>1, <1>4, <1>5, <1>6 DEF Metrics

(* A verdict was given on the report of a run that is done, which nothing  *)
(* changes any more, and the exit code follows from the verdicts.          *)
VerdictInv ==
    LET ts == judged.thresholds IN
      /\ cmd \notin {"judged", "reporting", "exited"} => judged = NotJudged /\ verdicts = <<>>
      /\ judged.latency \in Nat
      /\ DOMAIN verdicts = DOMAIN ts
      /\ \A k \in DOMAIN ts :
            /\ main = "done"
            /\ ts[k].condition.number \in Int
            /\ \E reported \in Reported(judged.latency), ulp \in -1 .. 1 :
                  verdicts[k] = Passed(ts[k], Result(reported), ulp)
      /\ exit = 0 => \A k \in DOMAIN ts : verdicts[k]
      /\ exit = 1 => \E k \in DOMAIN ts : ~verdicts[k]

LEMMA OnlyElement ==
    ASSUME NEW S, NEW s \in Seq(S), Len(s) = 1
    PROVE  1 \in DOMAIN s /\ s[1] \in S
BY LenProperties, ElementOfSeq

(* VerdictInv holds throughout a command.                                  *)
LEMMA VerdictInvariant == CmdSpec => []VerdictInv
<1>1. CmdInit => VerdictInv
  BY EmptySeq DEF CmdInit, NotJudged, VerdictInv
<1>2. CommandInv /\ VerdictInv /\ [CmdNext]_allVars => VerdictInv'
  <2> SUFFICES ASSUME CommandInv, VerdictInv, [CmdNext]_allVars PROVE VerdictInv'
    OBVIOUS
  <2> USE DEF Exit, cmdVars
  <2>1. CASE Evaluate
    <3>0. PICK ts \in ThresholdLists, latency \in LatencyValues :
             /\ judged' = [thresholds |-> ts, latency |-> latency]
             /\ \E reported \in Reported(latency), ulps \in [DOMAIN ts -> -1 .. 1] :
                   verdicts' = [k \in DOMAIN ts |-> Passed(ts[k], Result(reported), ulps[k])]
      BY <2>1 DEF Evaluate
    <3>1. PICK reported \in Reported(latency), ulps \in [DOMAIN ts -> -1 .. 1] :
             verdicts' = [k \in DOMAIN ts |-> Passed(ts[k], Result(reported), ulps[k])]
      BY <3>0
    <3>2. main' = "done" /\ report' = report /\ cmd' = "judged" /\ exit' = -1
      BY <2>1 DEF Evaluate, vars, CommandInv
    <3>3. judged'.thresholds = ts /\ judged'.latency = latency /\ latency \in Nat
      <4>1. latency \in Nat
        BY LatencyAssumption
      <4>2. judged' = [thresholds |-> ts, latency |-> latency]
        BY <3>0
      <4> QED
        BY <4>1, <4>2
    <3>4. DOMAIN verdicts' = DOMAIN ts
      BY <3>1
    <3>5. ASSUME NEW k \in DOMAIN ts
          PROVE  \E rep \in Reported(latency), ulp \in -1 .. 1 :
                    verdicts'[k] = Passed(ts[k], Result(rep)', ulp)
      <4>1. Result(reported)' = Result(reported)
        BY <3>2 DEF Result
      <4>2. verdicts'[k] = Passed(ts[k], Result(reported), ulps[k]) /\ ulps[k] \in -1 .. 1
        BY <3>1
      <4> QED
        BY <4>1, <4>2
    <3> QED
      BY <3>2, <3>3, <3>4, <3>5, ThresholdsAssumption DEF VerdictInv
  <2>2. CASE Load \/ Override \/ StartRun \/ Running(Next)
    <3>1. /\ judged' = judged /\ verdicts' = verdicts
          /\ cmd \notin {"judged", "reporting", "exited"}
          /\ exit' \in {-1, 2, 3}
      BY <2>2 DEF Load, Override, StartRun, Running, CommandInv
    <3>2. judged = NotJudged /\ verdicts = <<>> /\ DOMAIN judged.thresholds = {}
      BY <3>1 DEF VerdictInv, NotJudged
    <3>3. judged'.latency \in Nat /\ DOMAIN verdicts' = DOMAIN judged'.thresholds
      BY <3>1 DEF VerdictInv
    <3> QED
      BY <3>1, <3>2, <3>3 DEF VerdictInv
  <2>3. CASE BeginReports \/ WriteReport \/ ExitWithVerdict
    <3>1. /\ UNCHANGED <<main, report, judged, verdicts>>
          /\ cmd \in {"judged", "reporting"} /\ cmd' \in {"reporting", "exited"}
      BY <2>3 DEF BeginReports, WriteReport, ExitWithVerdict, generateJSON, generateHTML,
                  UnknownFormat, Format, Fails, vars
    <3>2. exit' \in {-1, 99} \/ exit' = ExitCode
      BY <2>3 DEF BeginReports, WriteReport, ExitWithVerdict, generateJSON, generateHTML,
                  UnknownFormat, Format, Fails, CommandInv
    <3>3. /\ exit' = 0 => \A k \in DOMAIN verdicts : verdicts[k]
          /\ exit' = 1 => \E k \in DOMAIN verdicts : ~verdicts[k]
      BY <3>2 DEF ExitCode
    <3>4. \A reported : Result(reported)' = Result(reported)
      BY <3>1 DEF Result
    <3> QED
      BY <3>1, <3>3, <3>4 DEF VerdictInv
  <2>4. CASE UNCHANGED allVars
    BY <2>4 DEF allVars, vars, VerdictInv, Result
  <2> QED
    BY <2>1, <2>2, <2>3, <2>4 DEF CmdNext, Command
<1> QED
  BY <1>1, <1>2, CommandInvariant, PTL DEF CmdSpec

(* The exit code tells what happened in the run, whatever the interleaving *)
(* of its goroutines: 0 if every threshold of the documented form held of  *)
(* the results, 1 if one did not, but for those on the edge.               *)
THEOREM ExitCodeTellsTheRun == CmdSpec => []ExitTellsTheRun
<1>1. VerdictInv /\ RunInv => ExitTellsTheRun
  <2> SUFFICES ASSUME VerdictInv, RunInv PROVE ExitTellsTheRun
    OBVIOUS
  <2> DEFINE ts == judged.thresholds
  <2>1. ASSUME NEW k \in DOMAIN ts, WellWritten(ts[k]), ~OnTheEdge(ts[k], Truth)
        PROVE  verdicts[k] <=> Holds(ts[k], Truth)
    <3>1. PICK reported \in Reported(judged.latency), ulp \in -1 .. 1 :
             verdicts[k] = Passed(ts[k], Result(reported), ulp)
      BY DEF VerdictInv
    <3>2. main = "done" /\ ts[k].condition.number \in Int /\ judged.latency \in Nat
      BY DEF VerdictInv
    <3>3. report \in Seq([total : Nat, errors : Nat, hist : Nat]) /\ Len(report) = 1
      BY <3>2 DEF RunInv, TypeOK, ChanTypeOK, EndsInOrder
    <3>4. 1 \in DOMAIN report /\ report[1] \in [total : Nat, errors : Nat, hist : Nat]
      BY <3>3, OnlyElement
    <3>5. /\ report[1].total \in Nat /\ report[1].errors \in 0 .. report[1].total
          /\ report[1].total = finished - dropped /\ report[1].errors = totalErrors
      BY <3>4 DEF RunInv, ReportIsFinal
    <3>6. /\ Result(reported) = [total |-> report[1].total, errors |-> report[1].errors,
                                 latency |-> reported]
          /\ Truth = [total |-> report[1].total, errors |-> report[1].errors,
                      latency |-> [metric \in Latencies |-> judged.latency]]
      BY <3>5 DEF Result, Truth
    <3>7. Passed(ts[k], Result(reported), ulp) <=> Holds(ts[k], Truth)
      BY <2>1, <3>2, <3>5, <3>6, PassedMeansHolds
    <3> QED
      BY <3>1, <3>7
  <2>2. /\ exit = 0 => \A k \in DOMAIN ts : verdicts[k]
        /\ exit = 1 => \E k \in DOMAIN ts : ~verdicts[k]
    BY DEF VerdictInv
  <2> QED
    BY <2>1, <2>2 DEF ExitTellsTheRun
<1> QED
  BY <1>1, VerdictInvariant, CommandRunsTheRunner, RunInvariant, PTL
-----------------------------------------------------------------------------
(* A scenario that loads names one target, and virtual users to start; the *)
(* flags change neither.                                                   *)
LEMMA LoadedIsRunnable ==
    ASSUME NEW file \in Configs, Loads(file)
    PROVE  /\ \E i : Target(file) = {i}
           /\ Len(file.scenarios) \in Nat \ {0} /\ file.scenarios[1].vusers > 0
<1> DEFINE ts == file.targets
           ss == file.scenarios
<1>1. /\ ts \in Seq([name : STRING, url : STRING])
      /\ Len(ts) \in Nat /\ DOMAIN ts = 1 .. Len(ts)
      /\ Len(ss) \in Nat \ {0} /\ 1 \in DOMAIN ss
  <2>1. /\ ts \in Seq([name : STRING, url : STRING])
        /\ ss # <<>>
        /\ ss \in Seq(Scenarios)
    BY DEF Configs, Loads, Validate
  <2> HIDE DEF ts, ss
  <2>2. Len(ss) \in Nat \ {0} /\ DOMAIN ss = 1 .. Len(ss)
    BY ONLY <2>1, EmptySeq, LenProperties
  <2>3. 1 \in DOMAIN ss
    BY ONLY <2>2
  <2>4. Len(ts) \in Nat /\ DOMAIN ts = 1 .. Len(ts)
    BY ONLY <2>1, LenProperties
  <2> QED
    BY <2>1, <2>2, <2>3, <2>4
<1>2. ValidTargets(ts) /\ ValidScenario(ss[1], ts)
  BY <1>1 DEF Loads, Validate
<1>3. PICK i \in DOMAIN ts : ss[1].target = ts[i].name
  BY <1>2 DEF ValidScenario
<1>4. ASSUME NEW j \in DOMAIN ts, ts[j].name = ts[i].name
      PROVE  j = i
  <2>1. \A k \in DOMAIN ts : \A l \in 1 .. k - 1 : ts[k].name # ts[l].name
    BY <1>2 DEF ValidTargets
  <2>2. j = i \/ j \in 1 .. i - 1 \/ i \in 1 .. j - 1
    BY <1>1
  <2> QED
    BY <1>4, <2>1, <2>2
<1>5. ss # <<>>
  BY DEF Loads, Validate
<1>6. Target(file) = {i}
  BY <1>3, <1>4, <1>5 DEF Target
<1>7. ss[1].vusers > 0
  BY <1>2 DEF ValidScenario
<1> QED
  BY <1>1, <1>6, <1>7

LEMMA FlagsKeepRunnable ==
    ASSUME NEW file \in Configs, Len(file.scenarios) \in Nat \ {0},
           file.scenarios[1].vusers > 0,
           NEW n \in VUserFlags, NEW d \in DurationFlags, NEW r \in RampUpFlags
    PROVE  /\ Target(Overridden(file, n, d, r)) = Target(file)
           /\ Overridden(file, n, d, r).scenarios[1].vusers \in Nat \ {0}
           /\ Overridden(file, n, d, r).scenarios[1].rampUp \in Int
<1> DEFINE ss == file.scenarios
           s == ss[1]
           t == [s EXCEPT !.vusers   = IF n > 0 THEN n ELSE @,
                          !.duration = FlagOr(d, @),
                          !.rampUp   = FlagOr(r, @)]
           rs == [ss EXCEPT ![1] = t]
           c == [file EXCEPT !.scenarios = rs]
<1>1. /\ ss \in Seq(Scenarios)
      /\ DOMAIN ss = 1 .. Len(ss) /\ 1 \in DOMAIN ss /\ ss # <<>>
  <2>1. ss \in Seq(Scenarios)
    BY DEF Configs
  <2> HIDE DEF ss
  <2>2. DOMAIN ss = 1 .. Len(ss)
    BY ONLY <2>1, LenProperties
  <2>3. 1 \in DOMAIN ss /\ ss # <<>>
    BY <2>2, EmptySeq DEF ss
  <2> QED
    BY <2>1, <2>2, <2>3
<1>2. s \in Scenarios
  <2>1. ss \in Seq(Scenarios) /\ 1 \in 1 .. Len(ss)
    BY <1>1
  <2> HIDE DEF ss
  <2>2. ss[1] \in Scenarios
    BY ONLY <2>1, ElementOfSeq
  <2> QED
    BY <2>2
<1>3. /\ t.target = s.target /\ t.vusers = IF n > 0 THEN n ELSE s.vusers
      /\ t.rampUp = FlagOr(r, s.rampUp)
  BY <1>2 DEF Scenarios
<1>4. Overridden(file, n, d, r) = c
  BY <1>1, Zenon DEF Overridden
<1>5. c.targets = file.targets /\ c.scenarios = rs
  BY DEF Configs
<1>6. rs[1] = t /\ rs # <<>>
  BY <1>1
<1>7. Target(c) = Target(file)
  BY <1>1, <1>3, <1>5, <1>6 DEF Target
<1>8. c.scenarios[1] = t
  BY <1>5, <1>6
<1>9. t.vusers \in Nat \ {0}
  <2>1. n \in Int /\ s.vusers \in Int /\ s.vusers > 0
    BY <1>2, FlagsAssumption DEF Scenarios
  <2> QED
    BY <1>3, <2>1
<1>10. t.rampUp \in Int
  <2>1. r \in Seq(Int) /\ s.rampUp \in Int
    BY <1>2, FlagsAssumption DEF Scenarios
  <2>2. r # <<>> => r[1] \in Int
    BY <2>1, EmptySeq, ElementOfSeq, LenProperties
  <2> QED
    BY <1>3, <2>1, <2>2 DEF FlagOr
<1> QED
  BY <1>4, <1>7, <1>8, <1>9, <1>10

(* From Load to the run, the configuration is one that was validated.      *)
RunnableInv ==
    /\ cmd = "loaded" => cfg \in Configs /\ Loads(cfg)
    /\ cmd = "overridden" => cfg.scenarios[1].vusers \in Nat /\ cfg.scenarios[1].rampUp \in Int
    /\ LoadMeansRunnable

(* What Load accepts can be run: after any flags, the runner finds its     *)
(* target, one only, and has a virtual user to start, and a panic of       *)
(* NewTicker (worker.go) is the only way to fail to start it, for which    *)
(* the ramp-up must be shorter than one nanosecond per virtual user.       *)
THEOREM LoadedScenariosRun == CmdSpec => []LoadMeansRunnable
<1>1. CmdInit => RunnableInv
  BY DEF CmdInit, RunnableInv, LoadMeansRunnable
<1>2. RunnableInv /\ [CmdNext]_allVars => RunnableInv'
  <2> SUFFICES ASSUME RunnableInv, [CmdNext]_allVars PROVE RunnableInv'
    OBVIOUS
  <2> USE DEF Exit
  <2>1. CASE Load
    <3>1. \/ cmd' = "exited" /\ exit' = 2
          \/ cmd' = "loaded" /\ exit' = exit /\ cfg' \in Configs /\ Loads(cfg')
      BY <2>1, FilesAssumption DEF Load
    <3> QED
      BY <3>1 DEF RunnableInv, LoadMeansRunnable
  <2>2. CASE Override
    <3>1. CASE cmd' = "exited" /\ exit' = 2
      BY <3>1 DEF RunnableInv, LoadMeansRunnable
    <3>2. ASSUME NEW n \in VUserFlags, NEW d \in DurationFlags, NEW r \in RampUpFlags,
                 cfg' = Overridden(cfg, n, d, r), cmd' = "overridden", exit' = exit
          PROVE  RunnableInv'
      <4>1. cfg \in Configs /\ Loads(cfg)
        BY <2>2 DEF Override, RunnableInv
      <4>2. /\ \E i : Target(cfg') = {i}
            /\ cfg'.scenarios[1].vusers \in Nat \ {0} /\ cfg'.scenarios[1].rampUp \in Int
        <5>1. PICK i : Target(cfg) = {i}
          BY <4>1, LoadedIsRunnable
        <5>2. Len(cfg.scenarios) \in Nat \ {0} /\ cfg.scenarios[1].vusers > 0
          BY <4>1, LoadedIsRunnable
        <5>3. /\ Target(Overridden(cfg, n, d, r)) = Target(cfg)
              /\ Overridden(cfg, n, d, r).scenarios[1].vusers \in Nat \ {0}
              /\ Overridden(cfg, n, d, r).scenarios[1].rampUp \in Int
          BY <4>1, <5>2, FlagsKeepRunnable
        <5> QED
          BY <3>2, <5>1, <5>3
      <4>3. Cardinality(Target(cfg')) = 1
        BY <4>2, FS_Singleton
      <4> QED
        BY <3>2, <4>2, <4>3 DEF RunnableInv, LoadMeansRunnable
    <3> QED
      BY <2>2, <3>1, <3>2 DEF Override
  <2>3. CASE StartRun
    <3>1. Target(cfg) # {}
      <4>1. Cardinality(Target(cfg)) = 1
        BY <2>3 DEF StartRun, RunnableInv, LoadMeansRunnable
      <4> QED
        BY <4>1, FS_EmptySet
    <3>2. CASE cmd' = "panicked"
      <4>1. NoInterval(cfg.scenarios[1]) /\ cfg' = cfg /\ exit' = 2
        BY <2>3, <3>1, <3>2 DEF StartRun
      <4>2. /\ cfg.scenarios[1].vusers \in Nat /\ cfg.scenarios[1].vusers > 1
            /\ cfg.scenarios[1].rampUp \in Int /\ cfg.scenarios[1].rampUp > 0
            /\ cfg.scenarios[1].rampUp \div cfg.scenarios[1].vusers = 0
        BY <2>3, <4>1 DEF StartRun, RunnableInv, NoInterval
      <4>3. ASSUME NEW a \in Int, NEW b \in Nat, a > 0, b > 1, a \div b = 0
            PROVE  a \in 1 .. b - 1
        BY <4>3
      <4>4. cfg.scenarios[1].rampUp \in 1 .. cfg.scenarios[1].vusers - 1
        BY <4>2, <4>3
      <4> QED
        BY <3>2, <4>1, <4>4 DEF RunnableInv, LoadMeansRunnable
    <3> QED
      BY <2>3, <3>1, <3>2 DEF StartRun, RunnableInv, LoadMeansRunnable
  <2>4. CASE Evaluate \/ BeginReports \/ WriteReport \/ ExitWithVerdict
    <3>1. CASE Evaluate \/ BeginReports \/ ExitWithVerdict
      BY <3>1 DEF Evaluate, BeginReports, ExitWithVerdict, ExitCode, RunnableInv, LoadMeansRunnable
    <3>2. CASE WriteReport
      BY <3>2 DEF WriteReport, generateJSON, generateHTML, UnknownFormat, Format, Fails,
                  RunnableInv, LoadMeansRunnable
    <3> QED
      BY <2>4, <3>1, <3>2
  <2>5. CASE Running(Next) \/ UNCHANGED allVars
    BY <2>5 DEF Running, allVars, cmdVars, RunnableInv, LoadMeansRunnable
  <2> QED
    BY <2>1, <2>2, <2>3, <2>4, <2>5 DEF CmdNext, Command
<1>3. RunnableInv => LoadMeansRunnable
  BY DEF RunnableInv
<1> QED
  BY <1>1, <1>2, <1>3, PTL DEF CmdSpec
=============================================================================
