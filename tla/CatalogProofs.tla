--------------------------- MODULE CatalogProofs ----------------------------
(***************************************************************************)
(* Proofs about Catalog, for any sets of tests, texts and agents and any   *)
(* page sizes: all agents of a run get the version it was recorded with,   *)
(* and a client that reads the pages of a listing misses no more of the    *)
(* rows that stayed than were deleted, created too late or cut off.        *)
(***************************************************************************)
EXTENDS Catalog, SequenceTheorems, FiniteSetTheorems, TLAPS

USE PagesAssumption

RunRows  == [test : Tests, text : Texts]
Commands == [run : Nat, text : Texts]

TableTypeOK ==
    /\ table \in Seq(Tests)
    /\ text \in [Tests -> Texts]
    /\ used \subseteq Tests
    /\ Rows \subseteq used

RunTypeOK ==
    /\ run \in {"free", "read", "created"}
    /\ run # "free" => runTest \in Tests /\ runText \in Texts
    /\ runs \in Seq(RunRows)
    /\ queued \subseteq Commands

WalkTypeOK ==
    /\ walk \in {"idle", "asking", "counted", "done"}
    /\ page \in Nat \ {0}
    /\ perPage \in 1 .. MaxPerPage
    /\ total \in Nat
    /\ seen \in Seq(Tests)
    /\ before \subseteq used
    /\ deleted \in Nat /\ late \in Nat /\ lost \in Nat

TypeOK == TableTypeOK /\ RunTypeOK /\ WalkTypeOK

(* What the table is after a row is put in front of it, or taken out.      *)
LEMMA TableStep ==
  ASSUME TypeOK, NEW t \in Tests
  PROVE  /\ \A x \in Texts : CreateTest(t, x) =>
               /\ table' \in Seq(Tests) /\ Len(table') = Len(table) + 1
               /\ table'[1] = t
               /\ \A i \in 1 .. Len(table) : table'[i + 1] = table[i]
         /\ DeleteTest(t) => table' \in Seq(Tests) /\ Range(table') \subseteq Range(table)
  <1>0. table \in Seq(Tests)
    BY DEF TypeOK, TableTypeOK
  <1>1. ASSUME NEW x \in Texts, CreateTest(t, x)
        PROVE  /\ table' \in Seq(Tests) /\ Len(table') = Len(table) + 1
               /\ table'[1] = t
               /\ \A i \in 1 .. Len(table) : table'[i + 1] = table[i]
    <2> DEFINE s == <<t>>
    <2>1. s \in Seq(Tests) /\ Len(s) = 1 /\ s[1] = t
      OBVIOUS
    <2> HIDE DEF s
    <2>2. /\ s \o table \in Seq(Tests) /\ Len(s \o table) = 1 + Len(table)
          /\ \A i \in 1 .. 1 + Len(table) :
                (s \o table)[i] = IF i <= 1 THEN s[i] ELSE table[i - 1]
      BY <1>0, <2>1, ConcatProperties
    <2>3. Len(table) \in Nat
      BY <1>0, LenProperties
    <2>4. \A n \in Nat : 1 + n = n + 1 /\ 1 \in 1 .. 1 + n
                         /\ \A i \in 1 .. n : i + 1 \in 1 .. 1 + n /\ ~(i + 1 <= 1) /\ i + 1 - 1 = i
      OBVIOUS
    <2>5. table' = s \o table
      BY <1>1 DEF CreateTest, s
    <2>6. (s \o table)[1] = t /\ \A i \in 1 .. Len(table) : (s \o table)[i + 1] = table[i]
      BY ONLY <2>1, <2>2, <2>3, <2>4
    <2> QED BY ONLY <2>2, <2>3, <2>4, <2>5, <2>6
  <1>2. ASSUME DeleteTest(t)
        PROVE  table' \in Seq(Tests) /\ Range(table') \subseteq Range(table)
    <2>1. PICK i \in DOMAIN table : table' = RemoveAt(table, i)
      BY <1>2 DEF DeleteTest
    <2>2. /\ Range(table) \in SUBSET Tests /\ Len(table) \in Nat
          /\ DOMAIN table = 1 .. Len(table)
      BY <1>0, LenProperties, RangeOfSeq
    <2> DEFINE R == Range(table)
               u == SubSeq(table, 1, i - 1)
               v == SubSeq(table, i + 1, Len(table))
    <2>3. \A k \in 1 .. i - 1 : table[k] \in R
      BY <2>2 DEF Range
    <2>4. \A k \in i + 1 .. Len(table) : table[k] \in R
      BY <2>2 DEF Range
    <2>5. i \in Int /\ i - 1 \in Int /\ i + 1 \in Int /\ Len(table) \in Int
      BY <2>2
    <2> HIDE DEF R
    <2>6. u \in Seq(R) /\ v \in Seq(R)
      BY ONLY <2>3, <2>4, <2>5, SubSeqProperties
    <2>7. u \o v \in Seq(R)
      BY ONLY <2>6, ConcatProperties
    <2>8. table' \in Seq(R)
      BY <2>1, <2>7 DEF RemoveAt
    <2>9. Range(table') \in SUBSET R
      BY ONLY <2>8, RangeOfSeq
    <2>10. table' \in Seq(Tests)
      BY ONLY <2>2, <2>8, SeqMonotonic DEF R
    <2> QED BY <2>9, <2>10 DEF R
  <1> QED BY <1>1, <1>2

LEMMA PageType ==
  ASSUME TypeOK, NEW k \in 0 .. Len(Page)
  PROVE  Len(Page) \in Nat /\ SubSeq(Page, 1, k) \in Seq(Tests)
  <1> DEFINE last == IF Offset + perPage < Len(table) THEN Offset + perPage ELSE Len(table)
             P == Page
  <1>1. table \in Seq(Tests) /\ Len(table) \in Nat /\ Offset \in Nat /\ perPage \in Nat
    BY LenProperties DEF TypeOK, TableTypeOK, WalkTypeOK, Offset
  <1>2. last \in Int /\ Offset + 1 \in Int
    BY <1>1
  <1>3. \A i \in Offset + 1 .. last : table[i] \in Tests
    <2>1. \A i \in Offset + 1 .. last : i \in 1 .. Len(table)
      BY <1>1
    <2> QED BY <1>1, <2>1, ElementOfSeq
  <1> HIDE DEF last
  <1>4. SubSeq(table, Offset + 1, last) \in Seq(Tests)
    BY <1>2, <1>3, SubSeqProperties
  <1>5. P \in Seq(Tests)
    BY <1>4 DEF Page, last
  <1>6. Len(P) \in Nat
    BY <1>5, LenProperties
  <1> HIDE DEF P
  <1>7. k \in 0 .. Len(P)
    BY DEF P
  <1>8. \A i \in 1 .. k : i \in 1 .. Len(P)
    BY <1>6, <1>7
  <1>9. \A i \in 1 .. k : P[i] \in Tests
    BY <1>5, <1>8, ElementOfSeq
  <1>10. 1 \in Int /\ k \in Int
    BY <1>6, <1>7
  <1>11. SubSeq(P, 1, k) \in Seq(Tests)
    BY ONLY <1>9, <1>10, SubSeqProperties
  <1> QED BY <1>6, <1>11 DEF P

LEMMA TypeInit == Init => TypeOK
  <1> SUFFICES ASSUME Init PROVE TypeOK
    OBVIOUS
  <1>1. table = <<>> /\ table \in Seq({})
    BY EmptySeq DEF Init
  <1>2. Range(table) \in SUBSET {}
    BY ONLY <1>1, RangeOfSeq
  <1>3. TableTypeOK
    BY <1>1, <1>2, EmptySeq, TextsAssumption DEF Init, TableTypeOK, Texts, Rows
  <1>4. RunTypeOK
    BY EmptySeq DEF Init, RunTypeOK
  <1>5. WalkTypeOK
    <2>1. perPage \in 1 .. MaxPerPage
      BY DEF Init
    <2>2. seen \in Seq(Tests) /\ before \subseteq used
      BY EmptySeq DEF Init
    <2>3. page \in Nat \ {0} /\ total \in Nat
      <3>1. page = 1 /\ total = 0
        BY DEF Init
      <3> QED BY ONLY <3>1
    <2>4. walk \in {"idle", "asking", "counted", "done"}
      BY DEF Init
    <2>5. deleted \in Nat /\ late \in Nat /\ lost \in Nat
      <3>1. deleted = 0 /\ late = 0 /\ lost = 0
        BY DEF Init
      <3> QED BY ONLY <3>1
    <2> QED BY <2>1, <2>2, <2>3, <2>4, <2>5 DEF WalkTypeOK
  <1> QED BY <1>3, <1>4, <1>5 DEF TypeOK

LEMMA TypeStep == TypeOK /\ [Next]_vars => TypeOK'
  <1> SUFFICES ASSUME TypeOK, [Next]_vars PROVE TypeOK'
    OBVIOUS
  <1>a. ASSUME UNCHANGED testVars PROVE TableTypeOK'
    BY <1>a DEF TypeOK, TableTypeOK, testVars, Rows, Range
  <1>b. ASSUME UNCHANGED runVars PROVE RunTypeOK'
    BY <1>b DEF TypeOK, RunTypeOK, runVars
  <1>c. ASSUME UNCHANGED walkVars, deleted' \in Nat, late' \in Nat, used \subseteq used'
        PROVE  WalkTypeOK'
    BY <1>c DEF TypeOK, WalkTypeOK, walkVars
  <1>d. deleted \in Nat /\ late \in Nat
    BY DEF TypeOK, WalkTypeOK
  <1>1. ASSUME NEW t \in Tests, NEW x \in Texts, CreateTest(t, x) PROVE TypeOK'
    <2>1. /\ table' \in Seq(Tests) /\ table'[1] = t
          /\ Len(table') = Len(table) + 1
          /\ \A i \in 1 .. Len(table) : table'[i + 1] = table[i]
      BY <1>1, TableStep
    <2>2. Range(table') \subseteq Range(table) \cup {t}
      <3>1. /\ Len(table) \in Nat /\ DOMAIN table = 1 .. Len(table)
            /\ DOMAIN table' = 1 .. Len(table')
        BY <2>1, LenProperties DEF TypeOK, TableTypeOK
      <3>2. ASSUME NEW i \in 1 .. Len(table')
            PROVE  table'[i] = t \/ \E k \in 1 .. Len(table) : table'[i] = table[k]
        <4>1. i = 1 \/ (i - 1 \in 1 .. Len(table) /\ i = i - 1 + 1)
          BY <2>1, <3>1
        <4> QED BY <2>1, <4>1
      <3> QED BY <3>1, <3>2 DEF Range
    <2>3. TableTypeOK'
      BY <1>1, <2>1, <2>2 DEF CreateTest, TypeOK, TableTypeOK, Rows
    <2>4. deleted' \in Nat /\ late' \in Nat /\ used \subseteq used'
      BY <1>1, <1>d DEF CreateTest
    <2> QED BY <1>1, <1>b, <1>c, <2>3, <2>4 DEF CreateTest, TypeOK
  <1>2. ASSUME NEW t \in Tests, NEW x \in Texts, UpdateTest(t, x) PROVE TypeOK'
    <2>1. TableTypeOK'
      BY <1>2 DEF UpdateTest, TypeOK, TableTypeOK, Rows, Range
    <2> QED BY <1>2, <1>b, <1>c, <1>d, <2>1 DEF UpdateTest, TypeOK, changes
  <1>3. ASSUME NEW t \in Tests, DeleteTest(t) PROVE TypeOK'
    <2>1. table' \in Seq(Tests) /\ Range(table') \subseteq Range(table)
      BY <1>3, TableStep
    <2>2. TableTypeOK'
      BY <1>3, <2>1, TextsAssumption DEF DeleteTest, TypeOK, TableTypeOK, Rows, Texts
    <2>3. deleted' \in Nat /\ late' \in Nat /\ used \subseteq used'
      <3>1. (deleted' = deleted \/ deleted' = deleted + 1) /\ late' = late /\ used' = used
        BY <1>3 DEF DeleteTest
      <3> QED BY <1>d, <3>1
    <2> QED BY <1>3, <1>b, <1>c, <2>2, <2>3 DEF DeleteTest, TypeOK
  <1>4. ASSUME NEW t \in Tests, RunRead(t) PROVE TypeOK'
    <2>1. RunTypeOK'
      BY <1>4 DEF RunRead, TypeOK, TableTypeOK, RunTypeOK
    <2> QED BY <1>4, <1>a, <1>c, <1>d, <2>1 DEF RunRead, TypeOK, testVars, changes
  <1>5. CASE RunCreate
    <2>1. RunTypeOK'
      <3>1. runs' = runs \/ runs' = Append(runs, [test |-> runTest, text |-> runText])
        BY <1>5 DEF RunCreate
      <3>2. [test |-> runTest, text |-> runText] \in RunRows
        BY <1>5 DEF RunCreate, TypeOK, RunTypeOK, RunRows
      <3>3. runs' \in Seq(RunRows)
        BY <3>1, <3>2, AppendProperties DEF TypeOK, RunTypeOK
      <3> QED BY <1>5, <3>3 DEF RunCreate, TypeOK, RunTypeOK
    <2> QED BY <1>5, <1>a, <1>c, <1>d, <2>1 DEF RunCreate, TypeOK, testVars, changes
  <1>6. ASSUME NEW a \in Agents, RunQueue(a) PROVE TypeOK'
    <2>1. RunTypeOK'
      <3>1. Len(runs) \in Nat
        BY LenProperties DEF TypeOK, RunTypeOK
      <3>2. [run |-> Len(runs), text |-> runText] \in Commands
        BY <1>6, <3>1 DEF RunQueue, TypeOK, RunTypeOK, Commands
      <3>3. queued' \subseteq Commands
        BY <1>6, <3>2 DEF RunQueue, StartText, TypeOK, RunTypeOK
      <3>4. run' = "free" \/ UNCHANGED <<run, runTest, runText>>
        BY <1>6 DEF RunQueue
      <3> QED BY <1>6, <3>3, <3>4 DEF RunQueue, TypeOK, RunTypeOK
    <2> QED BY <1>6, <1>a, <1>c, <1>d, <2>1 DEF RunQueue, TypeOK, testVars, changes
  <1>7. CASE WalkBegin
    <2>1. \A n \in Requested : Clamped(n) \in 1 .. MaxPerPage
      BY DEF Clamped
    <2>2. WalkTypeOK'
      BY <1>7, <2>1 DEF WalkBegin, TypeOK, TableTypeOK, WalkTypeOK, testVars, changes
    <2> QED BY <1>7, <1>a, <1>b, <2>2 DEF WalkBegin, TypeOK
  <1>8. CASE ListCount
    <2>1. Len(table) \in Nat
      BY LenProperties DEF TypeOK, TableTypeOK
    <2>2. WalkTypeOK'
      BY <1>8, <2>1 DEF ListCount, TypeOK, WalkTypeOK, testVars, changes
    <2> QED BY <1>8, <1>a, <1>b, <2>2 DEF ListCount, TypeOK
  <1>9. CASE ListSelect
    <2>1. PICK k \in 0 .. Len(Page) : /\ seen' = seen \o SubSeq(Page, 1, k)
                                      /\ lost' = lost + (Len(Page) - k)
      BY <1>9 DEF ListSelect
    <2>2. seen' \in Seq(Tests)
      <3>1. SubSeq(Page, 1, k) \in Seq(Tests) /\ seen \in Seq(Tests)
        BY PageType DEF TypeOK, WalkTypeOK
      <3>2. seen \o SubSeq(Page, 1, k) \in Seq(Tests)
        BY ONLY <3>1, ConcatProperties
      <3> QED BY <2>1, <3>2
    <2>3. lost' \in Nat
      <3>1. Len(Page) \in Nat /\ lost \in Nat
        BY PageType DEF TypeOK, WalkTypeOK
      <3> QED BY <2>1, <3>1
    <2>4. walk' \in {"done", "asking"} /\ page' \in Nat \ {0}
      BY <1>9, <2>1 DEF ListSelect, TypeOK, WalkTypeOK
    <2>5. UNCHANGED <<testVars, runVars, perPage, total, before, deleted, late>>
      BY <1>9 DEF ListSelect, changes
    <2>6. WalkTypeOK'
      BY <2>2, <2>3, <2>4, <2>5 DEF TypeOK, WalkTypeOK, testVars
    <2> QED BY <1>a, <1>b, <2>5, <2>6 DEF TypeOK
  <1>10. CASE UNCHANGED vars
    BY <1>10, <1>a, <1>b, <1>c, <1>d DEF vars, TypeOK, testVars, changes
  <1> QED BY <1>1, <1>2, <1>3, <1>4, <1>5, <1>6, <1>7, <1>8, <1>9, <1>10 DEF Next

(* Every variable keeps its type: the listing has rows of known tests, and *)
(* the page a client is at is a page.                                      *)
THEOREM TypeCorrect == Spec => []TypeOK
  BY TypeInit, TypeStep, PTL DEF Spec
-----------------------------------------------------------------------------
(* The run that is being started is the last row, with the text its        *)
(* request read; what is queued carries the text of its row.               *)
VersionInv ==
    /\ run # "free" => Loads(runText)
    /\ run = "created" => Len(runs) \in DOMAIN runs /\ runs[Len(runs)].text = runText
    /\ \A c \in queued : c.run \in DOMAIN runs
    /\ OneVersionPerRun

LEMMA VersionStep == TypeOK /\ VersionInv /\ [Next]_vars => VersionInv'
  <1> SUFFICES ASSUME TypeOK, VersionInv, [Next]_vars PROVE VersionInv'
    OBVIOUS
  <1> USE DEF VersionInv, OneVersionPerRun
  <1>1. CASE UNCHANGED runVars
    BY <1>1 DEF runVars
  <1>2. ASSUME NEW t \in Tests, RunRead(t) PROVE VersionInv'
    BY <1>2 DEF RunRead
  <1>3. CASE RunCreate
    <2> DEFINE row == [test |-> runTest, text |-> runText]
    <2>1. /\ runs \in Seq(RunRows) /\ row \in RunRows /\ Len(runs) \in Nat
          /\ DOMAIN runs = 1 .. Len(runs)
      BY <1>3, LenProperties DEF RunCreate, TypeOK, RunTypeOK, RunRows
    <2>2. CASE runs' = Append(runs, row) /\ run' = "created" /\ UNCHANGED runText
      <3>1. /\ Append(runs, row) \in Seq(RunRows)
            /\ Len(Append(runs, row)) = Len(runs) + 1
            /\ \A i \in 1 .. Len(runs) : Append(runs, row)[i] = runs[i]
            /\ Append(runs, row)[Len(runs) + 1] = row
        <4> HIDE DEF row
        <4> QED BY <2>1, AppendProperties
      <3>2. DOMAIN runs' = 1 .. Len(runs) + 1 /\ Len(runs') = Len(runs) + 1
        BY <2>2, <3>1, LenProperties
      <3>3. runs'[Len(runs')].text = runText' /\ Len(runs') \in DOMAIN runs'
        BY <2>1, <2>2, <3>1, <3>2
      <3>4. DOMAIN runs \subseteq DOMAIN runs' /\ \A i \in DOMAIN runs : runs'[i] = runs[i]
        BY <2>1, <2>2, <3>1, <3>2
      <3>5. UNCHANGED queued /\ Loads(runText)
        BY <1>3 DEF RunCreate
      <3> QED BY <2>2, <3>3, <3>4, <3>5
    <2>3. CASE run' = "free" /\ UNCHANGED runs
      BY <1>3, <2>3 DEF RunCreate
    <2> QED BY <1>3, <2>2, <2>3 DEF RunCreate
  <1>4. ASSUME NEW a \in Agents, RunQueue(a) PROVE VersionInv'
    <2>1. /\ run = "created" /\ UNCHANGED runs
          /\ queued' = queued \cup {[run |-> Len(runs), text |-> runText]}
          /\ run' = "free" \/ UNCHANGED <<run, runText>>
      BY <1>4 DEF RunQueue, StartText
    <2> QED BY <2>1
  <1>5. ASSUME NEW t \in Tests,
               \/ \E x \in Texts : CreateTest(t, x) \/ UpdateTest(t, x)
               \/ DeleteTest(t)
        PROVE  UNCHANGED runVars
    BY <1>5 DEF CreateTest, UpdateTest, DeleteTest
  <1>6. CASE WalkBegin \/ ListCount \/ ListSelect
    BY <1>1, <1>6 DEF WalkBegin, ListCount, ListSelect
  <1>7. CASE UNCHANGED vars
    BY <1>1, <1>7 DEF vars
  <1> QED BY <1>1, <1>2, <1>3, <1>4, <1>5, <1>6, <1>7 DEF Next

(* All agents of a run get one version of the scenario, the one the run    *)
(* was recorded with, however often the test is edited or deleted.         *)
THEOREM RunHasOneVersion == Spec => []OneVersionPerRun
  <1>1. Init => VersionInv
    BY DEF Init, VersionInv, OneVersionPerRun
  <1>2. VersionInv => OneVersionPerRun
    BY DEF VersionInv
  <1> QED BY <1>1, <1>2, VersionStep, TypeCorrect, PTL DEF Spec
-----------------------------------------------------------------------------
(* The rows up to the end of the page are those before it, those of the    *)
(* first c rows of the page, and those of the rest.                        *)
LEMMA PageCovers ==
  ASSUME TypeOK, NEW i \in 1 .. Len(table), i <= page * perPage, NEW c \in 0 .. Len(Page)
  PROVE  \/ i <= Offset
         \/ table[i] \in Range(SubSeq(Page, 1, c))
         \/ i \in Offset + c + 1 .. Offset + Len(Page)
  <1> DEFINE last == IF Offset + perPage < Len(table) THEN Offset + perPage ELSE Len(table)
             P == Page
             n == Len(P)
             Q == SubSeq(P, 1, c)
  <1>1. /\ table \in Seq(Tests) /\ Len(table) \in Nat
        /\ page \in Nat /\ page - 1 \in Nat /\ perPage \in Nat
    BY LenProperties DEF TypeOK, TableTypeOK, WalkTypeOK
  <1>2. \A k, m \in Nat : k - 1 \in Nat => (k - 1) * m \in Nat /\ (k - 1) * m + m = k * m
    OBVIOUS
  <1>3. Offset \in Nat /\ Offset + perPage = page * perPage
    BY ONLY <1>1, <1>2 DEF Offset
  <1> SUFFICES ASSUME ~(i <= Offset), i \notin Offset + c + 1 .. Offset + n
               PROVE  table[i] \in Range(Q)
    OBVIOUS
  <1>4. i \in Nat /\ i \in Offset + 1 .. last /\ last \in Nat /\ i - Offset \in Nat
    BY <1>1, <1>3
  <1>5. \A k \in Offset + 1 .. last : k \in 1 .. Len(table)
    BY <1>1, <1>3
  <1>6. \A k \in Offset + 1 .. last : table[k] \in Tests
    BY <1>1, <1>5, ElementOfSeq
  <1>7. Offset + 1 \in Int /\ last \in Int
    BY <1>3, <1>4
  <1>8. P = SubSeq(table, Offset + 1, last)
    BY DEF Page
  <1> HIDE DEF last, P
  <1>9. /\ P \in Seq(Tests)
        /\ n = IF Offset + 1 <= last THEN last - (Offset + 1) + 1 ELSE 0
        /\ \A k \in 1 .. last - (Offset + 1) + 1 : P[k] = table[Offset + 1 + k - 1]
    BY ONLY <1>6, <1>7, <1>8, SubSeqProperties
  <1>10. n \in Nat /\ DOMAIN P = 1 .. n
    BY ONLY <1>9, LenProperties
  <1> DEFINE j == i - Offset
  <1>11. /\ j \in 1 .. n /\ j \in 1 .. last - (Offset + 1) + 1
         /\ Offset + 1 + j - 1 = i
    BY ONLY <1>3, <1>4, <1>9
  <1>12. P[j] = table[i]
    BY ONLY <1>9, <1>11
  <1>13. /\ c \in Nat /\ 1 \in Int /\ c \in Int /\ c - 1 + 1 = c /\ j \in 1 .. c
         /\ \A k \in 1 .. c : k \in 1 .. n
    BY <1>3, <1>4, <1>10, <1>11 DEF n, P
  <1> HIDE DEF n, j
  <1>14. \A k \in 1 .. c : P[k] \in Tests
    BY ONLY <1>9, <1>10, <1>13, ElementOfSeq DEF n
  <1>15. /\ Q \in Seq(Tests)
         /\ Len(Q) = IF 1 <= c THEN c - 1 + 1 ELSE 0
         /\ \A k \in 1 .. c - 1 + 1 : Q[k] = P[1 + k - 1]
    BY ONLY <1>13, <1>14, SubSeqProperties
  <1> HIDE DEF Q
  <1>16. j \in 1 .. c - 1 + 1 /\ 1 + j - 1 = j /\ j \in 1 .. Len(Q)
    BY ONLY <1>13, <1>15
  <1>17. Q[j] = table[i]
    BY ONLY <1>12, <1>15, <1>16
  <1>18. table[i] \in Range(Q)
    BY ONLY <1>15, <1>16, <1>17, RangeEquality
  <1> QED BY <1>18 DEF Q, P

(* A set that is mapped one to one into a finite set is no larger.         *)
LEMMA MovedUp ==
  ASSUME NEW A \in SUBSET Nat, NEW B \in SUBSET Nat, IsFiniteSet(B), \A i \in A : i - 1 \in B
  PROVE  Cardinality(A) \in Nat /\ Cardinality(A) <= Cardinality(B)
  <1> DEFINE f == [i \in A |-> i - 1]
  <1>1. f \in Injection(A, B)
    BY DEF Injection, IsInjective
  <1> QED BY <1>1, FS_Injection, FS_CardinalityType

LEMMA MovedDown ==
  ASSUME NEW A \in SUBSET Nat, NEW B \in SUBSET Nat, IsFiniteSet(B), NEW j \in Nat,
         \A i \in A : (i < j => i \in B) /\ (~(i < j) => i + 1 \in B)
  PROVE  Cardinality(A) \in Nat /\ Cardinality(A) <= Cardinality(B)
  <1> DEFINE f == [i \in A |-> IF i < j THEN i ELSE i + 1]
  <1>1. f \in [A -> B]
    OBVIOUS
  <1>2. \A i, k \in A : f[i] = f[k] => i = k
    OBVIOUS
  <1>3. f \in Injection(A, B)
    BY <1>1, <1>2 DEF Injection, IsInjective
  <1> QED BY <1>3, FS_Injection, FS_CardinalityType

LEMMA UnionBound ==
  ASSUME NEW A, NEW B, IsFiniteSet(A), IsFiniteSet(B)
  PROVE  /\ IsFiniteSet(A \cup B) /\ Cardinality(A) \in Nat /\ Cardinality(B) \in Nat
         /\ Cardinality(A \cup B) \in Nat
         /\ Cardinality(A \cup B) <= Cardinality(A) + Cardinality(B)
  <1>1. IsFiniteSet(A \cup B) /\ IsFiniteSet(A \cap B)
    BY FS_Union, FS_Intersection
  <1>2. Cardinality(A \cup B) = Cardinality(A) + Cardinality(B) - Cardinality(A \cap B)
    BY FS_Union
  <1>3. /\ Cardinality(A) \in Nat /\ Cardinality(B) \in Nat
        /\ Cardinality(A \cup B) \in Nat /\ Cardinality(A \cap B) \in Nat
    BY <1>1, FS_CardinalityType
  <1> QED BY <1>1, <1>2, <1>3

(* The rows of the pages a client has asked for that it has missed.        *)
Passed == {i \in Missed : i <= Offset}

LEMMA MissedIsFinite ==
  ASSUME TypeOK
  PROVE  /\ Missed \in SUBSET Nat /\ Passed \in SUBSET Nat
         /\ IsFiniteSet(Missed) /\ IsFiniteSet(Passed)
         /\ Cardinality(Missed) \in Nat /\ Cardinality(Passed) \in Nat
  <1>1. Len(table) \in Nat /\ DOMAIN table = 1 .. Len(table)
    BY LenProperties DEF TypeOK, TableTypeOK
  <1>2. IsFiniteSet(1 .. Len(table))
    BY <1>1, FS_Interval
  <1>3. Missed \in SUBSET (1 .. Len(table)) /\ Passed \in SUBSET (1 .. Len(table))
    BY <1>1 DEF Missed, Passed
  <1>4. IsFiniteSet(Missed) /\ IsFiniteSet(Passed)
    BY <1>2, <1>3, FS_Subset
  <1> QED BY <1>1, <1>3, <1>4, FS_CardinalityType

(* A client on its way through the pages has missed no more than there     *)
(* were reasons for, and a COUNT lacks at most the rows that came after.   *)
WalkInv ==
    /\ walk = "idle" => page = 1
    /\ walk = "counted" => Len(table) <= total + late
    /\ walk \in {"asking", "counted"} => Cardinality(Passed) <= deleted + lost
    /\ MissesAreExplained

(* A new row moves the others to later places.                             *)
LEMMA WalkCreate ==
  ASSUME TypeOK, WalkInv, NEW t \in Tests, NEW x \in Texts, CreateTest(t, x)
  PROVE  WalkInv'
  <1>1. UNCHANGED <<walk, page, perPage, total, seen, before, lost, deleted>>
    BY DEF CreateTest, walkVars
  <1>2. late \in Nat /\ late' \in Nat /\ late <= late' /\ (walk = "counted" => late' = late + 1)
    BY DEF CreateTest, TypeOK, WalkTypeOK
  <1>3. /\ table' \in Seq(Tests) /\ table'[1] = t
        /\ Len(table') = Len(table) + 1
        /\ \A i \in 1 .. Len(table) : table'[i + 1] = table[i]
    BY TableStep
  <1>4. /\ Len(table) \in Nat /\ DOMAIN table = 1 .. Len(table)
        /\ DOMAIN table' = 1 .. Len(table) + 1
    BY <1>3, LenProperties DEF TypeOK, TableTypeOK
  <1>5. t \notin before
    BY DEF CreateTest, TypeOK, WalkTypeOK
  <1>6. ASSUME NEW i \in Missed' PROVE i - 1 \in Missed /\ i \in Nat
    <2>1. i \in DOMAIN table' /\ table'[i] \in before \ Range(seen)
      BY <1>1 DEF Missed
    <2>2. i - 1 \in 1 .. Len(table) /\ i = i - 1 + 1
      BY <1>3, <1>4, <1>5, <2>1
    <2>3. table'[i] = table[i - 1]
      BY <1>3, <2>2
    <2> QED BY <1>4, <2>1, <2>2, <2>3 DEF Missed
  <1>7. Missed' \in SUBSET Nat /\ Passed' \in SUBSET Nat
    BY <1>6 DEF Passed
  <1>8. Offset' = Offset /\ Offset \in Nat
    BY <1>1 DEF Offset, TypeOK, WalkTypeOK
  <1>9. ASSUME NEW i \in Passed' PROVE i - 1 \in Passed
    BY <1>6, <1>8, <1>9 DEF Passed
  <1>10. Cardinality(Missed') \in Nat /\ Cardinality(Missed') <= Cardinality(Missed)
    BY <1>6, <1>7, MissedIsFinite, MovedUp
  <1>11. Cardinality(Passed') \in Nat /\ Cardinality(Passed') <= Cardinality(Passed)
    BY <1>7, <1>9, MissedIsFinite, MovedUp
  <1>12. /\ Cardinality(Missed) \in Nat /\ Cardinality(Passed) \in Nat
         /\ deleted \in Nat /\ lost \in Nat /\ total \in Nat
    BY MissedIsFinite DEF TypeOK, WalkTypeOK
  <1> QED BY <1>1, <1>2, <1>3, <1>4, <1>10, <1>11, <1>12 DEF WalkInv, MissesAreExplained

(* A row that goes moves those behind it one place to the front.           *)
LEMMA DeleteMoves ==
  ASSUME TypeOK, NEW t \in Tests, DeleteTest(t)
  PROVE  \E j \in 1 .. Len(table) :
            /\ Len(table') = Len(table) - 1
            /\ \A i \in 1 .. Len(table) - 1 : table'[i] = table[IF i < j THEN i ELSE i + 1]
  <1>0. /\ table \in Seq(Tests) /\ Len(table) \in Nat /\ DOMAIN table = 1 .. Len(table)
    BY LenProperties DEF TypeOK, TableTypeOK
  <1>1. PICK j \in 1 .. Len(table) : table' = RemoveAt(table, j)
    BY <1>0 DEF DeleteTest
  <1> DEFINE n == Len(table)
             u == SubSeq(table, 1, j - 1)
             v == SubSeq(table, j + 1, n)
  <1>2. /\ n \in Nat /\ j \in Nat /\ j - 1 \in Nat /\ j + 1 \in Int /\ n \in Int /\ 1 \in Int
        /\ j - 1 \in Int
    BY <1>0
  <1> HIDE DEF n
  <1>3. \A k \in 1 .. n : table[k] \in Tests
    BY <1>0, ElementOfSeq DEF n
  <1>4. (\A k \in 1 .. j - 1 : k \in 1 .. n) /\ (\A k \in j + 1 .. n : k \in 1 .. n)
    BY <1>1, <1>2 DEF n
  <1>5. /\ u \in Seq(Tests) /\ Len(u) = (IF 1 <= j - 1 THEN j - 1 - 1 + 1 ELSE 0)
        /\ \A k \in 1 .. j - 1 - 1 + 1 : u[k] = table[1 + k - 1]
    BY ONLY <1>2, <1>3, <1>4, SubSeqProperties
  <1>6. /\ v \in Seq(Tests) /\ Len(v) = (IF j + 1 <= n THEN n - (j + 1) + 1 ELSE 0)
        /\ \A k \in 1 .. n - (j + 1) + 1 : v[k] = table[j + 1 + k - 1]
    BY ONLY <1>2, <1>3, <1>4, SubSeqProperties
  <1>7. table' = u \o v
    BY <1>1 DEF RemoveAt, n
  <1> HIDE DEF u, v
  <1>8. j \in 1 .. n
    BY <1>1 DEF n
  <1>9. Len(u) = j - 1 /\ Len(v) = n - j
    BY ONLY <1>2, <1>5, <1>6, <1>8
  <1>10. /\ Len(u \o v) = Len(u) + Len(v)
         /\ \A i \in 1 .. Len(u) + Len(v) :
               (u \o v)[i] = IF i <= Len(u) THEN u[i] ELSE v[i - Len(u)]
    BY ONLY <1>5, <1>6, ConcatProperties
  <1>11. Len(table') = n - 1
    BY ONLY <1>2, <1>7, <1>9, <1>10
  <1>12. ASSUME NEW i \in 1 .. n - 1
         PROVE  table'[i] = table[IF i < j THEN i ELSE i + 1]
    <2>1. i \in 1 .. Len(u) + Len(v)
      BY ONLY <1>2, <1>9, <1>12
    <2>2. CASE i < j
      <3>1. i <= Len(u) /\ i \in 1 .. j - 1 - 1 + 1 /\ 1 + i - 1 = i
        BY ONLY <1>2, <1>9, <1>12, <2>2
      <3> QED BY ONLY <1>5, <1>7, <1>10, <2>1, <2>2, <3>1
    <2>3. CASE ~(i < j)
      <3>1. /\ ~(i <= Len(u)) /\ i - Len(u) \in 1 .. n - (j + 1) + 1
            /\ j + 1 + (i - Len(u)) - 1 = i + 1
        BY ONLY <1>2, <1>8, <1>9, <1>12, <2>3
      <3> QED BY ONLY <1>6, <1>7, <1>10, <2>1, <2>3, <3>1
    <2> QED BY <2>2, <2>3
  <1> QED BY <1>8, <1>11, <1>12 DEF n

(* A deletion moves one row at most to the pages the client has left.      *)
LEMMA WalkDelete ==
  ASSUME TypeOK, WalkInv, NEW t \in Tests, DeleteTest(t)
  PROVE  WalkInv'
  <1>1. UNCHANGED <<walk, page, perPage, total, seen, before, lost, late>>
    BY DEF DeleteTest, walkVars
  <1>2. /\ deleted \in Nat /\ deleted' \in Nat /\ deleted <= deleted'
        /\ walk # "idle" => deleted' = deleted + 1
    <2>1. deleted' = IF walk = "idle" THEN deleted ELSE deleted + 1
      BY DEF DeleteTest
    <2>2. deleted \in Nat
      BY DEF TypeOK, WalkTypeOK
    <2> QED BY <2>1, <2>2
  <1>3. PICK j \in 1 .. Len(table) :
            /\ Len(table') = Len(table) - 1
            /\ \A i \in 1 .. Len(table) - 1 : table'[i] = table[IF i < j THEN i ELSE i + 1]
    BY DeleteMoves
  <1>4. TypeOK'
    BY TypeStep DEF Next
  <1>5. /\ Len(table) \in Nat /\ DOMAIN table = 1 .. Len(table) /\ j \in Nat
        /\ DOMAIN table' = 1 .. Len(table) - 1
    BY <1>3, <1>4, LenProperties DEF TypeOK, TableTypeOK
  <1>6. ASSUME NEW i \in Missed'
        PROVE  i \in Nat /\ (i < j => i \in Missed) /\ (~(i < j) => i + 1 \in Missed)
    <2>1. i \in 1 .. Len(table) - 1 /\ table'[i] \in before \ Range(seen)
      BY <1>1, <1>5 DEF Missed
    <2>2. i \in 1 .. Len(table) /\ i + 1 \in 1 .. Len(table) /\ i \in Nat
      BY <1>5, <2>1
    <2>3. table'[i] = table[IF i < j THEN i ELSE i + 1]
      BY <1>3, <2>1
    <2> QED BY <1>5, <2>1, <2>2, <2>3 DEF Missed
  <1>7. Offset' = Offset /\ Offset \in Nat /\ Offset + 1 \in Nat
    BY <1>1 DEF Offset, TypeOK, WalkTypeOK
  <1> DEFINE B == Passed \cup {Offset + 1}
  <1>8. ASSUME NEW i \in Passed'
        PROVE  i \in Nat /\ (i < j => i \in B) /\ (~(i < j) => i + 1 \in B)
    <2>1. i \in Missed' /\ i <= Offset
      BY <1>7 DEF Passed
    <2>2. i \in Nat /\ (i + 1 <= Offset \/ i + 1 = Offset + 1)
      BY <1>6, <1>7, <2>1
    <2> QED BY <1>6, <2>1, <2>2 DEF Passed
  <1>9. /\ IsFiniteSet(B) /\ Cardinality(B) <= Cardinality(Passed) + 1
        /\ Cardinality(B) \in Nat /\ B \in SUBSET Nat
    <2>1. IsFiniteSet({Offset + 1}) /\ Cardinality({Offset + 1}) = 1
      BY FS_Singleton
    <2>2. /\ IsFiniteSet(B) /\ Cardinality(B) \in Nat
          /\ Cardinality(B) <= Cardinality(Passed) + Cardinality({Offset + 1})
      BY <2>1, MissedIsFinite, UnionBound
    <2> QED BY <1>7, <2>1, <2>2, MissedIsFinite
  <1> HIDE DEF B
  <1>10. Missed' \in SUBSET Nat /\ Passed' \in SUBSET Nat
    BY <1>6, <1>8
  <1>11. Cardinality(Missed') \in Nat /\ Cardinality(Missed') <= Cardinality(Missed)
    BY <1>5, <1>6, <1>10, MissedIsFinite, MovedDown
  <1>12. Cardinality(Passed') \in Nat /\ Cardinality(Passed') <= Cardinality(B)
    BY <1>5, <1>8, <1>9, <1>10, MovedDown
  <1>13. /\ Cardinality(Missed) \in Nat /\ Cardinality(Passed) \in Nat
         /\ late \in Nat /\ lost \in Nat /\ total \in Nat
    BY MissedIsFinite DEF TypeOK, WalkTypeOK
  <1> QED BY <1>1, <1>2, <1>3, <1>5, <1>9, <1>11, <1>12, <1>13 DEF WalkInv, MissesAreExplained

(* A page that is read adds to what was missed no more than was cut off.   *)
LEMMA WalkSelect ==
  ASSUME TypeOK, WalkInv, ListSelect
  PROVE  WalkInv'
  <1>1. PICK k \in 0 .. Len(Page) : /\ seen' = seen \o SubSeq(Page, 1, k)
                                    /\ lost' = lost + (Len(Page) - k)
    BY DEF ListSelect
  <1>2. /\ walk = "counted"
        /\ UNCHANGED <<table, perPage, total, before, deleted, late>>
        /\ \/ walk' = "done" /\ page * perPage >= total /\ UNCHANGED page
           \/ walk' = "asking" /\ page' = page + 1
    BY DEF ListSelect, testVars, changes
  <1>3. /\ Len(table) \in Nat /\ DOMAIN table = 1 .. Len(table)
        /\ page \in Nat /\ perPage \in Nat /\ total \in Nat
        /\ page * perPage \in Nat /\ Offset \in Nat
        /\ deleted \in Nat /\ late \in Nat /\ lost \in Nat
    <2>1. page - 1 \in Nat
      BY DEF TypeOK, WalkTypeOK
    <2> QED BY <2>1, LenProperties DEF TypeOK, TableTypeOK, WalkTypeOK, Offset
  <1>4. Len(Page) \in Nat /\ k \in Nat /\ k <= Len(Page) /\ Len(Page) - k \in Nat
    BY PageType
  <1>5. Range(seen') = Range(seen) \cup Range(SubSeq(Page, 1, k))
    <2>1. SubSeq(Page, 1, k) \in Seq(Tests) /\ seen \in Seq(Tests)
      BY PageType DEF TypeOK, WalkTypeOK
    <2>2. Range(seen \o SubSeq(Page, 1, k)) = Range(seen) \cup Range(SubSeq(Page, 1, k))
      BY ONLY <2>1, RangeConcatenation
    <2> QED BY <1>1, <2>2
  <1> DEFINE C == Offset + k + 1 .. Offset + Len(Page)
             D == page * perPage + 1 .. Len(table)
  <1>6. ASSUME NEW i \in Missed' PROVE i \in Passed \cup C \cup D
    <2>1. i \in 1 .. Len(table) /\ table[i] \in before \ Range(seen')
      BY <1>2, <1>3 DEF Missed
    <2>2. i \in Missed
      BY <1>3, <1>5, <2>1 DEF Missed
    <2>3. CASE i <= page * perPage
      BY <1>5, <2>1, <2>2, <2>3, PageCovers DEF Passed
    <2>4. CASE ~(i <= page * perPage)
      BY <1>3, <2>1, <2>4
    <2> QED BY <2>3, <2>4
  <1>7. IsFiniteSet(C) /\ Cardinality(C) = Len(Page) - k
    <2> DEFINE a == Offset + k + 1
               b == Offset + Len(Page)
    <2>1. a \in Int /\ b \in Int /\ (a > b <=> k = Len(Page)) /\ b - a + 1 = Len(Page) - k
      BY <1>3, <1>4
    <2>2. C = a .. b
      OBVIOUS
    <2> HIDE DEF C, a, b
    <2>3. IsFiniteSet(C) /\ Cardinality(C) = IF a > b THEN 0 ELSE b - a + 1
      BY <2>1, <2>2, FS_Interval
    <2> QED BY <1>4, <2>1, <2>3
  <1>8. IsFiniteSet(D) /\ Cardinality(D) = IF page * perPage + 1 > Len(table) THEN 0
                                           ELSE Len(table) - page * perPage
    <2>1. page * perPage + 1 \in Int /\ Len(table) \in Int
      BY <1>3
    <2>2. /\ IsFiniteSet(D)
          /\ Cardinality(D) = IF page * perPage + 1 > Len(table) THEN 0
                              ELSE Len(table) - (page * perPage + 1) + 1
      BY <2>1, FS_Interval
    <2> HIDE DEF D
    <2> QED BY <1>3, <2>2
  <1> HIDE DEF C, D
  <1>9. /\ IsFiniteSet(Passed \cup C)
        /\ Cardinality(Passed \cup C) \in Nat
        /\ Cardinality(Passed \cup C) <= Cardinality(Passed) + (Len(Page) - k)
    BY <1>7, MissedIsFinite, UnionBound
  <1>10. Cardinality(Passed) <= deleted + lost /\ Len(table) <= total + late
    BY <1>2 DEF WalkInv
  <1>11. /\ lost' = lost + (Len(Page) - k) /\ Cardinality(Passed) \in Nat
         /\ deleted' = deleted /\ late' = late
    BY <1>1, <1>2, MissedIsFinite
  <1>12. Cardinality(Passed \cup C) <= deleted + lost'
    BY ONLY <1>3, <1>4, <1>9, <1>10, <1>11
  <1>13. CASE walk' = "done" /\ page * perPage >= total
    <2>1. Cardinality(D) <= late /\ Cardinality(D) \in Nat
      BY <1>3, <1>8, <1>10, <1>13
    <2>2. /\ IsFiniteSet((Passed \cup C) \cup D)
          /\ Cardinality((Passed \cup C) \cup D) \in Nat
          /\ Cardinality((Passed \cup C) \cup D) <= Cardinality(Passed \cup C) + Cardinality(D)
      BY <1>8, <1>9, UnionBound
    <2>3. Missed' \in SUBSET ((Passed \cup C) \cup D)
      BY <1>6
    <2>4. Cardinality(Missed') <= Cardinality((Passed \cup C) \cup D) /\ Cardinality(Missed') \in Nat
      BY <2>2, <2>3, FS_Subset, FS_CardinalityType
    <2>5. lost' \in Nat
      BY <1>3, <1>4, <1>11
    <2>6. Cardinality(Missed') <= deleted + late + lost'
      BY ONLY <1>3, <1>9, <1>12, <2>1, <2>2, <2>4, <2>5
    <2> QED BY <1>11, <1>13, <2>6 DEF WalkInv, MissesAreExplained
  <1>14. CASE walk' = "asking" /\ page' = page + 1
    <2>1. Offset' = page * perPage
      <3>1. page' - 1 = page /\ perPage' = perPage
        BY <1>2, <1>3, <1>14
      <3> QED BY <3>1 DEF Offset
    <2>2. ASSUME NEW i \in Passed' PROVE i \in Passed \cup C
      <3>1. i \in Missed' /\ i <= page * perPage
        BY <2>1 DEF Passed
      <3>2. i \in 1 .. Len(table)
        BY <1>2, <1>3, <3>1 DEF Missed
      <3>3. i \notin D
        BY <1>3, <3>1, <3>2 DEF D
      <3> QED BY <1>6, <3>1, <3>3
    <2>3. Passed' \in SUBSET (Passed \cup C)
      BY <2>2
    <2>4. Cardinality(Passed') <= Cardinality(Passed \cup C) /\ Cardinality(Passed') \in Nat
      BY <1>9, <2>3, FS_Subset, FS_CardinalityType
    <2>5. lost' \in Nat
      BY <1>3, <1>4, <1>11
    <2>6. Cardinality(Passed') <= deleted' + lost'
      BY ONLY <1>3, <1>9, <1>11, <1>12, <2>4, <2>5
    <2> QED BY <1>14, <2>6 DEF WalkInv, MissesAreExplained
  <1> QED BY <1>2, <1>13, <1>14

LEMMA WalkStep == TypeOK /\ WalkInv /\ [Next]_vars => WalkInv'
  <1> SUFFICES ASSUME TypeOK, WalkInv, [Next]_vars PROVE WalkInv'
    OBVIOUS
  <1>1. CASE UNCHANGED <<table, walkVars, changes>>
    BY <1>1 DEF WalkInv, MissesAreExplained, Missed, Passed, Offset, walkVars, changes
  <1>2. ASSUME NEW t \in Tests, (\E x \in Texts : UpdateTest(t, x)) \/ RunRead(t) PROVE WalkInv'
    BY <1>1, <1>2 DEF UpdateTest, RunRead, testVars
  <1>3. CASE RunCreate \/ (\E a \in Agents : RunQueue(a))
    BY <1>1, <1>3 DEF RunCreate, RunQueue, testVars
  <1>4. CASE WalkBegin
    <2>1. Offset' = 0
      <3>1. page' = 1 /\ perPage' \in Nat
        BY <1>4, TypeStep DEF WalkBegin, WalkInv, TypeOK, WalkTypeOK
      <3>2. \A n \in Nat : (1 - 1) * n = 0
        OBVIOUS
      <3> QED BY <3>1, <3>2 DEF Offset
    <2>2. DOMAIN table' = 1 .. Len(table) /\ Len(table) \in Nat
      BY <1>4, LenProperties DEF WalkBegin, testVars, TypeOK, TableTypeOK
    <2>3. Passed' = {}
      BY <2>1, <2>2 DEF Passed, Missed
    <2>4. Cardinality(Passed') = 0
      BY <2>3, FS_EmptySet
    <2>5. deleted' \in Nat /\ lost' \in Nat /\ walk' = "asking"
      BY <1>4 DEF WalkBegin, changes, TypeOK, WalkTypeOK
    <2>6. 0 <= deleted' + lost'
      <3>1. \A m, n \in Nat : 0 <= m + n
        OBVIOUS
      <3> QED BY ONLY <2>5, <3>1
    <2>7. Cardinality(Passed') <= deleted' + lost'
      BY ONLY <2>4, <2>6
    <2> QED BY <2>5, <2>7 DEF WalkInv, MissesAreExplained
  <1>5. CASE ListCount
    <2>1. Len(table) \in Nat /\ Cardinality(Passed) <= deleted + lost
      BY <1>5, LenProperties DEF ListCount, WalkInv, TypeOK, TableTypeOK
    <2>2. Passed' = Passed
      BY <1>5 DEF ListCount, Passed, Missed, Offset, testVars
    <2>3. /\ walk' = "counted" /\ total' = Len(table) /\ table' = table /\ late' = 0
          /\ UNCHANGED <<deleted, lost>>
      BY <1>5 DEF ListCount, testVars
    <2> QED BY <2>1, <2>2, <2>3 DEF WalkInv, MissesAreExplained
  <1>6. CASE UNCHANGED vars
    BY <1>1, <1>6 DEF vars, testVars
  <1> QED BY <1>2, <1>3, <1>4, <1>5, <1>6, WalkCreate, WalkDelete, WalkSelect DEF Next

(* A client that reads the pages of a listing to their end has missed no   *)
(* more of the rows that stayed than were deleted, created between a COUNT *)
(* and its SELECT, or cut off with a connection (ListTests,                *)
(* postgres.go:171-200).                                                   *)
THEOREM MissesHaveReasons == Spec => []MissesAreExplained
  <1>1. Init => WalkInv
    <2> SUFFICES ASSUME Init PROVE WalkInv
      OBVIOUS
    <2> QED BY DEF Init, WalkInv, MissesAreExplained
  <1>2. WalkInv => MissesAreExplained
    BY DEF WalkInv
  <1> QED BY <1>1, <1>2, WalkStep, TypeCorrect, PTL DEF Spec
=============================================================================
