------------------------------ MODULE Catalog -------------------------------
(***************************************************************************)
(* The test definitions (internal/api/handler.go, createTest, updateTest,  *)
(* deleteTest, getTest, listTests and listTestRuns; the tests table in     *)
(* internal/store/postgres.go): what is stored, which version of a         *)
(* scenario a run takes when it is edited meanwhile, and what a client     *)
(* sees that reads the pages of a listing while the table changes.         *)
(*                                                                         *)
(* Simplifications: a scenario text is a version of which all that matters *)
(* is whether config.LoadFromString takes it; a run takes one request at a *)
(* time, and the agents stay online (RunControl has the rest); no two rows *)
(* have the same created_at, so that the order of a listing is one.        *)
(***************************************************************************)
EXTENDS Naturals, Sequences, SequencesExt

CONSTANTS Tests, Agents,
          ValidTexts, InvalidTexts, \* scenario texts; "" is one that is not valid
          MaxPerPage,      \* the largest page (100)
          DefaultPerPage,  \* the page for a size out of range (20)
          Requested,       \* page sizes clients ask for
          MaxRuns          \* bound of the model on the runs of the tests

ASSUME TextsAssumption == ValidTexts \cap InvalidTexts = {} /\ "" \in InvalidTexts
ASSUME PagesAssumption == MaxPerPage \in Nat /\ DefaultPerPage \in 1 .. MaxPerPage
                          /\ Requested \subseteq Nat

VARIABLES table,   \* the rows of tests, the newest first: ORDER BY created_at DESC
          text,    \* text[t]: tests.scenario_yaml, "" without a row
          used,    \* IDs that were created
          run,     \* where the goroutine of runTest is
          runTest, \* the test it runs
          runText, \* test.ScenarioYAML, read at its start
          waiting, \* agents it has still to queue the start for
          runs,    \* rows of test_runs: TotalVUsers and DurationSeconds come from text
          queued,  \* commands queued: [run, text]
          walk,    \* where the client that lists the tests is
          page, perPage, total, \* of its request, and of COUNT
          seen,    \* the rows of the pages it got
          before,  \* history: the rows when it began
          deleted, \* history: how many rows were deleted since then
          late,    \* history: how many were created since the last COUNT, before its SELECT
          lost     \* history: how many were cut off from the pages by errors

testVars == <<table, text, used>>
runVars  == <<run, runTest, runText, waiting, runs, queued>>
changes  == <<deleted, late>>
walkVars == <<walk, page, perPage, total, seen, before, lost>>
vars == <<testVars, runVars, walkVars, changes>>

Texts == ValidTexts \cup InvalidTexts
Rows  == Range(table)
Loads(x) == x \in ValidTexts

Init ==
    /\ table = <<>> /\ text = [t \in Tests |-> ""] /\ used = {}
    /\ run = "free" /\ runTest = "" /\ runText = "" /\ waiting = {}
    /\ runs = <<>> /\ queued = {}
    /\ walk = "idle" /\ page = 1 /\ perPage = DefaultPerPage /\ total = 0
    /\ seen = <<>> /\ before = {}
    /\ deleted = 0 /\ late = 0 /\ lost = 0
-----------------------------------------------------------------------------
(* POST /tests: the text is validated, the row is new.                     *)
CreateTest(t, x) ==
    /\ t \notin used
    /\ Loads(x)
    /\ used'  = used \cup {t}
    /\ table' = <<t>> \o table
    /\ text'  = [text EXCEPT ![t] = x]
    /\ late'  = IF walk = "counted" THEN late + 1 ELSE late
    /\ UNCHANGED <<runVars, walkVars, deleted>>

(* A scenario of an update is validated, unless there is none.             *)
MayUpdate(x) == x = "" \/ Loads(x)

(* PUT /tests/{id}: name and text are replaced, a text that is left out by *)
(* the empty one.                                                          *)
UpdateTest(t, x) ==
    /\ t \in Rows
    /\ MayUpdate(x)
    /\ text' = [text EXCEPT ![t] = x]
    /\ UNCHANGED <<table, used, runVars, walkVars, changes>>

(* DELETE /tests/{id}                                                      *)
DeleteTest(t) ==
    /\ \E i \in DOMAIN table : table[i] = t /\ table' = RemoveAt(table, i)
    /\ text'    = [text EXCEPT ![t] = ""]
    /\ deleted' = IF walk = "idle" THEN deleted ELSE deleted + 1
    /\ UNCHANGED <<used, runVars, walkVars, late>>
-----------------------------------------------------------------------------
(* POST /tests/{id}/run, as far as it reads the definition                 *)

(* GetTest, then LoadFromString: the text is kept for the whole request.   *)
RunRead(t) ==
    /\ run = "free" /\ Len(runs) < MaxRuns
    /\ t \in Rows /\ Loads(text[t])
    /\ run' = "read" /\ runTest' = t /\ runText' = text[t]
    /\ UNCHANGED <<testVars, waiting, runs, queued, walkVars, changes>>

(* CreateTestRun, with the VUsers and the duration of that text.  The test *)
(* may be gone, and the call may fail.                                     *)
RunCreate ==
    /\ run = "read"
    /\ \/ /\ runTest \in Rows
          /\ runs' = Append(runs, [test |-> runTest, text |-> runText])
          /\ run' = "created" /\ waiting' = Agents
          /\ UNCHANGED <<runTest, runText>>
       \/ /\ run' = "free" /\ runTest' = "" /\ runText' = ""
          /\ UNCHANGED <<runs, waiting>>
    /\ UNCHANGED <<testVars, queued, walkVars, changes>>

(* Mutant: the text is read again for the command.                         *)
CommandText == text[runTest]

(* The text of the command EnqueueStartTest puts in the channel.           *)
StartText == runText

RunQueue(a) ==
    /\ run = "created" /\ a \in waiting
    /\ queued'  = queued \cup {[run |-> Len(runs), text |-> StartText]}
    /\ waiting' = waiting \ {a}
    /\ IF waiting = {a} THEN run' = "free" /\ runTest' = "" /\ runText' = ""
       ELSE UNCHANGED <<run, runTest, runText>>
    /\ UNCHANGED <<testVars, runs, walkVars, changes>>
-----------------------------------------------------------------------------
(* A client reads GET /tests?page=1, 2, ... as often as total and per_page *)
(* of the responses say; the client is the model's own                     *)

(* getPagination                                                           *)
Clamped(n) == IF n \in 1 .. MaxPerPage THEN n ELSE DefaultPerPage

WalkBegin ==
    /\ walk = "idle"
    /\ \E n \in Requested : perPage' = Clamped(n)
    /\ walk' = "asking" /\ before' = Rows
    /\ UNCHANGED <<testVars, runVars, page, total, seen, lost, changes>>

(* SELECT COUNT, a statement of its own.                                   *)
ListCount ==
    /\ walk = "asking"
    /\ total' = Len(table)
    /\ walk'  = "counted"
    /\ late'  = 0
    /\ UNCHANGED <<testVars, runVars, page, perPage, seen, before, lost, deleted>>

(* Mutant: the first page is page 0.                                       *)
OffsetFromZero == page * perPage

Offset == (page - 1) * perPage

(* SELECT ... ORDER BY created_at DESC LIMIT OFFSET, as listTestRuns has   *)
(* it for the runs of a test.                                              *)
Page == SubSeq(table, Offset + 1, IF Offset + perPage < Len(table) THEN Offset + perPage
                                  ELSE Len(table))

(* The page is the client's, or the front of it: rows.Err is not looked    *)
(* at, and a connection that breaks while rows are read ends the loop.     *)
ListSelect ==
    /\ walk = "counted"
    /\ \E k \in 0 .. Len(Page) :
          /\ seen' = seen \o SubSeq(Page, 1, k)
          /\ lost' = lost + (Len(Page) - k)
    /\ IF page * perPage >= total THEN walk' = "done" /\ UNCHANGED page
       ELSE walk' = "asking" /\ page' = page + 1
    /\ UNCHANGED <<testVars, runVars, perPage, total, before, changes>>

Next ==
    \/ \E t \in Tests :
          \/ \E x \in Texts : CreateTest(t, x) \/ UpdateTest(t, x)
          \/ DeleteTest(t) \/ RunRead(t)
    \/ RunCreate \/ \E a \in Agents : RunQueue(a)
    \/ WalkBegin \/ ListCount \/ ListSelect

Spec == Init /\ [][Next]_vars
-----------------------------------------------------------------------------
(* All agents of a run execute one version of the scenario, the one its    *)
(* VUsers and its duration were recorded from, however often the test is   *)
(* edited or deleted between the response and the commands.                *)
OneVersionPerRun == \A c \in queued : c.text = runs[c.run].text /\ Loads(c.text)

(* The rows that were there when the client began, still are, and that it  *)
(* was not shown, by their places.                                         *)
Missed == {i \in DOMAIN table : table[i] \in before \ Range(seen)}

(* Of the rows that stayed, a client that reads all pages misses no more   *)
(* than there are reasons for: a row that is deleted moves one row past    *)
(* it, a row created between the last COUNT and its SELECT leaves one      *)
(* behind the last page, and there are those a broken connection cut off.  *)
(* Rows created at any other time push others to a later page, and it      *)
(* misses none for them.                                                   *)
MissesAreExplained == walk = "done" => Cardinality(Missed) <= deleted + late + lost
=============================================================================
