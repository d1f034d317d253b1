----------------------------- MODULE CaseLibrary -----------------------------
(***************************************************************************)
(* One test case of a project: a user, the design stage of a run or the    *)
(* start of a next cycle writes it; users edit it, mark it READY and put   *)
(* it into a cycle; the grounding job rewrites its steps for the           *)
(* application; the executor of a cycle and the execution stage of a run   *)
(* take it.                                                                *)
(*                                                                         *)
(* Whether a case is READY is kept twice: the TCMS reads caseStatus, the   *)
(* STLC pipeline the older column readyForExecution.                       *)
(***************************************************************************)
EXTENDS Integers

CONSTANTS
  Editor,      \* requests of users who edit, apply or select
  Grounder,    \* slots with a grounding of the case: a ground-cases job, or a stage of a run
  Urls,        \* application URLs
  MaxText      \* bound: texts the case has over time

VARIABLES
  tc,          \* the row: life, archived, text, caseStatus, ready, design, url (the one its steps mention)
  appUrl,      \* project.appUrl
  texts,       \* texts written so far; each is a number
  epc, read,   \* request: idle, update, place, create; the row it read
  gndpc, gread,  \* grounding: idle, write; the steps it read ...
  gurl,        \* ... and the URL
  rostered,    \* the case is in a cycle
  marked,      \* history: the text a human last made READY
  excused,     \* history: since then, a write over a row that had changed since it was read, or a
               \* grounding; or no human has, and the design agent called the case ready
  ran          \* history: none, or what was executed last: a ready case, an unready one

users     == <<epc, read>>
grounding == <<gndpc, gread, gurl>>
caseVars  == <<tc, appUrl, texts, users, grounding, rostered, marked, excused, ran>>

CaseStatus == {"DRAFT", "APPROVED", "READY"}
Design     == {"GENERIC", "UI_GROUNDED"}
Row  == [life : {"none", "live", "gone"}, archived : BOOLEAN, text : 0..MaxText,
         caseStatus : CaseStatus, ready : BOOLEAN, design : Design, url : Urls \union {"none"}]
Blank == [life |-> "none", archived |-> FALSE, text |-> 0,
          caseStatus |-> "DRAFT", ready |-> FALSE, design |-> "GENERIC", url |-> "none"]
\* What a grounding takes from the row.
CaseSteps == [text : 0..MaxText, design : Design, url : Urls \union {"none"}]
StepsOf(c) == [text |-> c.text, design |-> c.design, url |-> c.url]
Form == [edit : {"none", "same", "new"}, status : CaseStatus \union {"keep"}]

CaseType ==
  /\ tc \in Row /\ appUrl \in Urls /\ texts \in 0..MaxText
  /\ epc \in [Editor -> {"idle", "update", "place", "create"}]
  /\ read \in [Editor -> Row]
  /\ gndpc \in [Grounder -> {"idle", "write"}] /\ gread \in [Grounder -> CaseSteps] /\ gurl \in [Grounder -> Urls]
  /\ rostered \in BOOLEAN /\ marked \in 0..MaxText /\ excused \in BOOLEAN
  /\ ran \in {"none", "ready", "unready"}

SomeUrl == CHOOSE a \in Urls : TRUE

CaseInit ==
  /\ tc = Blank /\ appUrl = SomeUrl /\ texts = 0
  /\ epc = [u \in Editor |-> "idle"] /\ read = [u \in Editor |-> Blank]
  /\ gndpc = [g \in Grounder |-> "idle"] /\ gread = [g \in Grounder |-> StepsOf(Blank)] /\ gurl = [g \in Grounder |-> SomeUrl]
  /\ rostered = FALSE /\ marked = 0 /\ excused = FALSE /\ ran = "none"

--------------------------------------------------------------------------------
(* The two columns.                                                           *)

normalizeCaseStatus(c) ==
  IF c.caseStatus = "APPROVED" THEN "APPROVED"
  ELSE IF c.caseStatus = "READY" \/ c.ready THEN "READY" ELSE "DRAFT"

isReadyCase(c) == normalizeCaseStatus(c) = "READY"

statusFields(c, s) == [c EXCEPT !.caseStatus = s, !.ready = (s = "READY")]

\* The row is written.  A human who sets READY vouches for the text the row has then.
Put(row, vouches) ==
  /\ tc' = row
  /\ marked' = IF vouches THEN row.text ELSE marked

Fresh == texts + 1
WriteText == texts < MaxText /\ texts' = Fresh

\* Steps written by hand, imported or suggested; they may mention the URL the old ones did.
Rewritten(row) == {[row EXCEPT !.text = Fresh, !.url = a] : a \in {row.url, "none"}}

EditDone(u) ==
  /\ epc' = [epc EXCEPT ![u] = "idle"]
  /\ read' = [read EXCEPT ![u] = Blank]

--------------------------------------------------------------------------------
(* Requests of one write.                                                     *)

createTestCase(s) ==
  /\ tc.life = "none"
  /\ WriteText
  /\ \E d \in Design :
       Put([statusFields(tc, s) EXCEPT !.life = "live", !.text = Fresh, !.design = d], s = "READY")
  /\ UNCHANGED <<appUrl, users, grounding, rostered, excused, ran>>

\* The design stage of a run writes its cases (a retry deletes them and writes others).  The
\* agent may call one ready that no human has looked at.
designStage(ready) ==
  /\ tc.life = "none"
  /\ WriteText
  /\ \E d \in Design :
       Put([statusFields(tc, IF ready THEN "READY" ELSE "DRAFT")
              EXCEPT !.life = "live", !.text = Fresh, !.design = d], FALSE)
  /\ excused' = ready
  /\ UNCHANGED <<appUrl, users, grounding, rostered, ran>>

\* A case of the cycle before is copied with the older column and without its status.  What a
\* human vouched for there is vouched for in the copy.
startNextCycle(ready, vouched) ==
  /\ tc.life = "none"
  /\ WriteText
  /\ \E d \in Design, a \in {"none", appUrl} :
       Put([tc EXCEPT !.life = "live", !.text = Fresh, !.caseStatus = "DRAFT", !.ready = ready,
                      !.design = d, !.url = a], ready /\ vouched)
  /\ excused' = (ready /\ ~vouched)
  /\ UNCHANGED <<appUrl, users, grounding, rostered, ran>>

\* setCaseStatus, markCasesReady and bulkUpdateTestCases write the columns of any case.
setCaseStatus(s) ==
  /\ tc.life = "live"
  /\ Put(statusFields(tc, s), s = "READY")
  /\ excused' = (excused /\ s # "READY")
  /\ UNCHANGED <<appUrl, texts, users, grounding, rostered, ran>>

\* An imported row is a draft.
importTestCases ==
  /\ tc.life = "live"
  /\ WriteText
  /\ \E row \in Rewritten(tc) : Put([statusFields(row, "DRAFT") EXCEPT !.design = "GENERIC"], FALSE)
  /\ UNCHANGED <<appUrl, users, grounding, rostered, excused, ran>>

deleteTestCase(permanent) ==
  /\ tc.life = "live"
  /\ Put(IF permanent THEN [Blank EXCEPT !.life = "gone"] ELSE [tc EXCEPT !.archived = TRUE], FALSE)
  /\ UNCHANGED <<appUrl, texts, users, grounding, rostered, excused, ran>>

restoreTestCase ==
  /\ tc.life = "live"
  /\ Put([tc EXCEPT !.archived = FALSE], FALSE)
  /\ UNCHANGED <<appUrl, texts, users, grounding, rostered, excused, ran>>

saveEnvironment(a) ==
  /\ appUrl' = a
  /\ UNCHANGED <<tc, texts, users, grounding, rostered, marked, excused, ran>>

--------------------------------------------------------------------------------
(* Requests that read the case and write it, or a cycle, later.               *)

BeginUpdate(u) ==
  /\ epc[u] = "idle" /\ tc.life = "live"
  /\ epc' = [epc EXCEPT ![u] = "update"]
  /\ read' = [read EXCEPT ![u] = tc]
  /\ UNCHANGED <<tc, appUrl, texts, grounding, rostered, marked, excused, ran>>

\* Slip: an approved case keeps its status when its text changes.
DraftOnlyApproved(f, row) ==
  IF f.status # "keep" THEN f.status
  ELSE IF f.edit = "new" /\ row.caseStatus = "APPROVED" THEN "DRAFT" ELSE "keep"

\* A changed text takes a case back to DRAFT, unless the form names a status.
StatusPatch(f, row) ==
  IF f.status # "keep" THEN f.status
  ELSE IF f.edit = "new" /\ normalizeCaseStatus(row) # "DRAFT" THEN "DRAFT" ELSE "keep"

\* A form sends the text it was opened with, changed or not, or leaves it out; it may send a
\* design mode.
updateTestCase(u, f) ==
  /\ epc[u] = "update" /\ tc.life = "live"
  /\ IF f.edit = "new" THEN WriteText ELSE UNCHANGED texts
  /\ LET s    == StatusPatch(f, read[u])
         rows == CASE f.edit = "new"  -> Rewritten(tc)
                   [] f.edit = "same" -> {[tc EXCEPT !.text = read[u].text, !.url = read[u].url]}
                   [] OTHER                 -> {tc}
     IN /\ \E row \in rows, d \in Design :
             Put([IF s = "keep" THEN row ELSE statusFields(row, s) EXCEPT !.design = d], s = "READY")
        /\ excused' = (s # "READY" /\ (excused \/ tc # read[u]))
  /\ EditDone(u)
  /\ UNCHANGED <<appUrl, grounding, rostered, ran>>

\* generateApply: the case that matches gets the text as a draft (testcase.upsert) ...
upsert(u) ==
  /\ epc[u] = "idle" /\ tc.life = "live" /\ ~tc.archived
  /\ WriteText
  /\ \E row \in Rewritten(tc) : Put(statusFields(row, "DRAFT"), FALSE)
  /\ epc' = [epc EXCEPT ![u] = "place"]
  /\ UNCHANGED <<appUrl, read, grounding, rostered, excused, ran>>

\* ... and is put into its suite, as a draft once more.
generateApply(u) ==
  /\ epc[u] = "place" /\ tc.life = "live"
  /\ Put(statusFields(tc, "DRAFT"), FALSE)
  /\ EditDone(u)
  /\ UNCHANGED <<appUrl, texts, grounding, rostered, excused, ran>>

\* Only a READY case goes into a cycle, by the look the handler takes first.
resolveRunCaseIds(u) ==
  /\ epc[u] = "idle" /\ ~rostered
  /\ tc.life = "live" /\ ~tc.archived /\ isReadyCase(tc)
  /\ epc' = [epc EXCEPT ![u] = "create"]
  /\ UNCHANGED <<tc, appUrl, texts, read, grounding, rostered, marked, excused, ran>>

createTcmsRun(u) ==
  /\ epc[u] = "create"
  /\ rostered' = TRUE
  /\ EditDone(u)
  /\ UNCHANGED <<tc, appUrl, texts, grounding, marked, excused, ran>>

\* The row is gone, or another call failed.
Throw(u) ==
  /\ epc[u] # "idle"
  /\ EditDone(u)
  /\ UNCHANGED <<tc, appUrl, texts, grounding, rostered, marked, excused, ran>>

--------------------------------------------------------------------------------
(* groundExecutionCases, by a job of its own or in a stage of a run.          *)

GroundRead(g) ==
  /\ gndpc[g] = "idle" /\ tc.life = "live"
  /\ gndpc' = [gndpc EXCEPT ![g] = "write"]
  /\ gread' = [gread EXCEPT ![g] = StepsOf(tc)]
  /\ gurl' = [gurl EXCEPT ![g] = appUrl]
  /\ UNCHANGED <<tc, appUrl, texts, users, rostered, marked, excused, ran>>

GroundDone(g) ==
  /\ gndpc' = [gndpc EXCEPT ![g] = "idle"]
  /\ gread' = [gread EXCEPT ![g] = StepsOf(Blank)]
  /\ gurl' = [gurl EXCEPT ![g] = SomeUrl]

\* A case whose steps mention the URL is written back as it was read; any other gets new
\* steps, and loses readyForExecution when this was its first grounding.
GroundWrite(g) ==
  /\ gndpc[g] = "write" /\ tc.life = "live"
  /\ IF gread[g].design = "UI_GROUNDED" /\ gread[g].url = gurl[g]
       THEN /\ tc' = [tc EXCEPT !.text = gread[g].text, !.design = "UI_GROUNDED", !.url = gurl[g]]
            /\ UNCHANGED texts
       ELSE /\ WriteText
            /\ tc' = [tc EXCEPT !.text = Fresh, !.design = "UI_GROUNDED", !.url = gurl[g],
                                !.ready = @ /\ gread[g].design = "UI_GROUNDED"]
  /\ excused' = TRUE
  /\ GroundDone(g)
  /\ UNCHANGED <<appUrl, users, rostered, marked, ran>>

GroundStops(g) ==
  /\ gndpc[g] = "write"
  /\ GroundDone(g)
  /\ UNCHANGED <<tc, appUrl, texts, users, rostered, marked, excused, ran>>

--------------------------------------------------------------------------------
(* Execution.                                                                 *)

Runs(c) == ran' = IF isReadyCase(c) THEN "ready" ELSE "unready"

\* The AI executor and the runners take what the cycle holds, archived cases excepted.
runAiExecuteJob ==
  /\ rostered /\ tc.life = "live" /\ ~tc.archived
  /\ Runs(tc)
  /\ UNCHANGED <<tc, appUrl, texts, users, grounding, rostered, marked, excused>>

\* The execution stage of a run takes the cases whose older column says so.
executeStage ==
  /\ tc.life = "live" /\ tc.ready
  /\ Runs(tc)
  /\ UNCHANGED <<tc, appUrl, texts, users, grounding, rostered, marked, excused>>

--------------------------------------------------------------------------------
CaseNext ==
  \/ \E s \in CaseStatus : createTestCase(s) \/ setCaseStatus(s)
  \/ \E r, v \in BOOLEAN : designStage(r) \/ startNextCycle(r, v)
  \/ importTestCases \/ restoreTestCase \/ \E p \in BOOLEAN : deleteTestCase(p)
  \/ \E a \in Urls : saveEnvironment(a)
  \/ \E u \in Editor :
       \/ BeginUpdate(u) \/ \E f \in Form : updateTestCase(u, f)
       \/ upsert(u) \/ generateApply(u)
       \/ resolveRunCaseIds(u) \/ createTcmsRun(u) \/ Throw(u)
  \/ \E g \in Grounder : GroundRead(g) \/ GroundWrite(g) \/ GroundStops(g)
  \/ runAiExecuteJob \/ executeStage

CaseSpec == CaseInit /\ [][CaseNext]_caseVars

--------------------------------------------------------------------------------
\* Unless the grounding job has rewritten it, an edit overlapped another write, or the design
\* agent itself called it ready, a case that a cycle or a run would take has the text a human made
\* READY: every other way to a new text (forms, imports, applied suggestions) takes the case back
\* to DRAFT, in both columns, also from the one column that a copied case keeps.
ReadyAsMarked ==
  (isReadyCase(tc) \/ tc.ready) => tc.text = marked \/ excused

\* schema.prisma:605 "Ready is the only status execution may run": a case that is executed is
\* READY by then, not only when its cycle was made.
OnlyReadyRun == ran # "unready"
=============================================================================
