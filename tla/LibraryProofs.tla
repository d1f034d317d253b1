------------------------------ MODULE LibraryProofs ------------------------------
(***************************************************************************)
(* What the test library keeps: the text of a case that is READY, the      *)
(* suggestions of a generate run and what was decided about them, and the  *)
(* scripts that heal by themselves.                                        *)
(***************************************************************************)
EXTENDS CaseLibrary, AiGenerateRun, ScriptHealing, FiniteSetTheorems, TLAPS

--------------------------------------------------------------------------------
(* The cases.  A READY case has the text a human made READY, for any number of users,          *)
(* groundings, URLs and texts.  ReadyAsMarked is inductive over typed states: what overlaps is *)
(* excused by the write that comes second, and a form that finds the row as it read it knows   *)
(* whether the case is READY.                                                                  *)

CaseInv == CaseType /\ ReadyAsMarked

\* The constants the types are made of.
CasesBounded == MaxText \in Nat /\ Urls # {}

LEMMA SomeUrlTyped == ASSUME CasesBounded PROVE SomeUrl \in Urls
PROOF BY DEF CasesBounded, SomeUrl

\* A row is written with both columns set.
LEMMA StatusWritten ==
  ASSUME NEW c \in Row, NEW s \in CaseStatus
  PROVE  /\ statusFields(c, s) \in Row
         /\ statusFields(c, s).caseStatus = s /\ statusFields(c, s).ready = (s = "READY")
         /\ statusFields(c, s).text = c.text
PROOF
  <1>1. statusFields(c, s) = [c EXCEPT !.caseStatus = s, !.ready = (s = "READY")] BY DEF statusFields
  <1>2. statusFields(c, s) \in Row BY <1>1 DEF Row
  <1>3. statusFields(c, s).caseStatus = s BY <1>1 DEF Row
  <1>4. statusFields(c, s).ready = (s = "READY") BY <1>1 DEF Row
  <1>5. statusFields(c, s).text = c.text BY <1>1 DEF Row
  <1> QED BY <1>2, <1>3, <1>4, <1>5

\* What the two columns say together.
LEMMA Normalized ==
  ASSUME NEW c \in Row
  PROVE  /\ isReadyCase(c) <=> c.caseStatus = "READY" \/ (c.caseStatus = "DRAFT" /\ c.ready)
         /\ normalizeCaseStatus(c) = "DRAFT" <=> c.caseStatus = "DRAFT" /\ ~c.ready
PROOF
  <1>1. c.caseStatus \in {"DRAFT", "APPROVED", "READY"} /\ c.ready \in BOOLEAN
    BY DEF Row, CaseStatus
  <1>2. CASE c.caseStatus = "APPROVED"
    BY <1>2 DEF isReadyCase, normalizeCaseStatus
  <1>3. CASE c.caseStatus = "READY"
    BY <1>3 DEF isReadyCase, normalizeCaseStatus
  <1>4. CASE c.caseStatus = "DRAFT" /\ c.ready
    BY <1>4 DEF isReadyCase, normalizeCaseStatus
  <1>5. CASE c.caseStatus = "DRAFT" /\ ~c.ready
    BY <1>5 DEF isReadyCase, normalizeCaseStatus
  <1> QED BY <1>1, <1>2, <1>3, <1>4, <1>5

\* READY in neither column, or with the text that was marked.
Vouched(row, mark) == (isReadyCase(row) \/ row.ready) => row.text = mark

\* A row with both columns set for s is vouched for by a mark that is made when s is READY.
LEMMA Statused ==
  ASSUME NEW row \in Row, NEW s \in CaseStatus, NEW mark,
         row.caseStatus = s, row.ready = (s = "READY"), s = "READY" => mark = row.text
  PROVE  Vouched(row, mark)
PROOF
  <1>1. isReadyCase(row) \/ row.ready => s = "READY" BY Normalized
  <1> QED BY <1>1 DEF Vouched

\* A row of the same text and status needs no new mark.
LEMMA SameText ==
  ASSUME NEW row \in Row, NEW c \in Row, NEW mark, Vouched(c, mark),
         row.caseStatus = c.caseStatus, row.ready = c.ready, row.text = c.text
  PROVE  Vouched(row, mark)
PROOF BY Normalized DEF Vouched

\* A text is new when it is written.
LEMMA FreshTyped == ASSUME CasesBounded, CaseType, WriteText PROVE Fresh \in 0..MaxText /\ texts' \in 0..MaxText
PROOF BY DEF CasesBounded, CaseType, WriteText, Fresh

\* New steps change the text and the URL, and the row stays a row.
LEMMA RewrittenTyped ==
  ASSUME CasesBounded, CaseType, WriteText, NEW c \in Row, NEW row \in Rewritten(c)
  PROVE  row \in Row /\ row.caseStatus = c.caseStatus /\ row.ready = c.ready
PROOF BY FreshTyped DEF Rewritten, Row

LEMMA BlankTyped ==
  ASSUME CasesBounded PROVE Blank \in Row /\ Blank.caseStatus = "DRAFT" /\ Blank.ready = FALSE
PROOF BY DEF CasesBounded, Blank, Row, CaseStatus, Design

LEMMA StepsTyped == ASSUME NEW c \in Row PROVE StepsOf(c) \in CaseSteps
PROOF BY DEF StepsOf, CaseSteps, Row

LEMMA CaseInitInv == ASSUME CasesBounded PROVE CaseInit => CaseInv
PROOF
  <1> SUFFICES ASSUME CaseInit PROVE CaseInv OBVIOUS
  <1>1. Blank \in Row /\ Blank.caseStatus = "DRAFT" /\ Blank.ready = FALSE BY BlankTyped
  <1>3. 0 \in 0..MaxText BY DEF CasesBounded
  <1>4. CaseType BY <1>1, <1>3, StepsTyped, SomeUrlTyped DEF CaseInit, CaseType
  <1>5. Vouched(tc, marked) BY <1>1, Statused DEF CaseInit, CaseStatus
  <1> QED BY <1>4, <1>5 DEF CaseInv, ReadyAsMarked, Vouched

--------------------------------------------------------------------------------
(* Types.                                                                     *)

\* What Put writes is a row, and marked a text.
LEMMA PutTyped ==
  ASSUME CaseType, NEW row \in Row, NEW v \in BOOLEAN, Put(row, v)
  PROVE  tc' = row /\ tc' \in Row /\ marked' \in 0..MaxText
PROOF BY DEF CaseType, Put, Row

LEMMA EditDoneTyped ==
  ASSUME CasesBounded, CaseType, NEW u \in Editor, EditDone(u)
  PROVE  /\ epc' \in [Editor -> {"idle", "update", "place", "create"}]
         /\ read' \in [Editor -> Row]
PROOF
  <1>1. Blank \in Row BY DEF CasesBounded, Blank, Row, CaseStatus, Design
  <1> QED BY <1>1 DEF CaseType, EditDone

LEMMA GroundDoneTyped ==
  ASSUME CasesBounded, CaseType, NEW g \in Grounder, GroundDone(g)
  PROVE  /\ gndpc' \in [Grounder -> {"idle", "write"}]
         /\ gread' \in [Grounder -> CaseSteps] /\ gurl' \in [Grounder -> Urls]
PROOF
  <1>1. Blank \in Row BY DEF CasesBounded, Blank, Row, CaseStatus, Design
  <1> QED BY <1>1, StepsTyped, SomeUrlTyped DEF CaseType, GroundDone

\* What startNextCycle makes of a case.
Copied(r, d, a) ==
  [tc EXCEPT !.life = "live", !.text = Fresh, !.caseStatus = "DRAFT", !.ready = r, !.design = d, !.url = a]

LEMMA CopyTyped ==
  ASSUME CaseType, Fresh \in 0..MaxText, NEW r \in BOOLEAN, NEW d \in Design, NEW a \in {"none", appUrl}
  PROVE  /\ Copied(r, d, a) \in Row
         /\ Copied(r, d, a).caseStatus = "DRAFT" /\ Copied(r, d, a).ready = r
PROOF
  <1> DEFINE one == [tc EXCEPT !.life = "live", !.text = Fresh, !.caseStatus = "DRAFT"]
  <1>1. one \in Row /\ one.caseStatus = "DRAFT" BY DEF CaseType, Row, CaseStatus
  <1>2. Copied(r, d, a) = [one EXCEPT !.ready = r, !.design = d, !.url = a] BY DEF Copied
  <1> HIDE DEF one
  <1>3. a \in Urls \union {"none"} BY DEF CaseType
  <1> QED BY <1>1, <1>2, <1>3 DEF Row

LEMMA RequestTypes ==
  ASSUME CasesBounded, CaseType,
         \/ \E s \in CaseStatus : createTestCase(s) \/ setCaseStatus(s)
         \/ \E r, v \in BOOLEAN : designStage(r) \/ startNextCycle(r, v)
         \/ importTestCases \/ restoreTestCase \/ \E p \in BOOLEAN : deleteTestCase(p)
         \/ \E a \in Urls : saveEnvironment(a)
  PROVE  CaseType'
PROOF
  <1>1. ASSUME NEW s \in CaseStatus, createTestCase(s) PROVE CaseType'
    <2>1. Fresh \in 0..MaxText /\ texts' \in 0..MaxText BY <1>1, FreshTyped DEF createTestCase
    <2>2. PICK d \in Design :
            Put([statusFields(tc, s) EXCEPT !.life = "live", !.text = Fresh, !.design = d], s = "READY")
      BY <1>1 DEF createTestCase
    <2>3. [statusFields(tc, s) EXCEPT !.life = "live", !.text = Fresh, !.design = d] \in Row
      <3>1. statusFields(tc, s) \in Row BY StatusWritten DEF CaseType
      <3> QED BY <2>1, <3>1 DEF Row
    <2>4. tc' \in Row /\ marked' \in 0..MaxText BY <2>2, <2>3, PutTyped
    <2> QED BY <1>1, <2>1, <2>4 DEF CaseType, createTestCase, users, grounding
  <1>2. ASSUME NEW s \in CaseStatus, setCaseStatus(s) PROVE CaseType'
    <2>1. statusFields(tc, s) \in Row BY StatusWritten DEF CaseType
    <2>2. tc' \in Row /\ marked' \in 0..MaxText BY <1>2, <2>1, PutTyped DEF setCaseStatus
    <2>3. excused' \in BOOLEAN BY <1>2 DEF setCaseStatus
    <2> QED BY <1>2, <2>2, <2>3 DEF CaseType, setCaseStatus, users, grounding
  <1>3. ASSUME importTestCases PROVE CaseType'
    <2>1. texts' \in 0..MaxText BY <1>3, FreshTyped DEF importTestCases
    <2>2. PICK row \in Rewritten(tc) : Put([statusFields(row, "DRAFT") EXCEPT !.design = "GENERIC"], FALSE)
      BY <1>3 DEF importTestCases
    <2>3. row \in Row BY <1>3, RewrittenTyped DEF CaseType, importTestCases
    <2>4. [statusFields(row, "DRAFT") EXCEPT !.design = "GENERIC"] \in Row
      BY <2>3, StatusWritten DEF CaseStatus, Row, Design
    <2>5. tc' \in Row /\ marked' \in 0..MaxText BY <2>2, <2>4, PutTyped
    <2> QED BY <1>3, <2>1, <2>5 DEF CaseType, importTestCases, users, grounding
  <1>4. ASSUME restoreTestCase PROVE CaseType'
    <2>1. [tc EXCEPT !.archived = FALSE] \in Row BY DEF CaseType, Row
    <2>2. tc' \in Row /\ marked' \in 0..MaxText BY <1>4, <2>1, PutTyped DEF restoreTestCase
    <2> QED BY <1>4, <2>2 DEF CaseType, restoreTestCase, users, grounding
  <1>5. ASSUME NEW p \in BOOLEAN, deleteTestCase(p) PROVE CaseType'
    <2>1. (IF p THEN [Blank EXCEPT !.life = "gone"] ELSE [tc EXCEPT !.archived = TRUE]) \in Row
      BY BlankTyped DEF CaseType, Row
    <2>2. tc' \in Row /\ marked' \in 0..MaxText BY <1>5, <2>1, PutTyped DEF deleteTestCase
    <2> QED BY <1>5, <2>2 DEF CaseType, deleteTestCase, users, grounding
  <1>6. ASSUME NEW a \in Urls, saveEnvironment(a) PROVE CaseType'
    BY <1>6 DEF CaseType, saveEnvironment, users, grounding
  <1>7. ASSUME NEW r \in BOOLEAN, designStage(r) PROVE CaseType'
    <2>1. Fresh \in 0..MaxText /\ texts' \in 0..MaxText BY <1>7, FreshTyped DEF designStage
    <2>2. PICK d \in Design :
            Put([statusFields(tc, IF r THEN "READY" ELSE "DRAFT")
                   EXCEPT !.life = "live", !.text = Fresh, !.design = d], FALSE)
      BY <1>7 DEF designStage
    <2>3. statusFields(tc, IF r THEN "READY" ELSE "DRAFT") \in Row BY StatusWritten DEF CaseType, CaseStatus
    <2>4. [statusFields(tc, IF r THEN "READY" ELSE "DRAFT")
             EXCEPT !.life = "live", !.text = Fresh, !.design = d] \in Row
      BY <2>1, <2>3 DEF Row
    <2>5. tc' \in Row /\ marked' \in 0..MaxText BY <2>2, <2>4, PutTyped
    <2> QED BY <1>7, <2>1, <2>5 DEF CaseType, designStage, users, grounding
  <1>8. ASSUME NEW r \in BOOLEAN, NEW v \in BOOLEAN, startNextCycle(r, v) PROVE CaseType'
    <2>1. Fresh \in 0..MaxText /\ texts' \in 0..MaxText BY <1>8, FreshTyped DEF startNextCycle
    <2>2. PICK d \in Design, a \in {"none", appUrl} : Put(Copied(r, d, a), r /\ v)
      BY <1>8 DEF startNextCycle, Copied
    <2>3. Copied(r, d, a) \in Row BY <2>1, CopyTyped
    <2>4. tc' \in Row /\ marked' \in 0..MaxText BY <2>2, <2>3, PutTyped
    <2> QED BY <1>8, <2>1, <2>4 DEF CaseType, startNextCycle, users, grounding
  <1> QED BY <1>1, <1>2, <1>3, <1>4, <1>5, <1>6, <1>7, <1>8

\* What updateTestCase writes.
EditRows(u, f) ==
  CASE f.edit = "new"  -> Rewritten(tc)
    [] f.edit = "same" -> {[tc EXCEPT !.text = read[u].text, !.url = read[u].url]}
    [] OTHER                 -> {tc}

LEMMA RowsTyped ==
  ASSUME CasesBounded, CaseType, NEW u \in Editor, NEW f \in Form, updateTestCase(u, f), NEW row \in EditRows(u, f)
  PROVE  /\ row \in Row /\ row.caseStatus = tc.caseStatus /\ row.ready = tc.ready
         /\ f.edit # "new" /\ tc = read[u] => row.text = tc.text
PROOF
  <1>1. tc \in Row /\ read[u] \in Row BY DEF CaseType
  <1>2. CASE f.edit = "new"
    <2>1. WriteText /\ row \in Rewritten(tc) BY <1>2 DEF updateTestCase, EditRows
    <2> QED BY <1>1, <1>2, <2>1, RewrittenTyped
  <1>3. CASE f.edit = "same"
    <2>1. row = [tc EXCEPT !.text = read[u].text, !.url = read[u].url] BY <1>3 DEF EditRows
    <2> QED BY <1>1, <2>1 DEF Row
  <1>4. CASE f.edit \notin {"new", "same"}
    <2>1. row = tc BY <1>4 DEF EditRows
    <2> QED BY <1>1, <2>1
  <1> QED BY <1>2, <1>3, <1>4

LEMMA PatchTyped ==
  ASSUME CaseType, NEW u \in Editor, NEW f \in Form
  PROVE  StatusPatch(f, read[u]) \in CaseStatus \union {"keep"}
PROOF
  <1> QED BY DEF StatusPatch, Form, CaseStatus

LEMMA UpdateParts ==
  ASSUME CasesBounded, CaseType, NEW u \in Editor, NEW f \in Form, updateTestCase(u, f)
  PROVE  \E row \in EditRows(u, f), d \in Design, new \in Row :
           LET s == StatusPatch(f, read[u])
           IN /\ new = [IF s = "keep" THEN row ELSE statusFields(row, s) EXCEPT !.design = d]
              /\ Put(new, s = "READY") /\ new.text = row.text
              /\ new.caseStatus = IF s = "keep" THEN row.caseStatus ELSE s
              /\ new.ready = IF s = "keep" THEN row.ready ELSE s = "READY"
              /\ excused' = (s # "READY" /\ (excused \/ tc # read[u]))
PROOF
  <1> DEFINE s == StatusPatch(f, read[u])
  <1>1. PICK row \in EditRows(u, f), d \in Design :
          Put([IF s = "keep" THEN row ELSE statusFields(row, s) EXCEPT !.design = d], s = "READY")
    BY DEF updateTestCase, EditRows
  <1> DEFINE new == [IF s = "keep" THEN row ELSE statusFields(row, s) EXCEPT !.design = d]
  <1>2. row \in Row BY RowsTyped
  <1>3. s \in CaseStatus \union {"keep"} BY PatchTyped
  <1>4. excused' = (s # "READY" /\ (excused \/ tc # read[u])) BY DEF updateTestCase
  <1>5. /\ new \in Row /\ new.text = row.text
        /\ new.caseStatus = IF s = "keep" THEN row.caseStatus ELSE s
        /\ new.ready = IF s = "keep" THEN row.ready ELSE s = "READY"
    <2>1. CASE s = "keep" BY <1>2, <2>1 DEF Row
    <2>2. CASE s # "keep"
      <3>1. s \in CaseStatus BY <1>3, <2>2
      <3> DEFINE st == statusFields(row, s)
      <3>2. st \in Row /\ st.caseStatus = s /\ st.ready = (s = "READY") /\ st.text = row.text
        <4> HIDE DEF s
        <4> QED BY <1>2, <3>1, StatusWritten
      <3>3. new = [st EXCEPT !.design = d] BY <2>2
      <3> HIDE DEF s, st, new
      <3> QED BY <2>2, <3>2, <3>3 DEF Row
    <2> QED BY <2>1, <2>2
  <1> QED BY <1>1, <1>4, <1>5

LEMMA EditorTypes ==
  ASSUME CasesBounded, CaseType, NEW u \in Editor,
         \/ BeginUpdate(u) \/ \E f \in Form : updateTestCase(u, f)
         \/ upsert(u) \/ generateApply(u)
         \/ resolveRunCaseIds(u) \/ createTcmsRun(u) \/ Throw(u)
  PROVE  CaseType'
PROOF
  <1>1. ASSUME BeginUpdate(u) PROVE CaseType'
    BY <1>1 DEF CaseType, BeginUpdate, grounding
  <1>2. ASSUME NEW f \in Form, updateTestCase(u, f) PROVE CaseType'
    <2>1. texts' \in 0..MaxText BY <1>2, FreshTyped DEF updateTestCase, CaseType
    <2>2. tc' \in Row /\ marked' \in 0..MaxText /\ excused' \in BOOLEAN
      BY <1>2, UpdateParts, PutTyped
    <2> QED BY <1>2, <2>1, <2>2, EditDoneTyped DEF CaseType, updateTestCase, grounding
  <1>3. ASSUME upsert(u) PROVE CaseType'
    <2>1. texts' \in 0..MaxText BY <1>3, FreshTyped DEF upsert
    <2>2. PICK row \in Rewritten(tc) : Put(statusFields(row, "DRAFT"), FALSE) BY <1>3 DEF upsert
    <2>3. statusFields(row, "DRAFT") \in Row
      BY <1>3, RewrittenTyped, StatusWritten DEF CaseType, upsert, CaseStatus
    <2>4. tc' \in Row /\ marked' \in 0..MaxText BY <2>2, <2>3, PutTyped
    <2> QED BY <1>3, <2>1, <2>4 DEF CaseType, upsert, grounding
  <1>4. ASSUME generateApply(u) PROVE CaseType'
    <2>1. statusFields(tc, "DRAFT") \in Row BY StatusWritten DEF CaseType, CaseStatus
    <2>2. tc' \in Row /\ marked' \in 0..MaxText BY <1>4, <2>1, PutTyped DEF generateApply
    <2> QED BY <1>4, <2>2, EditDoneTyped DEF CaseType, generateApply, grounding
  <1>5. ASSUME resolveRunCaseIds(u) PROVE CaseType'
    BY <1>5 DEF CaseType, resolveRunCaseIds, grounding
  <1>6. ASSUME createTcmsRun(u) PROVE CaseType'
    BY <1>6, EditDoneTyped DEF CaseType, createTcmsRun, grounding
  <1>7. ASSUME Throw(u) PROVE CaseType'
    BY <1>7, EditDoneTyped DEF CaseType, Throw, grounding
  <1> QED BY <1>1, <1>2, <1>3, <1>4, <1>5, <1>6, <1>7

LEMMA GroundTypes ==
  ASSUME CasesBounded, CaseType, NEW g \in Grounder,
         GroundRead(g) \/ GroundWrite(g) \/ GroundStops(g)
  PROVE  CaseType'
PROOF
  <1>1. ASSUME GroundRead(g) PROVE CaseType' BY <1>1, StepsTyped DEF CaseType, GroundRead, users
  <1>2. ASSUME GroundWrite(g) PROVE CaseType'
    <2>1. tc \in Row /\ gread[g] \in CaseSteps /\ gurl[g] \in Urls BY DEF CaseType
    <2>2. tc' \in Row /\ texts' \in 0..MaxText
      <3>1. CASE gread[g].design = "UI_GROUNDED" /\ gread[g].url = gurl[g]
        <4>1. gread[g].text \in 0..MaxText BY <2>1 DEF CaseSteps
        <4>2. tc' = [tc EXCEPT !.text = gread[g].text, !.design = "UI_GROUNDED", !.url = gurl[g]] /\ texts' = texts
          BY <1>2, <3>1 DEF GroundWrite
        <4>3. texts \in 0..MaxText BY DEF CaseType
        <4> QED BY <2>1, <4>1, <4>2, <4>3 DEF Row, Design
      <3>2. CASE ~(gread[g].design = "UI_GROUNDED" /\ gread[g].url = gurl[g])
        <4>1. Fresh \in 0..MaxText /\ texts' \in 0..MaxText BY <1>2, <3>2, FreshTyped DEF GroundWrite
        <4>2. tc' = [tc EXCEPT !.text = Fresh, !.design = "UI_GROUNDED", !.url = gurl[g],
                               !.ready = @ /\ gread[g].design = "UI_GROUNDED"]
          BY <1>2, <3>2 DEF GroundWrite
        <4>3. (tc.ready /\ gread[g].design = "UI_GROUNDED") \in BOOLEAN OBVIOUS
        <4> QED BY <2>1, <4>1, <4>2, <4>3 DEF Row, Design
      <3> QED BY <3>1, <3>2
    <2>3. excused' \in BOOLEAN BY <1>2 DEF GroundWrite
    <2> QED BY <1>2, <2>2, <2>3, GroundDoneTyped DEF CaseType, GroundWrite, users
  <1>3. ASSUME GroundStops(g) PROVE CaseType'
    BY <1>3, GroundDoneTyped DEF CaseType, GroundStops, users
  <1> QED BY <1>1, <1>2, <1>3

LEMMA CaseTypeStep == ASSUME CasesBounded, CaseType, [CaseNext]_caseVars PROVE CaseType'
PROOF
  <1>1. CASE UNCHANGED caseVars BY <1>1 DEF CaseType, caseVars, users, grounding
  <1>2. CASE runAiExecuteJob \/ executeStage
    BY <1>2 DEF CaseType, runAiExecuteJob, executeStage, Runs, users, grounding
  <1> QED BY <1>1, <1>2, RequestTypes, EditorTypes, GroundTypes DEF CaseNext

--------------------------------------------------------------------------------
(* Marks.                                                                     *)

LEMMA Shape == ReadyAsMarked <=> Vouched(tc, marked) \/ excused
PROOF BY DEF ReadyAsMarked, Vouched

LEMMA RequestMarks ==
  ASSUME CasesBounded, CaseInv,
         \/ \E s \in CaseStatus : createTestCase(s) \/ setCaseStatus(s)
         \/ \E r, v \in BOOLEAN : designStage(r) \/ startNextCycle(r, v)
         \/ importTestCases \/ restoreTestCase \/ \E p \in BOOLEAN : deleteTestCase(p)
  PROVE  Vouched(tc', marked') \/ excused'
PROOF
  <1>0. tc \in Row /\ CaseType /\ (Vouched(tc, marked) \/ excused)
    BY Shape DEF CaseInv, CaseType
  <1>1. ASSUME NEW s \in CaseStatus, createTestCase(s) PROVE Vouched(tc', marked')
    <2>1. PICK d \in Design :
            Put([statusFields(tc, s) EXCEPT !.life = "live", !.text = Fresh, !.design = d], s = "READY")
      BY <1>1 DEF createTestCase
    <2> DEFINE st == statusFields(tc, s)
               row == [st EXCEPT !.life = "live", !.text = Fresh, !.design = d]
    <2>2. st \in Row /\ st.caseStatus = s /\ st.ready = (s = "READY")
      BY <1>0, StatusWritten
    <2>3. Fresh \in 0..MaxText BY <1>0, <1>1, FreshTyped DEF createTestCase
    <2>4. row \in Row /\ row.caseStatus = s /\ row.ready = (s = "READY")
      <3> HIDE DEF st
      <3> QED BY <2>2, <2>3 DEF Row
    <2>5. tc' = row /\ (s = "READY" => marked' = row.text) BY <2>1 DEF Put
    <2> HIDE DEF row
    <2> QED BY <2>4, <2>5, Statused
  <1>2. ASSUME NEW s \in CaseStatus, setCaseStatus(s) PROVE Vouched(tc', marked')
    <2> DEFINE st == statusFields(tc, s)
    <2>1. st \in Row /\ st.caseStatus = s /\ st.ready = (s = "READY")
      BY <1>0, StatusWritten
    <2>2. tc' = st /\ (s = "READY" => marked' = st.text) BY <1>2 DEF setCaseStatus, Put
    <2> HIDE DEF st
    <2> QED BY <2>1, <2>2, Statused
  <1>3. ASSUME importTestCases PROVE Vouched(tc', marked')
    <2>1. PICK row \in Rewritten(tc) : Put([statusFields(row, "DRAFT") EXCEPT !.design = "GENERIC"], FALSE)
      BY <1>3 DEF importTestCases
    <2>2. row \in Row BY <1>0, <1>3, RewrittenTyped DEF importTestCases
    <2> DEFINE st == statusFields(row, "DRAFT")
    <2>3. st \in Row /\ st.caseStatus = "DRAFT" /\ st.ready = FALSE
      BY <2>2, StatusWritten DEF CaseStatus
    <2>4. tc' = [st EXCEPT !.design = "GENERIC"] BY <2>1 DEF Put
    <2> HIDE DEF st
    <2>5. tc' \in Row /\ tc'.caseStatus = "DRAFT" /\ tc'.ready = FALSE BY <2>3, <2>4 DEF Row, Design
    <2> QED BY <2>5, Statused DEF CaseStatus
  <1>4. ASSUME restoreTestCase \/ \E p \in BOOLEAN : deleteTestCase(p)
        PROVE  Vouched(tc', marked') \/ excused'
    <2>1. /\ tc' \in {[tc EXCEPT !.archived = FALSE], [tc EXCEPT !.archived = TRUE], [Blank EXCEPT !.life = "gone"]}
          /\ marked' = marked /\ excused' = excused
      BY <1>4 DEF restoreTestCase, deleteTestCase, Put
    <2>2. CASE tc' = [Blank EXCEPT !.life = "gone"]
      <3>1. tc' \in Row /\ tc'.caseStatus = "DRAFT" /\ tc'.ready = FALSE
        BY <2>2, BlankTyped DEF Row
      <3> QED BY <3>1, Statused DEF CaseStatus
    <2>3. CASE tc' \in {[tc EXCEPT !.archived = FALSE], [tc EXCEPT !.archived = TRUE]}
      <3>1. tc' \in Row /\ tc'.caseStatus = tc.caseStatus /\ tc'.ready = tc.ready /\ tc'.text = tc.text
        BY <1>0, <2>3 DEF Row
      <3> QED BY <1>0, <2>1, <3>1, SameText
    <2> QED BY <2>1, <2>2, <2>3
  <1>5. ASSUME NEW r \in BOOLEAN, designStage(r) PROVE Vouched(tc', marked') \/ excused'
    <2>1. CASE r BY <1>5, <2>1 DEF designStage
    <2>2. CASE ~r
      <3> DEFINE st == statusFields(tc, "DRAFT")
      <3>1. PICK d \in Design : Put([st EXCEPT !.life = "live", !.text = Fresh, !.design = d], FALSE)
        BY <1>5, <2>2 DEF designStage
      <3>2. st \in Row /\ st.caseStatus = "DRAFT" /\ st.ready = FALSE
        BY <1>0, StatusWritten DEF CaseStatus
      <3>3. Fresh \in 0..MaxText BY <1>0, <1>5, FreshTyped DEF designStage
      <3>4. tc' = [st EXCEPT !.life = "live", !.text = Fresh, !.design = d] BY <3>1 DEF Put
      <3> HIDE DEF st
      <3>5. tc' \in Row /\ tc'.caseStatus = "DRAFT" /\ tc'.ready = FALSE BY <3>2, <3>3, <3>4 DEF Row
      <3> QED BY <3>5, Statused DEF CaseStatus
    <2> QED BY <2>1, <2>2
  <1>6. ASSUME NEW r \in BOOLEAN, NEW v \in BOOLEAN, startNextCycle(r, v)
        PROVE  Vouched(tc', marked') \/ excused'
    <2>1. PICK d \in Design, a \in {"none", appUrl} : Put(Copied(r, d, a), r /\ v)
      BY <1>6 DEF startNextCycle, Copied
    <2>2. Fresh \in 0..MaxText BY <1>0, <1>6, FreshTyped DEF startNextCycle
    <2>3. tc' \in Row /\ tc'.caseStatus = "DRAFT" /\ tc'.ready = r
      BY <1>0, <2>1, <2>2, CopyTyped DEF Put
    <2>4. CASE r /\ ~v BY <1>6, <2>4 DEF startNextCycle
    <2>5. CASE r /\ v
      <3>1. marked' = tc'.text BY <2>1, <2>5 DEF Put
      <3> QED BY <3>1 DEF Vouched
    <2>6. CASE ~r BY <2>3, <2>6, Statused DEF CaseStatus
    <2> QED BY <2>4, <2>5, <2>6
  <1> QED BY <1>1, <1>2, <1>3, <1>4, <1>5, <1>6

LEMMA UpdateMarks ==
  ASSUME CasesBounded, CaseInv, NEW u \in Editor, NEW f \in Form, updateTestCase(u, f)
  PROVE  Vouched(tc', marked') \/ excused'
PROOF
  <1> DEFINE s == StatusPatch(f, read[u])
  <1>1. CaseType /\ tc \in Row /\ read[u] \in Row /\ (Vouched(tc, marked) \/ excused)
    BY Shape DEF CaseInv, CaseType
  <1>2. s \in CaseStatus \union {"keep"} BY <1>1, PatchTyped
  <1>3. PICK row \in EditRows(u, f), new \in Row :
          /\ Put(new, s = "READY") /\ new.text = row.text
          /\ new.caseStatus = IF s = "keep" THEN row.caseStatus ELSE s
          /\ new.ready = IF s = "keep" THEN row.ready ELSE s = "READY"
          /\ excused' = (s # "READY" /\ (excused \/ tc # read[u]))
    BY <1>1, UpdateParts
  <1>4. row \in Row /\ row.caseStatus = tc.caseStatus /\ row.ready = tc.ready
        /\ (f.edit # "new" /\ tc = read[u] => row.text = tc.text)
    BY <1>1, RowsTyped
  <1>5. tc' = new /\ (s = "READY" => marked' = new.text) /\ (s # "READY" => marked' = marked)
    BY <1>3 DEF Put
  <1>6. CASE s # "keep"
    <2>1. s \in CaseStatus BY <1>2, <1>6
    <2> HIDE DEF s
    <2> QED BY <1>3, <1>5, <1>6, <2>1, Statused
  <1>7. CASE s = "keep" /\ (excused \/ tc # read[u]) BY <1>3, <1>7
  <1>8. CASE s = "keep" /\ ~excused /\ tc = read[u]
    <2>1. CASE f.edit = "new"
      <3>1. normalizeCaseStatus(tc) = "DRAFT" BY <1>8, <2>1 DEF StatusPatch
      <3>2. new.caseStatus = "DRAFT" /\ new.ready = FALSE
        BY <1>1, <1>3, <1>4, <1>8, <3>1, Normalized DEF Row
      <3> QED BY <1>5, <3>2, Statused DEF CaseStatus
    <2>2. CASE f.edit # "new"
      BY <1>1, <1>3, <1>4, <1>5, <1>8, <2>2, SameText
    <2> QED BY <2>1, <2>2
  <1> QED BY <1>6, <1>7, <1>8

LEMMA SuggestionMarks ==
  ASSUME CasesBounded, CaseInv, NEW u \in Editor, upsert(u) \/ generateApply(u)
  PROVE  Vouched(tc', marked')
PROOF
  <1>1. CaseType /\ tc \in Row BY DEF CaseInv, CaseType
  <1>2. PICK row \in Row : tc' = statusFields(row, "DRAFT")
    <2>1. CASE upsert(u) BY <1>1, <2>1, RewrittenTyped DEF upsert, Put
    <2>2. CASE generateApply(u) BY <1>1, <2>2 DEF generateApply, Put
    <2> QED BY <2>1, <2>2
  <1>3. tc' \in Row /\ tc'.caseStatus = "DRAFT" /\ tc'.ready = FALSE
    BY <1>2, StatusWritten DEF CaseStatus
  <1> QED BY <1>3, Statused DEF CaseStatus

\* Nothing else writes the case but a grounding, which excuses what it does.
LEMMA MarkStep == ASSUME CasesBounded, CaseInv, [CaseNext]_caseVars PROVE ReadyAsMarked'
PROOF
  <1>1. ASSUME UNCHANGED <<tc, marked, excused>> PROVE ReadyAsMarked'
    BY <1>1 DEF CaseInv, ReadyAsMarked, isReadyCase, normalizeCaseStatus
  <1>2. ASSUME Vouched(tc', marked') \/ excused' PROVE ReadyAsMarked'
    BY <1>2 DEF Vouched, ReadyAsMarked, isReadyCase, normalizeCaseStatus
  <1>3. CASE UNCHANGED caseVars BY <1>1, <1>3 DEF caseVars
  <1>4. CASE \E a \in Urls : saveEnvironment(a) BY <1>1, <1>4 DEF saveEnvironment
  <1>5. CASE runAiExecuteJob \/ executeStage BY <1>1, <1>5 DEF runAiExecuteJob, executeStage
  <1>6. ASSUME NEW u \in Editor,
               \/ BeginUpdate(u)
               \/ resolveRunCaseIds(u) \/ createTcmsRun(u) \/ Throw(u)
        PROVE  ReadyAsMarked'
    BY <1>1, <1>6 DEF BeginUpdate, resolveRunCaseIds, createTcmsRun, Throw
  <1>7. ASSUME NEW g \in Grounder, GroundRead(g) \/ GroundStops(g) PROVE ReadyAsMarked'
    BY <1>1, <1>7 DEF GroundRead, GroundStops
  <1>8. ASSUME NEW g \in Grounder, GroundWrite(g) PROVE ReadyAsMarked'
    BY <1>2, <1>8 DEF GroundWrite
  <1> QED
    BY <1>2, <1>3, <1>4, <1>5, <1>6, <1>7, <1>8, RequestMarks, UpdateMarks, SuggestionMarks DEF CaseNext

\* The two columns of a case, its text and what overlapping requests hold are typed.
THEOREM CaseTyped == ASSUME CasesBounded PROVE CaseSpec => []CaseType
PROOF
  <1>1. CaseInit => CaseType BY CaseInitInv DEF CaseInv
  <1>2. CaseType /\ [CaseNext]_caseVars => CaseType' BY CaseTypeStep
  <1> QED BY <1>1, <1>2, PTL DEF CaseSpec

\* A case that a cycle or a run would take has the text a human made READY, unless an edit
\* overlapped another write, the grounding rewrote it, or the design agent called it ready.
THEOREM ReadyKeepsText == ASSUME CasesBounded PROVE CaseSpec => []ReadyAsMarked
PROOF
  <1>1. CaseInit => CaseInv BY CaseInitInv
  <1>2. CaseInv /\ [CaseNext]_caseVars => CaseInv' BY CaseTypeStep, MarkStep DEF CaseInv
  <1>3. CaseInv => ReadyAsMarked BY DEF CaseInv
  <1> QED BY <1>1, <1>2, <1>3, PTL DEF CaseSpec

--------------------------------------------------------------------------------
(* The generate run.  Batches are as many as deliveries, and a slot that was given the job     *)
(* will write one more: Budget counts both.  While no slot has lost its job alive, one slot    *)
(* has it (OneSlot), and rows and decisions follow that slot's step.                           *)

Claimants == {w \in Slots : gpc[w] \in {"claimed", "writing"}}
Coming    == IF job = "waiting" \/ (job = "none" /\ (~inline \/ state = "RUNNING")) THEN 1 ELSE 0
Budget    == batches + Cardinality(Claimants) + Coming <= 1 + stalls

InlineFirst == inline => job = "none"
NoJob       == job = "none" => \A w \in Slots : gpc[w] = "idle"

OneEach == \A d \in Drafts : \E r \in rows : r.draft = d /\ \A x \in rows : x.draft = d => x = r

OneSlot ==
  \A w \in Slots : gpc[w] # "idle" =>
    /\ job = "active"
    /\ \A v \in Slots : gpc[v] # "idle" => v = w
    /\ gpc[w] # "closing" => state = "RUNNING"
    /\ gpc[w] = "writing" => rows = {}
    /\ gpc[w] = "inserting" => OneEach

Shown == state = "READY" => OneEach
Kept  == (state # "READY" => decided = {}) /\ decided \subseteq rows
Sole  == OneSlot /\ Shown /\ Kept

GenInv == GenType /\ Budget /\ InlineFirst /\ NoJob /\ (~twin => Sole)

\* A batch as its rows.
LEMMA InsertedRows ==
  ASSUME NEW rejected \in SUBSET Drafts, batches + 1 \in 1..MaxBatches
  PROVE  /\ Inserted(rejected) \subseteq Rows
         /\ \A d \in Drafts : \E r \in Inserted(rejected) :
              r.draft = d /\ \A x \in Inserted(rejected) : x.draft = d => x = r
PROOF
  <1> DEFINE RowOf(d) == [draft |-> d, batch |-> batches + 1,
                          decision |-> IF d \in rejected THEN "rejected" ELSE "pending"]
  <1> DEFINE Unwritten(d) == [draft |-> d, batch |-> batches + 1, decision |-> "pending"]
             Marked(r) == IF r.draft \in rejected THEN [r EXCEPT !.decision = "rejected"] ELSE r
  <1>1. \A d \in Drafts : Marked(Unwritten(d)) = RowOf(d)
    OBVIOUS
  <1>2. Inserted(rejected) = {Marked(r) : r \in {Unwritten(d) : d \in Drafts}}
    BY DEF Inserted, NewBatch
  <1> HIDE DEF Marked, Unwritten
  <1>3. /\ \A d \in Drafts : RowOf(d) \in Inserted(rejected)
        /\ \A x \in Inserted(rejected) : \E d \in Drafts : x = RowOf(d)
    BY <1>1, <1>2
  <1>4. \A d \in Drafts : RowOf(d) \in Rows /\ RowOf(d).draft = d
    BY DEF Rows
  <1> HIDE DEF RowOf
  <1> QED BY <1>3, <1>4

\* Slots that come and go among those that will write a batch.
LEMMA Claimed ==
  ASSUME GenType, NEW w \in Slots, NEW p \in {"idle", "claimed", "writing", "inserting", "closing"}, GenGoto(w, p)
  PROVE  /\ Cardinality(Claimants) \in Nat /\ Cardinality(Claimants') \in Nat
         /\ gpc' \in [Slots -> {"idle", "claimed", "writing", "inserting", "closing"}]
         /\ w \in Claimants => Cardinality(Claimants) >= 1
         /\ w \in Claimants /\ p \in {"claimed", "writing"} => Cardinality(Claimants') = Cardinality(Claimants)
         /\ w \in Claimants /\ p \notin {"claimed", "writing"} => Cardinality(Claimants') = Cardinality(Claimants) - 1
         /\ w \notin Claimants /\ p \in {"claimed", "writing"} => Cardinality(Claimants') = Cardinality(Claimants) + 1
         /\ w \notin Claimants /\ p \notin {"claimed", "writing"} => Cardinality(Claimants') = Cardinality(Claimants)
PROOF
  <1>1. /\ gpc' \in [Slots -> {"idle", "claimed", "writing", "inserting", "closing"}]
        /\ gpc'[w] = p /\ \A v \in Slots : v # w => gpc'[v] = gpc[v]
    BY DEF GenGoto, GenType
  <1>2. IsFiniteSet(Claimants) /\ IsFiniteSet(Claimants')
    BY GenAssumption, FS_Subset DEF Claimants
  <1>3. Cardinality(Claimants) \in Nat /\ Cardinality(Claimants') \in Nat
    BY <1>2, FS_CardinalityType
  <1>4. w \in Claimants => Cardinality(Claimants) # 0
    BY <1>2, FS_EmptySet
  <1>5. CASE p \in {"claimed", "writing"}
    <2>1. Claimants' = Claimants \union {w}
      BY <1>1, <1>5 DEF Claimants
    <2> QED BY <1>1, <1>2, <1>3, <1>4, <1>5, <2>1, FS_AddElement
  <1>6. CASE p \notin {"claimed", "writing"}
    <2>1. Claimants' = Claimants \ {w}
      BY <1>1, <1>6 DEF Claimants
    <2> QED BY <1>1, <1>2, <1>3, <1>4, <1>6, <2>1, FS_RemoveElement
  <1> QED BY <1>5, <1>6

LEMMA Counts ==
  ASSUME GenInv
  PROVE  /\ batches \in Nat /\ stalls \in Nat /\ stalls <= MaxStalls /\ MaxStalls \in Nat
         /\ Cardinality(Claimants) \in Nat /\ Coming \in {0, 1}
PROOF
  <1>1. IsFiniteSet(Claimants)
    BY GenAssumption, FS_Subset DEF Claimants
  <1> QED BY <1>1, GenAssumption, FS_CardinalityType DEF GenInv, GenType, Coming

\* A decision moves a row within its draft.
LEMMA Decided ==
  ASSUME GenType, NEW r \in rows, NEW d \in {"accepted", "rejected"},
         rows' = (rows \ {r}) \union {[r EXCEPT !.decision = d]}
  PROVE  OneEach => OneEach'
PROOF
  <1> DEFINE new == [r EXCEPT !.decision = d]
  <1>1. r \in Rows /\ new.draft = r.draft
    BY DEF GenType, Rows
  <1> SUFFICES ASSUME OneEach, NEW c \in Drafts
               PROVE  \E x \in rows' : x.draft = c /\ \A y \in rows' : y.draft = c => y = x
    BY DEF OneEach
  <1>2. PICK x \in rows : x.draft = c /\ \A y \in rows : y.draft = c => y = x
    BY DEF OneEach
  <1>3. CASE x = r
    <2>1. new \in rows' /\ new.draft = c /\ \A y \in rows' : y.draft = c => y = new
      BY <1>1, <1>2, <1>3
    <2> QED BY <2>1
  <1>4. CASE x # r
    <2>1. x \in rows' /\ new.draft # c
      BY <1>1, <1>2, <1>4
    <2> QED BY <1>2, <2>1
  <1> QED BY <1>3, <1>4

\* The request.
LEMMA RequestKeeps == ASSUME GenInv, StartRun \/ EnqueueRun \/ ClaimInline \/ InlineStep PROVE GenInv'
PROOF
  <1>1. CASE StartRun
    <2>1. GenType' /\ InlineFirst' /\ NoJob' /\ Coming' = Coming /\ Claimants' = Claimants
      BY <1>1 DEF StartRun, GenInv, GenType, States, InlineFirst, NoJob, Coming, Claimants
    <2>2. ~twin => Sole'
      BY <1>1 DEF StartRun, GenInv, Sole, OneSlot, Shown, Kept, OneEach
    <2> QED BY <1>1, <2>1, <2>2 DEF StartRun, GenInv, Budget
  <1>2. CASE EnqueueRun
    <2>1. GenType' /\ InlineFirst' /\ NoJob' /\ Coming' = Coming /\ Claimants' = Claimants
      BY <1>2 DEF EnqueueRun, GenInv, GenType, InlineFirst, NoJob, Coming, Claimants
    <2>2. ~twin => Sole'
      BY <1>2 DEF EnqueueRun, GenInv, NoJob, Sole, OneSlot, Shown, Kept, OneEach
    <2> QED BY <1>2, <2>1, <2>2 DEF EnqueueRun, GenInv, Budget
  <1>3. CASE ClaimInline
    <2>1. GenType' /\ InlineFirst' /\ NoJob' /\ Coming' = Coming /\ Claimants' = Claimants
      BY <1>3 DEF ClaimInline, GenInv, GenType, States, InlineFirst, NoJob, Coming, Claimants
    <2>2. ~twin => Sole'
      BY <1>3 DEF ClaimInline, GenInv, NoJob, Sole, OneSlot, Shown, Kept, OneEach
    <2> QED BY <1>3, <2>1, <2>2 DEF ClaimInline, GenInv, Budget
  <1>4. CASE FailInline
    <2>1. GenType' /\ InlineFirst' /\ NoJob' /\ Claimants' = Claimants
      BY <1>4 DEF FailInline, GenInv, GenType, States, InlineFirst, NoJob, Claimants
    <2>2. Coming = 1 /\ Coming' = 0
      BY <1>4 DEF FailInline, GenInv, InlineFirst, Coming
    <2>3. ~twin => Sole'
      BY <1>4 DEF FailInline, GenInv, InlineFirst, NoJob, Sole, OneSlot, Shown, Kept, OneEach
    <2> QED BY <1>4, <2>1, <2>2, <2>3, Counts DEF FailInline, GenInv, Budget
  <1>5. ASSUME NEW rejected \in SUBSET Drafts, ReplaceInline(rejected) PROVE GenInv'
    <2>1. Coming = 1 /\ Coming' = 0 /\ job = "none" /\ Claimants' = Claimants
      BY <1>5 DEF ReplaceInline, GenInv, InlineFirst, Coming, Claimants
    <2>2. batches + 1 <= 1 + stalls /\ batches' = batches + 1 /\ batches + 1 \in 1..MaxBatches
      BY <1>5, <2>1, Counts DEF ReplaceInline, GenInv, Budget, MaxBatches
    <2>3. rows' \subseteq Rows /\ OneEach'
      BY <1>5, <2>2, InsertedRows DEF ReplaceInline, OneEach
    <2>4. GenType' /\ InlineFirst' /\ NoJob'
      BY <1>5, <2>2, <2>3 DEF ReplaceInline, GenInv, GenType, States, InlineFirst, NoJob
    <2>5. Budget'
      BY <1>5, <2>1, <2>2, Counts DEF ReplaceInline, GenInv, Budget
    <2>6. ~twin => Sole'
      BY <1>5, <2>1, <2>3 DEF ReplaceInline, GenInv, NoJob, Sole, OneSlot, Shown, Kept
    <2> QED BY <1>5, <2>4, <2>5, <2>6 DEF ReplaceInline, GenInv
  <1> QED BY <1>1, <1>2, <1>3, <1>4, <1>5 DEF InlineStep

\* A slot of the worker.
LEMMA SlotKeeps == ASSUME GenInv, NEW w \in Slots, SlotStep(w) \/ CrashSlot(w) PROVE GenInv'
PROOF
  <1> USE DEF GenInv
  <1>0. GenType /\ w \in Slots
    OBVIOUS
  <1>1. CASE DeliverJob(w) /\ Claimable
    <2>1. GenGoto(w, "claimed") /\ w \notin Claimants /\ job' = "active" /\ state' = "RUNNING"
      BY <1>1 DEF DeliverJob, Claimants
    <2>2. GenType' /\ InlineFirst' /\ NoJob'
      BY <1>1, <2>1, Claimed DEF DeliverJob, GenType, States, InlineFirst, NoJob
    <2>3. Coming = 1 /\ Coming' = 0
      BY <1>1, <2>1 DEF DeliverJob, Coming
    <2>4. Budget'
      BY <1>1, <2>1, <2>3, Claimed, Counts DEF DeliverJob, Budget
    <2>5. ASSUME ~twin PROVE Sole'
      <3>1. Sole /\ state \in {"PENDING", "RUNNING"} /\ \A v \in Slots : gpc[v] = "idle"
        BY <1>1, <2>5 DEF DeliverJob, Claimable, Sole, OneSlot
      <3>2. gpc'[w] = "claimed" /\ \A v \in Slots : v # w => gpc'[v] = "idle"
        BY <2>1, <3>1 DEF GenGoto, GenType
      <3> QED BY <1>1, <2>1, <3>1, <3>2 DEF DeliverJob, Sole, OneSlot, Shown, Kept
    <2> QED BY <1>1, <2>2, <2>4, <2>5 DEF DeliverJob
  <1>2. CASE DeliverJob(w) /\ ~Claimable
    <2>1. GenType' /\ InlineFirst' /\ NoJob' /\ Claimants' = Claimants
      BY <1>2 DEF DeliverJob, GenType, InlineFirst, NoJob, Claimants
    <2>2. Coming = 1 /\ Coming' = 0
      BY <1>2 DEF DeliverJob, Coming
    <2>3. ~twin => Sole'
      BY <1>2 DEF DeliverJob, Sole, OneSlot, Shown, Kept, OneEach
    <2> QED BY <1>2, <2>1, <2>2, <2>3, Counts DEF DeliverJob, Budget
  <1>3. CASE DeleteOld(w)
    <2>1. GenGoto(w, "writing") /\ w \in Claimants /\ job # "none"
      BY <1>3 DEF DeleteOld, Claimants, NoJob
    <2>2. GenType' /\ InlineFirst' /\ NoJob' /\ Coming' = Coming
      BY <1>3, <2>1, Claimed DEF DeleteOld, GenType, InlineFirst, NoJob, Coming
    <2>3. ASSUME ~twin PROVE Sole'
      <3>1. Sole /\ state = "RUNNING" /\ decided = {} /\ job = "active" /\ \A v \in Slots : v # w => gpc[v] = "idle"
        BY <1>3, <2>3 DEF DeleteOld, Sole, OneSlot, Kept
      <3>2. gpc'[w] = "writing" /\ \A v \in Slots : v # w => gpc'[v] = "idle"
        BY <2>1, <3>1 DEF GenGoto, GenType
      <3> QED BY <1>3, <3>1, <3>2 DEF DeleteOld, Sole, OneSlot, Shown, Kept
    <2> QED BY <1>3, <2>1, <2>2, <2>3, Claimed DEF DeleteOld, Budget
  <1>4. ASSUME NEW rejected \in SUBSET Drafts, InsertNew(w, rejected) PROVE GenInv'
    <2>1. GenGoto(w, "inserting") /\ w \in Claimants /\ job # "none"
      BY <1>4 DEF InsertNew, Claimants, NoJob
    <2>2. batches + 1 <= 1 + stalls /\ batches' = batches + 1 /\ batches + 1 \in 1..MaxBatches
      BY <1>4, <2>1, Counts, Claimed DEF InsertNew, Budget, MaxBatches
    <2>3. rows' \subseteq Rows
      BY <1>4, <2>2, InsertedRows DEF InsertNew, GenType
    <2>4. GenType' /\ InlineFirst' /\ NoJob' /\ Coming' = Coming
      BY <1>4, <2>1, <2>2, <2>3, Claimed DEF InsertNew, GenType, InlineFirst, NoJob, Coming
    <2>5. Budget'
      BY <1>4, <2>1, <2>2, <2>4, Claimed, Counts DEF InsertNew, Budget
    <2>6. ASSUME ~twin PROVE Sole'
      <3>1. Sole /\ state = "RUNNING" /\ decided = {} /\ rows = {} /\ job = "active"
            /\ \A v \in Slots : v # w => gpc[v] = "idle"
        BY <1>4, <2>6 DEF InsertNew, Sole, OneSlot, Kept
      <3>2. gpc'[w] = "inserting" /\ \A v \in Slots : v # w => gpc'[v] = "idle"
        BY <2>1, <3>1 DEF GenGoto, GenType
      <3>3. rows' = Inserted(rejected)
        BY <1>4, <3>1 DEF InsertNew
      <3>4. OneEach'
        BY <2>2, <3>3, InsertedRows DEF OneEach
      <3> QED BY <1>4, <3>1, <3>2, <3>4 DEF InsertNew, Sole, OneSlot, Shown, Kept
    <2> QED BY <1>4, <2>4, <2>5, <2>6 DEF InsertNew
  <1>5. CASE MarkReady(w) \/ FailRun(w)
    <2>1. /\ GenGoto(w, "closing") /\ job # "none" /\ gpc[w] \in {"claimed", "writing", "inserting"}
          /\ state' \in {"READY", "FAILED"} /\ (state' = "READY" => gpc[w] = "inserting")
          /\ UNCHANGED <<inline, job, stalls, rows, batches, patched, library, decided, twin, gcrashes>>
      BY <1>5 DEF MarkReady, FailRun, NoJob
    <2>2. GenType' /\ InlineFirst' /\ NoJob' /\ Coming' = Coming
      BY <2>1, Claimed DEF GenType, States, InlineFirst, NoJob, Coming
    <2>3. Budget'
      BY <2>1, <2>2, Claimed, Counts DEF Budget
    <2>4. ASSUME ~twin PROVE Sole'
      <3>1. Sole /\ state = "RUNNING" /\ decided = {} /\ job = "active" /\ \A v \in Slots : v # w => gpc[v] = "idle"
        BY <2>1, <2>4 DEF Sole, OneSlot, Kept
      <3>2. gpc'[w] = "closing" /\ \A v \in Slots : v # w => gpc'[v] = "idle"
        BY <2>1, <3>1 DEF GenGoto, GenType
      <3>3. state' = "READY" => OneEach'
        BY <2>1, <3>1 DEF Sole, OneSlot, OneEach
      <3> QED BY <2>1, <3>1, <3>2, <3>3 DEF Sole, OneSlot, Shown, Kept
    <2> QED BY <2>1, <2>2, <2>3, <2>4
  <1>6. CASE CompleteJob(w)
    <2>1. GenGoto(w, "idle") /\ job # "none" /\ w \notin Claimants
      BY <1>6 DEF CompleteJob, NoJob, Claimants
    <2>2. GenType' /\ InlineFirst' /\ NoJob' /\ Coming' = Coming
      BY <1>6, <2>1, Claimed DEF CompleteJob, GenType, InlineFirst, NoJob, Coming
    <2>3. ASSUME ~twin PROVE Sole'
      <3>1. Sole /\ \A v \in Slots : v # w => gpc[v] = "idle"
        BY <1>6, <2>3 DEF CompleteJob, Sole, OneSlot
      <3>2. \A v \in Slots : gpc'[v] = "idle"
        BY <2>1, <3>1 DEF GenGoto, GenType
      <3> QED BY <1>6, <3>1, <3>2 DEF CompleteJob, Sole, OneSlot, Shown, Kept, OneEach
    <2> QED BY <1>6, <2>1, <2>2, <2>3, Claimed DEF CompleteJob, Budget
  <1>7. CASE LoseRun(w) /\ gpc[w] # "idle"
    <2>1. GenGoto(w, "idle") /\ w \in Slots /\ job # "none"
          /\ job' \in {job, "failed"} /\ (job' # job => job = "active")
          /\ UNCHANGED <<state, inline, stalls, rows, batches, patched, library, decided, twin, gcrashes>>
      BY <1>7 DEF LoseRun, NoJob
    <2>2. GenType' /\ InlineFirst' /\ NoJob' /\ Coming' = Coming
      BY <2>1, Claimed DEF GenType, InlineFirst, NoJob, Coming
    <2>3. Budget'
      BY <2>1, <2>2, Claimed, Counts DEF Budget
    <2>4. ASSUME ~twin PROVE Sole'
      <3>1. Sole /\ \A v \in Slots : v # w => gpc[v] = "idle"
        BY <1>7, <2>4 DEF Sole, OneSlot
      <3>2. \A v \in Slots : gpc'[v] = "idle"
        BY <2>1, <3>1 DEF GenGoto, GenType
      <3> QED BY <2>1, <3>1, <3>2 DEF Sole, OneSlot, Shown, Kept, OneEach
    <2> QED BY <2>1, <2>2, <2>3, <2>4
  <1>8. CASE LoseRun(w) /\ gpc[w] = "idle"
    <2>1. job = "waiting" /\ job' = "failed"
          /\ UNCHANGED <<state, inline, stalls, gpc, rows, batches, patched, library, decided, twin, gcrashes>>
      BY <1>8 DEF LoseRun
    <2>2. GenType' /\ InlineFirst' /\ NoJob' /\ Claimants' = Claimants /\ Coming = 1 /\ Coming' = 0
      BY <2>1 DEF GenType, InlineFirst, NoJob, Claimants, Coming
    <2>3. ~twin => Sole'
      BY <2>1 DEF Sole, OneSlot, Shown, Kept, OneEach
    <2> QED BY <2>1, <2>2, <2>3, Counts DEF Budget
  <1>9. CASE CrashSlot(w)
    <2>1. GenGoto(w, "idle") /\ job = "active" /\ gcrashes' \in 0..MaxCrashes
      BY <1>9, GenAssumption DEF CrashSlot, GenType
    <2>2. \/ job' = "waiting" /\ stalls' = stalls + 1 /\ stalls < MaxStalls
          \/ job' = "failed" /\ stalls' = stalls
      BY <1>9 DEF CrashSlot
    <2>3. GenType' /\ InlineFirst' /\ NoJob'
      BY <1>9, <2>1, <2>2, Claimed, Counts DEF CrashSlot, GenType, InlineFirst, NoJob
    <2>4. Coming = 0 /\ (job' = "waiting" => Coming' = 1) /\ (job' = "failed" => Coming' = 0)
      BY <2>1 DEF Coming
    <2>5. Budget'
      BY <1>9, <2>1, <2>2, <2>4, Claimed, Counts DEF CrashSlot, Budget
    <2>6. ASSUME ~twin PROVE Sole'
      <3>1. Sole /\ \A v \in Slots : v # w => gpc[v] = "idle"
        BY <1>9, <2>6 DEF CrashSlot, Sole, OneSlot
      <3>2. \A v \in Slots : gpc'[v] = "idle"
        BY <2>1, <3>1 DEF GenGoto, GenType
      <3> QED BY <1>9, <3>1, <3>2 DEF CrashSlot, Sole, OneSlot, Shown, Kept, OneEach
    <2> QED BY <1>9, <2>3, <2>5, <2>6 DEF CrashSlot
  <1> QED BY <1>1, <1>2, <1>3, <1>4, <1>5, <1>6, <1>7, <1>8, <1>9 DEF SlotStep

LEMMA StallKeeps == ASSUME GenInv, Stall PROVE GenInv'
PROOF
  <1>1. Coming = 0 /\ Coming' = 1 /\ Claimants' = Claimants /\ stalls' = stalls + 1 /\ batches' = batches
    BY DEF Stall, Coming, Claimants
  <1>2. GenType' /\ InlineFirst' /\ NoJob' /\ twin'
    BY <1>1, Counts DEF Stall, GenInv, GenType, InlineFirst, NoJob
  <1>3. Budget'
    BY <1>1, Counts DEF GenInv, Budget
  <1> QED BY <1>2, <1>3 DEF GenInv

\* The human.
LEMMA HumanKeeps == ASSUME GenInv, HumanStep PROVE GenInv'
PROOF
  <1>1. Claimants' = Claimants /\ Coming' = Coming
        /\ UNCHANGED <<state, inline, job, stalls, gpc, batches, twin, gcrashes>>
    BY DEF HumanStep, FindSuggestion, DecideSuggestion, ApplyRun, Claimants, Coming
  <1>2. Budget' /\ InlineFirst' /\ NoJob'
    BY <1>1 DEF GenInv, Budget, InlineFirst, NoJob
  <1>3. ASSUME NEW r \in rows, FindSuggestion(r) PROVE GenInv'
    <2>1. patched' \subseteq Rows /\ Cardinality(patched') <= 1
      <3>1. patched' = {r} /\ r \in Rows
        BY <1>3 DEF FindSuggestion, GenInv, GenType
      <3>2. Cardinality({r}) = 1
        BY FS_Singleton
      <3> QED BY <3>1, <3>2
    <2>2. GenType'
      BY <1>3, <2>1 DEF FindSuggestion, GenInv, GenType
    <2>3. ~twin => Sole'
      BY <1>3 DEF FindSuggestion, GenInv, Sole, OneSlot, Shown, Kept, OneEach
    <2> QED BY <1>1, <1>2, <2>2, <2>3 DEF GenInv
  <1>4. CASE ApplyRun
    <2>1. GenType'
      BY <1>4 DEF ApplyRun, GenInv, GenType, Rows
    <2>2. ~twin => Sole'
      BY <1>4 DEF ApplyRun, GenInv, Sole, OneSlot, Shown, Kept, OneEach
    <2> QED BY <1>1, <1>2, <2>1, <2>2 DEF GenInv
  <1>5. ASSUME NEW d \in {"accepted", "rejected"}, DecideSuggestion(d) PROVE GenInv'
    <2>1. PICK r \in patched :
            /\ patched' = {}
            /\ IF r \in rows
                 THEN /\ rows' = (rows \ {r}) \union {[r EXCEPT !.decision = d]}
                      /\ decided' = IF state = "READY"
                                      THEN {x \in decided : Undecided(x) # Undecided(r)}
                                             \union (IF d = "accepted" THEN {[r EXCEPT !.decision = d]} ELSE {})
                                      ELSE decided
                 ELSE UNCHANGED <<rows, decided>>
            /\ library' = library
      BY <1>5 DEF DecideSuggestion
    <2>2. r \in Rows /\ [r EXCEPT !.decision = d] \in Rows /\ Cardinality({}) = 0
      BY FS_EmptySet DEF GenInv, GenType, Rows
    <2>3. CASE r \notin rows
      <3>1. GenType'
        BY <1>1, <2>1, <2>2, <2>3 DEF GenInv, GenType
      <3>2. ~twin => Sole'
        BY <1>1, <2>1, <2>3 DEF GenInv, Sole, OneSlot, Shown, Kept, OneEach
      <3> QED BY <1>1, <1>2, <3>1, <3>2 DEF GenInv
    <2>4. CASE r \in rows
      <3>1. GenType'
        BY <1>1, <2>1, <2>2, <2>4 DEF GenInv, GenType
      <3>2. ASSUME ~twin PROVE Sole'
        <4>1. OneEach => OneEach'
          BY <2>1, <2>4, Decided DEF GenInv
        <4>2. rows # {}
          BY <2>4
        <4>3. OneSlot' /\ Shown'
          BY <1>1, <3>2, <4>1, <4>2 DEF GenInv, Sole, OneSlot, Shown
        <4>4. Kept'
          BY <1>1, <2>1, <2>4, <3>2 DEF GenInv, Sole, Kept
        <4> QED BY <4>3, <4>4 DEF Sole
      <3> QED BY <1>1, <1>2, <3>1, <3>2 DEF GenInv
    <2> QED BY <2>3, <2>4
  <1> QED BY <1>3, <1>4, <1>5 DEF HumanStep

LEMMA GenInvariance == GenSpec => []GenInv
PROOF
  <1>1. GenInit => GenInv
    <2> SUFFICES ASSUME GenInit PROVE GenInv
      OBVIOUS
    <2>1. Claimants = {} /\ Cardinality({}) = 0
      BY FS_EmptySet DEF GenInit, Claimants
    <2>2. GenType
      <3>1. 0 \in 0..MaxStalls /\ 0 \in 0..MaxBatches /\ 0 \in 0..MaxCrashes
        BY GenAssumption DEF MaxBatches
      <3>2. Cardinality(patched) <= 1
        BY <2>1 DEF GenInit
      <3> QED BY <3>1, <3>2 DEF GenInit, GenType, States
    <2>3. Budget
      BY <2>1 DEF GenInit, Budget, Coming
    <2>4. InlineFirst /\ NoJob /\ Sole
      BY DEF GenInit, InlineFirst, NoJob, Sole, OneSlot, Shown, Kept
    <2> QED BY <2>2, <2>3, <2>4 DEF GenInv
  <1>2. GenInv /\ [GenNext]_genVars => GenInv'
    <2> SUFFICES ASSUME GenInv, [GenNext]_genVars PROVE GenInv'
      OBVIOUS
    <2>1. CASE UNCHANGED genVars
      BY <2>1 DEF genVars, GenInv, GenType, Budget, Claimants, Coming, InlineFirst, NoJob,
                  Sole, OneSlot, Shown, Kept, OneEach
    <2> QED BY <2>1, RequestKeeps, SlotKeeps, StallKeeps, HumanKeeps DEF GenNext
  <1> QED BY <1>1, <1>2, PTL DEF GenSpec

(* Every variable of a generate run keeps its type: in particular no delivery writes more *)
(* batches than the deliveries BullMQ may make.                                           *)
THEOREM GenTyped == GenSpec => []GenType
PROOF
  <1>1. GenInv => GenType BY DEF GenInv
  <1> QED BY <1>1, GenInvariance, PTL

(* ai-generate-job.ts: a READY run shows one suggestion per draft, however its slots die and *)
(* its queries throw between the three writes, while no live slot loses its job.             *)
THEOREM ReadyShowsOneBatch == GenSpec => []ReadyIsOneBatch
PROOF
  <1>1. GenInv => ReadyIsOneBatch
    <2> SUFFICES ASSUME GenInv, state = "READY", ~twin, NEW d \in Drafts
                 PROVE  Cardinality({r \in rows : r.draft = d}) = 1
      BY DEF ReadyIsOneBatch
    <2>1. PICK r \in rows : r.draft = d /\ \A x \in rows : x.draft = d => x = r
      BY DEF GenInv, Sole, Shown, OneEach
    <2>2. {x \in rows : x.draft = d} = {r}
      BY <2>1
    <2> QED BY <2>2, FS_Singleton
  <1> QED BY <1>1, GenInvariance, PTL

(* patchAiSuggestion against a late or repeated delivery: what a human accepted on a READY *)
(* run stays among its rows, while no live slot loses its job.                             *)
THEOREM DecisionsStay == GenSpec => []DecisionsKept
PROOF
  <1>1. GenInv => DecisionsKept BY DEF GenInv, Sole, Kept, DecisionsKept
  <1> QED BY <1>1, GenInvariance, PTL

--------------------------------------------------------------------------------
(* The scripts.  Rule heals between two resets, and quarantine, for any number of executors,   *)
(* humans and heal logs.  A rule heal needs an executor that read a count of zero, and the     *)
(* first one makes the count positive: from then on the executors that read zero earlier are   *)
(* all that is left.                                                                           *)

\* There are heal logs, and finitely many executors.
HealingBounded == HealLog # {} /\ IsFiniteSet(Executor)

AtWork == {"replaying", "found", "logged"}

\* Executors that may still commit a rule heal; a runner has its copy from the start.
Late == {x \in Executor : copy[x].heals = 0 /\ (xpc[x] \in AtWork \/ (xpc[x] = "taken" /\ x \in Laptop))}

\* An executor found what the row it read allows.
FoundAsRead(x) ==
  xpc[x] \in {"found", "logged"} =>
    /\ outcome[x] = "committed" => copy[x].heals = 0
    /\ copy[x].status = "QUARANTINED" => outcome[x] = "quarantined"

\* A count of zero means no rule heal; afterwards every one was, or is, an executor's only one.
HealsCounted ==
  /\ script.heals = 0 => auto = 0
  /\ script.heals # 0 => auto + Cardinality(Late) <= Cardinality(Executor)

HealInv == HealingType /\ (\A x \in Executor : FoundAsRead(x)) /\ HealsCounted

--------------------------------------------------------------------------------
(* Types.                                                                     *)

Script == [there : BOOLEAN, status : Stability, heals : 0..2, log : {"none", "recorded", "patched"}]

Written(r, n, s, l) == [[[r EXCEPT !.log = l] EXCEPT !.status = s] EXCEPT !.heals = n]

\* The script with a count, a stability and a log.
LEMMA WrittenTyped ==
  ASSUME NEW r \in Script, NEW n \in 0..2, NEW s \in Stability, NEW l \in {"none", "recorded", "patched"}
  PROVE  Written(r, n, s, l) \in Script /\ Written(r, n, s, l).heals = n
PROOF
  <1> DEFINE one == [r EXCEPT !.log = l]
             two == [one EXCEPT !.status = s]
  <1>1. one \in Script BY DEF Script
  <1> HIDE DEF one
  <1>2. two \in Script BY <1>1 DEF Script
  <1>3. Written(r, n, s, l) = [two EXCEPT !.heals = n] BY DEF one, Written
  <1> HIDE DEF two
  <1>4. Written(r, n, s, l) \in Script BY <1>2, <1>3 DEF Script
  <1>5. Written(r, n, s, l).heals = n BY <1>2, <1>3 DEF Script
  <1> QED BY <1>4, <1>5

LEMMA UnseenTyped == Unseen \in Seen
PROOF BY DEF Unseen, Seen, Stability

LEMMA SnapshotTyped == ASSUME HealingType PROVE Snapshot \in Seen /\ Snapshot.heals = script.heals
PROOF BY DEF HealingType, Snapshot, Seen

LEMMA KnownTyped == ASSUME HealingType, NEW x \in Executor PROVE Known(x) \in Seen
PROOF BY SnapshotTyped DEF HealingType, Known

LEMMA HealInitInv == ASSUME HealingBounded PROVE HealingInit => HealInv
PROOF
  <1> SUFFICES ASSUME HealingInit PROVE HealInv OBVIOUS
  <1>1. script \in Script BY DEF HealingInit, Script, Stability
  <1>2. held \in [Human -> HealLog] BY DEF HealingInit, HealingBounded
  <1>3. HealingType BY <1>1, <1>2, UnseenTyped DEF HealingInit, HealingType, Script, Outcomes
  <1>4. \A x \in Executor : FoundAsRead(x) BY DEF HealingInit, FoundAsRead
  <1>5. HealsCounted BY DEF HealingInit, HealsCounted
  <1> QED BY <1>3, <1>4, <1>5 DEF HealInv

\* An executor that is done has read nothing and found nothing.
LEMMA FinishedTyped ==
  ASSUME HealingType, NEW x \in Executor, Finished(x)
  PROVE  /\ xpc' = [xpc EXCEPT ![x] = "idle"]
         /\ xpc' \in [Executor -> {"idle", "taken", "recording", "replaying", "found", "logged", "reported"}]
         /\ copy' \in [Executor -> Seen] /\ outcome' \in [Executor -> Outcomes]
         /\ \A y \in Executor \ {x} : copy'[y] = copy[y] /\ outcome'[y] = outcome[y]
PROOF BY UnseenTyped DEF HealingType, Finished, XGoto, Outcomes

\* What an executor does to its own copy, and to nobody else's.
LEMMA OwnStep ==
  ASSUME HealInv, NEW x \in Executor, ExecutorStep(x)
  PROVE  /\ \A y \in Executor \ {x} : xpc'[y] = xpc[y] /\ copy'[y] = copy[y] /\ outcome'[y] = outcome[y]
         /\ FoundAsRead(x)'
PROOF
  <1> USE DEF HealInv
  <1>0. HealingType /\ FoundAsRead(x) OBVIOUS
  <1>8. ASSUME Records(x)
        PROVE  /\ \A y \in Executor \ {x} : xpc'[y] = xpc[y] /\ copy'[y] = copy[y] /\ outcome'[y] = outcome[y]
               /\ FoundAsRead(x)'
    BY <1>0, <1>8 DEF Records, XGoto, HealingType, FoundAsRead
  <1>1. CASE TakeCase(x) BY <1>0, <1>1 DEF TakeCase, XGoto, HealingType, FoundAsRead
  <1>9. CASE ForceRecord(x) BY <1>8, <1>9 DEF ForceRecord
  <1>2. CASE ReadScript(x) BY <1>0, <1>2 DEF ReadScript, XGoto, HealingType, FoundAsRead
  <1>3. ASSUME Finished(x)
        PROVE  /\ \A y \in Executor \ {x} : xpc'[y] = xpc[y] /\ copy'[y] = copy[y] /\ outcome'[y] = outcome[y]
               /\ FoundAsRead(x)'
    BY <1>0, <1>3 DEF Finished, XGoto, HealingType, FoundAsRead
  <1>4. CASE ReadNoScript(x)
    <2>1. CASE Finished(x) BY <1>3, <2>1
    <2>2. CASE Records(x) BY <1>8, <2>2
    <2> QED BY <1>4, <2>1, <2>2 DEF ReadNoScript
  <1>5. CASE Replay(x)
    <2>1. PICK o \in runFailurePipeline(copy[x]) : outcome' = [outcome EXCEPT ![x] = o]
      BY <1>5 DEF Replay
    <2>2. xpc' = [xpc EXCEPT ![x] = "found"] /\ copy' = copy BY <1>5 DEF Replay, XGoto
    <2>3. copy[x].status = "QUARANTINED" => o = "quarantined" BY <2>1 DEF runFailurePipeline
    <2>4. copy[x] \in Seen BY <1>0 DEF HealingType
    <2>5. o = "committed" => copy[x].heals = 0
      <3>1. CASE copy[x].heals = 0 BY <3>1
      <3>2. CASE copy[x].heals = 1 BY <2>1, <3>2 DEF runFailurePipeline, Heals
      <3>3. CASE copy[x].heals = 2 BY <2>1, <3>3 DEF runFailurePipeline, Heals
      <3> QED BY <2>4, <3>1, <3>2, <3>3 DEF Seen
    <2>6. outcome'[x] = o BY <1>0, <2>1 DEF HealingType
    <2> QED BY <1>0, <2>1, <2>2, <2>3, <2>5, <2>6 DEF HealingType, FoundAsRead
  <1>6. CASE ServerLogs(x) BY <1>0, <1>6 DEF ServerLogs, XGoto, HealingType, FoundAsRead
  <1>7. CASE LaptopReports(x) BY <1>0, <1>7 DEF LaptopReports, XGoto, HealingType, FoundAsRead
  <1> QED
    BY <1>1, <1>2, <1>3, <1>4, <1>5, <1>6, <1>7, <1>9
       DEF ExecutorStep, SkipQuarantined, RecordScript, NothingToWrite, ServerWrites, LaptopLogs, LoseCase

LEMMA LogsTyped ==
  ASSUME HealingType, NEW o, CreateHealLog(o)
  PROVE  healLog' \in [HealLog -> {"none", "pending", "decided"}]
PROOF BY DEF HealingType, CreateHealLog

\* What executors write into the script is typed; a rule heal leaves a positive count.
LEMMA ServerScript ==
  ASSUME HealInv, NEW x \in Executor, ServerWrites(x)
  PROVE  /\ script' \in Script /\ auto' \in Nat
         /\ script'.heals = script.heals \/ script'.heals # 0
         /\ outcome[x] = "committed" => script'.heals # 0
PROOF
  <1>1. script \in Script /\ copy[x] \in Seen /\ auto \in Nat BY DEF HealInv, HealingType, Script
  <1>2. CountHeal(x) \in 1..2 BY <1>1 DEF CountHeal, Capped, Script
  <1> DEFINE n == CountHeal(x)
  <1>3. auto' \in Nat BY <1>1 DEF ServerWrites
  <1> HIDE DEF n
  <1>4. CASE outcome[x] = "committed"
    <2>1. script' = Written(script, n, "WATCH", "patched")
      BY <1>1, <1>4 DEF ServerWrites, Script, Written, n
    <2>2. script' \in Script /\ script'.heals = n BY <1>1, <1>2, <2>1, WrittenTyped DEF Stability, n
    <2> QED BY <1>2, <1>3, <2>2 DEF n
  <1>5. CASE outcome[x] = "quarantined"
    <2>1. script' = Written(script, n, "QUARANTINED", script.log)
      BY <1>1, <1>5 DEF ServerWrites, Script, Written, n
    <2>2. script.log \in {"none", "recorded", "patched"} BY <1>1 DEF Script
    <2>3. script' \in Script /\ script'.heals = n BY <1>1, <1>2, <2>1, <2>2, WrittenTyped DEF Stability, n
    <2> QED BY <1>2, <1>3, <1>5, <2>3 DEF n
  <1>6. CASE outcome[x] \notin {"committed", "quarantined"}
    <2>1. script' = [script EXCEPT !.status = copy[x].status] BY <1>6 DEF ServerWrites
    <2>2. script' \in Script /\ script'.heals = script.heals BY <1>1, <2>1 DEF Script, Seen
    <2> QED BY <1>3, <1>6, <2>2
  <1> QED BY <1>4, <1>5, <1>6

LEMMA LaptopScript ==
  ASSUME HealInv, NEW x \in Executor, LaptopReports(x)
  PROVE  /\ script' \in Script /\ auto' \in Nat
         /\ script'.heals = script.heals \/ script'.heals # 0
         /\ outcome[x] = "committed" => script'.heals # 0
PROOF
  <1>1. script \in Script /\ copy[x] \in Seen /\ auto \in Nat BY DEF HealInv, HealingType, Script
  <1>2. outcome[x] = "committed" => copy[x].heals = 0
    BY DEF HealInv, FoundAsRead, LaptopReports
  <1>3. auto' \in Nat BY <1>1 DEF LaptopReports
  <1>4. CASE outcome[x] = "passed"
    <2>1. script' = [script EXCEPT !.status = "STABLE"] BY <1>4 DEF LaptopReports
    <2>2. script' \in Script /\ script'.heals = script.heals BY <1>1, <2>1 DEF Script, Stability
    <2> QED BY <1>3, <1>4, <2>2
  <1>5. CASE outcome[x] = "committed"
    <2>1. script' = Written(script, 1, "WATCH", "patched")
      <3>1. copy[x].heals + 1 = 1 BY <1>2, <1>5
      <3>2. script' = [script EXCEPT !.status = "WATCH", !.log = "patched", !.heals = copy[x].heals + 1]
        BY <1>5 DEF LaptopReports
      <3> QED BY <1>1, <3>1, <3>2 DEF Script, Written
    <2>2. script' \in Script /\ script'.heals = 1 BY <1>1, <2>1, WrittenTyped DEF Stability
    <2> QED BY <1>3, <2>2
  <1>6. CASE outcome[x] = "quarantined"
    <2>1. script' = [script EXCEPT !.status = "QUARANTINED"] BY <1>6 DEF LaptopReports
    <2>2. script' \in Script /\ script'.heals = script.heals BY <1>1, <2>1 DEF Script, Stability
    <2> QED BY <1>3, <1>6, <2>2
  <1>7. CASE outcome[x] \notin {"passed", "committed", "quarantined"}
    <2>1. script' = script BY <1>7 DEF LaptopReports
    <2> QED BY <1>1, <1>3, <1>7, <2>1
  <1> QED BY <1>4, <1>5, <1>6, <1>7

LEMMA ExecutorTypes ==
  ASSUME HealInv, NEW x \in Executor, ExecutorStep(x)
  PROVE  HealingType'
PROOF
  <1>0. HealingType /\ script \in Script BY DEF HealInv, HealingType, Script
  <1>1. CASE TakeCase(x)
    <2>1. copy' \in [Executor -> Seen] BY <1>0, <1>1, SnapshotTyped DEF TakeCase, HealingType
    <2> QED BY <1>0, <1>1, <2>1 DEF TakeCase, XGoto, HealingType, scripts, deciding
  <1>12. ASSUME Records(x), UNCHANGED <<scripts, deciding, auto>> PROVE HealingType'
    BY <1>0, <1>12, UnseenTyped DEF Records, XGoto, HealingType, scripts, deciding
  <1>13. CASE ForceRecord(x) BY <1>12, <1>13 DEF ForceRecord
  <1>2. CASE ReadScript(x)
    <2>1. Known(x) \in Seen BY <1>0, KnownTyped
    <2> QED BY <1>0, <1>2, <2>1 DEF ReadScript, XGoto, HealingType, scripts, deciding
  <1>3. ASSUME Finished(x), script' \in Script, auto' \in Nat, UNCHANGED deciding,
               healLog' \in [HealLog -> {"none", "pending", "decided"}]
        PROVE  HealingType'
    BY <1>0, <1>3, FinishedTyped DEF HealingType, deciding, Script
  <1>4. CASE ReadNoScript(x)
    <2>1. CASE Finished(x) BY <1>0, <1>3, <1>4, <2>1 DEF ReadNoScript, scripts, HealingType
    <2>2. CASE Records(x) BY <1>4, <1>12, <2>2 DEF ReadNoScript
    <2> QED BY <1>4, <2>1, <2>2 DEF ReadNoScript
  <1>5. CASE SkipQuarantined(x) \/ NothingToWrite(x) \/ LoseCase(x)
    BY <1>0, <1>3, <1>5 DEF SkipQuarantined, NothingToWrite, LoseCase, scripts, HealingType
  <1>6. CASE RecordScript(x)
    <2>1. PICK log \in {"recorded", IF x \in Server THEN "none" ELSE script.log} :
            script' = [script EXCEPT !.there = TRUE, !.log = log]
      BY <1>6 DEF RecordScript
    <2>2. log \in {"none", "recorded", "patched"} BY <1>0, <2>1 DEF Script
    <2>3. script' \in Script BY <1>0, <2>1, <2>2 DEF Script
    <2> QED BY <1>0, <1>3, <1>6, <2>3 DEF RecordScript, HealingType
  <1>7. CASE Replay(x)
    <2>1. PICK o \in runFailurePipeline(copy[x]) : outcome' = [outcome EXCEPT ![x] = o]
      BY <1>7 DEF Replay
    <2>2. o \in Outcomes
      <3>1. copy[x] \in Seen BY <1>0 DEF HealingType
      <3>2. copy[x].heals \in {0, 1, 2} BY <3>1 DEF Seen
      <3>3. Heals(copy[x]) \subseteq Outcomes BY <3>2 DEF Heals, Outcomes
      <3> QED BY <2>1, <3>3 DEF runFailurePipeline, Outcomes
    <2> QED BY <1>0, <1>7, <2>1, <2>2 DEF Replay, XGoto, HealingType, scripts, deciding
  <1>8. CASE ServerLogs(x)
    BY <1>0, <1>8, LogsTyped DEF ServerLogs, XGoto, HealingType, deciding
  <1>9. CASE ServerWrites(x)
    BY <1>0, <1>3, <1>9, ServerScript DEF ServerWrites, HealingType
  <1>10. CASE LaptopReports(x)
    BY <1>0, <1>10, LaptopScript DEF LaptopReports, XGoto, HealingType, deciding, Script
  <1>11. CASE LaptopLogs(x)
    BY <1>0, <1>3, <1>11, LogsTyped DEF LaptopLogs, HealingType
  <1> QED
    BY <1>1, <1>2, <1>4, <1>5, <1>6, <1>7, <1>8, <1>9, <1>10, <1>11, <1>13 DEF ExecutorStep

LEMMA HumanTypes ==
  ASSUME HealInv,
         \/ \E h \in Human : Decides(h) \/ \E i \in HealLog, d \in {"approve", "reject"} : decideHeal(h, i, d)
         \/ clearQuarantine \/ rerecordScript
  PROVE  HealingType'
PROOF
  <1>0. HealingType /\ script \in Script BY DEF HealInv, HealingType, Script
  <1>1. ASSUME NEW h \in Human, RecordDecision(h) PROVE HealingType'
    BY <1>0, <1>1 DEF HealingType, RecordDecision, executor
  <1>2. ASSUME NEW h \in Human, ApplyDecision(h) PROVE HealingType'
    <2>1. script' \in Script BY <1>0, <1>2 DEF ApplyDecision, Script, Stability
    <2> QED BY <1>0, <1>2, <2>1 DEF HealingType, ApplyDecision, executor, Script
  <1>3. ASSUME NEW h \in Human, NEW i \in HealLog, NEW d \in {"approve", "reject"}, decideHeal(h, i, d)
        PROVE  HealingType'
    BY <1>0, <1>3 DEF HealingType, decideHeal, scripts, executor
  <1>4. CASE clearQuarantine
    <2>1. script' \in Script BY <1>0, <1>4 DEF clearQuarantine, Script, Stability
    <2> QED BY <1>0, <1>4, <2>1 DEF HealingType, clearQuarantine, executor, deciding, Script
  <1>5. CASE rerecordScript
    <2>1. script' = Written(script, 0, "WATCH", "none")
      BY <1>0, <1>5 DEF rerecordScript, Script, Written
    <2>2. script' \in Script BY <1>0, <2>1, WrittenTyped DEF Stability
    <2> QED BY <1>0, <1>5, <2>2 DEF HealingType, rerecordScript, executor, deciding, Script
  <1> QED BY <1>1, <1>2, <1>3, <1>4, <1>5 DEF Decides

--------------------------------------------------------------------------------
(* Counting.                                                                  *)

\* The executors that may still commit are finitely many.
LEMMA LateFinite ==
  ASSUME HealingBounded
  PROVE  /\ IsFiniteSet(Late) /\ Cardinality(Late) \in Nat /\ Cardinality(Executor) \in Nat
         /\ Cardinality(Late) <= Cardinality(Executor)
PROOF
  <1>1. Late \subseteq Executor BY DEF Late
  <1> QED BY <1>1, FS_Subset, FS_CardinalityType DEF HealingBounded

LEMMA LateFiniteNext ==
  ASSUME HealingBounded
  PROVE  IsFiniteSet(Late') /\ Cardinality(Late') \in Nat /\ Cardinality(Late') <= Cardinality(Executor)
PROOF
  <1>1. Late' \subseteq Executor BY DEF Late
  <1> QED BY <1>1, FS_Subset, FS_CardinalityType DEF HealingBounded

\* A step that commits nothing and lets nobody in keeps the count.
LEMMA NobodyComes ==
  ASSUME HealingBounded, HealInv, auto' = auto, Late' \subseteq Late \/ script.heals = 0,
         script'.heals = script.heals \/ script'.heals # 0, script'.heals \in 0..2
  PROVE  HealsCounted'
PROOF
  <1>1. auto \in Nat /\ HealsCounted /\ script.heals \in 0..2 BY DEF HealInv, HealingType
  <1>2. CASE script.heals = 0
    BY <1>1, <1>2, LateFiniteNext, LateFinite DEF HealsCounted
  <1>3. CASE script.heals # 0
    <2>1. Late' \subseteq Late BY <1>3
    <2>2. Cardinality(Late') <= Cardinality(Late) BY <2>1, LateFinite, FS_Subset
    <2> QED BY <1>1, <1>3, <2>2, LateFinite, LateFiniteNext DEF HealsCounted
  <1> QED BY <1>2, <1>3

\* A commit uses up the executor that makes it.
LEMMA OneCommits ==
  ASSUME HealingBounded, HealInv, NEW x \in Late, Late' \subseteq Late \ {x},
         auto' = auto + 1, script'.heals # 0
  PROVE  HealsCounted'
PROOF
  <1>1. auto \in Nat /\ HealsCounted BY DEF HealInv, HealingType
  <1>2. Cardinality(Late \ {x}) = Cardinality(Late) - 1 /\ IsFiniteSet(Late \ {x})
    BY LateFinite, FS_RemoveElement
  <1>3. Cardinality(Late') <= Cardinality(Late) - 1 BY <1>2, FS_Subset
  <1>4. CASE script.heals = 0
    BY <1>1, <1>3, <1>4, LateFinite, LateFiniteNext DEF HealsCounted
  <1>5. CASE script.heals # 0
    BY <1>1, <1>3, <1>5, LateFinite, LateFiniteNext DEF HealsCounted
  <1> QED BY <1>4, <1>5

\* Only reading the script adds an executor, and it takes the count that it read.
LEMMA LateStep ==
  ASSUME HealInv, NEW x \in Executor, ExecutorStep(x)
  PROVE  /\ Late' \subseteq Late \/ script.heals = 0
         /\ ServerWrites(x) \/ LaptopReports(x) => Late' \subseteq Late \ {x}
PROOF
  <1>0. HealingType BY DEF HealInv
  <1>1. \A y \in Executor \ {x} : xpc'[y] = xpc[y] /\ copy'[y] = copy[y] BY OwnStep
  <1>2. ASSUME x \in Late' => x \in Late \/ script.heals = 0 PROVE Late' \subseteq Late \/ script.heals = 0
    BY <1>1, <1>2 DEF Late
  <1>3. ASSUME x \notin Late' PROVE Late' \subseteq Late \ {x}
    BY <1>1, <1>3 DEF Late
  <1>4. CASE TakeCase(x)
    <2>1. x \in Late' => script.heals = 0
      <3>1. x \in Laptop => copy'[x] = Snapshot BY <1>0, <1>4 DEF TakeCase, HealingType
      <3>2. xpc'[x] = "taken" BY <1>0, <1>4 DEF TakeCase, XGoto, HealingType
      <3> QED BY <1>0, <3>1, <3>2, SnapshotTyped DEF Late, AtWork
    <2>2. ~ServerWrites(x) /\ ~LaptopReports(x) BY <1>4 DEF TakeCase, ServerWrites, LaptopReports
    <2> QED BY <1>2, <2>1, <2>2
  <1>5. CASE ReadScript(x)
    <2>1. copy'[x] = Known(x) /\ xpc[x] = "taken" BY <1>0, <1>5 DEF ReadScript, HealingType
    <2>2. x \in Late' => x \in Late \/ script.heals = 0
      <3>1. CASE x \in Laptop
        <4>1. copy'[x] = copy[x] BY <2>1, <3>1 DEF Known
        <4> QED BY <2>1, <3>1, <4>1 DEF Late
      <3>2. CASE x \notin Laptop
        <4>1. copy'[x].heals = script.heals BY <1>0, <2>1, <3>2, SnapshotTyped DEF Known
        <4> QED BY <4>1 DEF Late
      <3> QED BY <3>1, <3>2
    <2>3. ~ServerWrites(x) /\ ~LaptopReports(x) BY <1>5 DEF ReadScript, ServerWrites, LaptopReports
    <2> QED BY <1>2, <2>2, <2>3
  <1>6. CASE Replay(x) \/ ServerLogs(x)
    <2>1. xpc[x] \in AtWork /\ copy'[x] = copy[x] BY <1>6 DEF Replay, ServerLogs, AtWork
    <2>2. ~ServerWrites(x) /\ ~LaptopReports(x)
      BY <1>0, <1>6 DEF Replay, ServerLogs, ServerWrites, LaptopReports, XGoto, Finished, HealingType
    <2>3. x \in Late' => x \in Late BY <2>1 DEF Late
    <2> QED BY <1>2, <2>2, <2>3
  <1>7. CASE ~TakeCase(x) /\ ~ReadScript(x) /\ ~Replay(x) /\ ~ServerLogs(x)
    <2>1. xpc'[x] \notin AtWork \union {"taken"}
      BY <1>0, <1>7
         DEF ExecutorStep, ForceRecord, Records, ReadNoScript, SkipQuarantined, RecordScript,
             NothingToWrite, ServerWrites, LaptopReports, LaptopLogs, LoseCase, Finished, XGoto,
             HealingType, AtWork
    <2>2. x \notin Late' BY <2>1 DEF Late
    <2> QED BY <1>3, <2>2
  <1> QED BY <1>4, <1>5, <1>6, <1>7

LEMMA ExecutorCounts ==
  ASSUME HealingBounded, HealInv, NEW x \in Executor, ExecutorStep(x)
  PROVE  HealsCounted'
PROOF
  <1>0. HealingType /\ FoundAsRead(x) /\ script.heals \in 0..2 BY DEF HealInv, HealingType
  <1>1. Late' \subseteq Late \/ script.heals = 0 BY LateStep
  <1>2. HealingType' BY ExecutorTypes
  <1>3. script'.heals \in 0..2 BY <1>2 DEF HealingType
  <1>4. CASE (ServerWrites(x) \/ LaptopReports(x)) /\ outcome[x] = "committed"
    <2>1. xpc[x] \in {"found", "logged"} BY <1>4 DEF ServerWrites, LaptopReports
    <2>2. x \in Late BY <1>0, <1>4, <2>1 DEF FoundAsRead, Late, AtWork
    <2>3. script'.heals # 0 BY <1>4, ServerScript, LaptopScript
    <2>4. auto' = auto + 1 BY <1>4 DEF ServerWrites, LaptopReports
    <2>5. Late' \subseteq Late \ {x} BY <1>4, LateStep
    <2> QED BY <2>2, <2>3, <2>4, <2>5, OneCommits
  <1>5. CASE (ServerWrites(x) \/ LaptopReports(x)) /\ outcome[x] # "committed"
    <2>1. auto' = auto BY <1>5 DEF ServerWrites, LaptopReports
    <2>2. script'.heals = script.heals \/ script'.heals # 0 BY <1>5, ServerScript, LaptopScript
    <2> QED BY <1>1, <1>3, <2>1, <2>2, NobodyComes
  <1>6. CASE ~ServerWrites(x) /\ ~LaptopReports(x)
    <2>1. auto' = auto
      BY <1>6 DEF ExecutorStep, TakeCase, ForceRecord, ReadScript, ReadNoScript, SkipQuarantined,
                  RecordScript, Replay, NothingToWrite, ServerLogs, LaptopLogs, LoseCase
    <2>2. script'.heals = script.heals
      <3>1. CASE RecordScript(x) BY <1>0, <3>1 DEF RecordScript, HealingType
      <3>2. CASE ~RecordScript(x)
        BY <1>6, <3>2
           DEF ExecutorStep, TakeCase, ForceRecord, ReadScript, ReadNoScript, SkipQuarantined,
               Replay, NothingToWrite, ServerLogs, LaptopLogs, LoseCase, scripts
      <3> QED BY <3>1, <3>2
    <2> QED BY <1>1, <1>3, <2>1, <2>2, NobodyComes
  <1> QED BY <1>4, <1>5, <1>6

LEMMA HealInvStep == ASSUME HealingBounded, HealInv, [HealingNext]_healingVars PROVE HealInv'
PROOF
  <1>1. CASE UNCHANGED healingVars
    BY <1>1 DEF HealInv, HealingType, FoundAsRead, HealsCounted, Late, healingVars, scripts, executor, deciding
  <1>2. ASSUME NEW x \in Executor, ExecutorStep(x) PROVE HealInv'
    <2>1. \A y \in Executor : FoundAsRead(y)'
      <3>1. ASSUME NEW y \in Executor \ {x} PROVE FoundAsRead(y)'
        BY <1>2, <3>1, OwnStep DEF HealInv, FoundAsRead
      <3> QED BY <1>2, <3>1, OwnStep
    <2> QED BY <1>2, <2>1, ExecutorTypes, ExecutorCounts DEF HealInv
  <1>3. ASSUME \/ \E h \in Human : Decides(h) \/ \E i \in HealLog, d \in {"approve", "reject"} : decideHeal(h, i, d)
               \/ clearQuarantine \/ rerecordScript
        PROVE  HealInv'
    <2>0. script \in Script BY DEF HealInv, HealingType, Script
    <2>1. UNCHANGED executor
      BY <1>3 DEF Decides, RecordDecision, ApplyDecision, decideHeal, clearQuarantine, rerecordScript
    <2>2. \A x \in Executor : FoundAsRead(x)' BY <2>1 DEF HealInv, FoundAsRead, executor
    <2>3. Late' = Late BY <2>1 DEF Late, executor
    <2>4. (script'.heals = script.heals /\ auto' = auto) \/ (script'.heals = 0 /\ auto' = 0)
      BY <1>3, <2>0
         DEF Decides, RecordDecision, ApplyDecision, decideHeal, clearQuarantine, rerecordScript, scripts, Script
    <2>5. HealsCounted' BY <2>3, <2>4 DEF HealInv, HealsCounted
    <2> QED BY <1>3, <2>2, <2>5, HumanTypes DEF HealInv
  <1> QED BY <1>1, <1>2, <1>3 DEF HealingNext

LEMMA HealInvariance == ASSUME HealingBounded PROVE HealingSpec => []HealInv
PROOF
  <1>1. HealingInit => HealInv BY HealInitInv
  <1>2. HealInv /\ [HealingNext]_healingVars => HealInv' BY HealInvStep
  <1> QED BY <1>1, <1>2, PTL DEF HealingSpec

\* The script, its heal logs and what executors and humans hold are typed.
THEOREM HealingTyped == ASSUME HealingBounded PROVE HealingSpec => []HealingType
PROOF
  <1>1. HealInv => HealingType BY DEF HealInv
  <1> QED BY <1>1, HealInvariance, PTL

\* Between two resets of healCount no executor commits more than one rule heal.
THEOREM AutoHealsAreBounded == ASSUME HealingBounded PROVE HealingSpec => []AutoHealsBounded
PROOF
  <1>1. HealInv => AutoHealsBounded
    <2> SUFFICES ASSUME HealInv PROVE AutoHealsBounded OBVIOUS
    <2>1. auto \in Nat /\ DOMAIN xpc = Executor BY DEF HealInv, HealingType
    <2> QED BY <2>1, LateFinite DEF HealInv, HealsCounted, AutoHealsBounded
  <1> QED BY <1>1, HealInvariance, PTL

\* Besides humans only an executor that began before a quarantine lifts it.
THEOREM QuarantineIsKept == ASSUME HealingBounded PROVE HealingSpec => QuarantineHolds
PROOF
  <1> DEFINE Step == script.status = "QUARANTINED" /\ script'.status # "QUARANTINED" =>
                       UNCHANGED executor \/ \E x \in DOMAIN xpc : Behind(x)
  <1>1. ASSUME HealInv, [HealingNext]_healingVars PROVE [Step]_healingVars
    <2> SUFFICES ASSUME script.status = "QUARANTINED", script'.status # "QUARANTINED"
                 PROVE  UNCHANGED executor \/ \E x \in DOMAIN xpc : Behind(x)
      OBVIOUS
    <2>0. HealingType /\ script \in Script /\ DOMAIN xpc = Executor
      BY <1>1 DEF HealInv, HealingType, Script
    <2>1. ASSUME NEW x \in Executor, ExecutorStep(x) PROVE Behind(x)
      <3>0. FoundAsRead(x) BY <1>1 DEF HealInv
      <3>1. ~RecordScript(x) BY <2>0 DEF RecordScript, Script
      <3>2. ServerWrites(x) \/ LaptopReports(x)
        BY <2>1, <3>1
           DEF ExecutorStep, TakeCase, ForceRecord, ReadScript, ReadNoScript, SkipQuarantined,
               Replay, NothingToWrite, ServerLogs, LaptopLogs, LoseCase, scripts
      <3>3. xpc[x] \in {"found", "logged"} BY <3>2 DEF ServerWrites, LaptopReports
      <3>4. CASE copy[x].status = "QUARANTINED"
        <4>1. outcome[x] = "quarantined" BY <3>0, <3>3, <3>4 DEF FoundAsRead
        <4>2. script'.status = "QUARANTINED"
          BY <2>0, <3>2, <4>1 DEF ServerWrites, LaptopReports, Script
        <4> QED BY <4>2
      <3>5. CASE copy[x].status # "QUARANTINED" BY <3>3, <3>5 DEF Behind
      <3> QED BY <3>4, <3>5
    <2>2. CASE UNCHANGED healingVars BY <2>2 DEF healingVars, executor
    <2>3. CASE \/ \E h \in Human : Decides(h) \/ \E i \in HealLog, d \in {"approve", "reject"} : decideHeal(h, i, d)
               \/ clearQuarantine \/ rerecordScript
      BY <2>3 DEF Decides, RecordDecision, ApplyDecision, decideHeal, clearQuarantine, rerecordScript
    <2> QED BY <1>1, <2>0, <2>1, <2>2, <2>3 DEF HealingNext
  <1>2. HealInv /\ [HealingNext]_healingVars => [Step]_healingVars BY <1>1
  <1> QED BY <1>2, HealInvariance, PTL DEF HealingSpec, QuarantineHolds
=============================================================================
