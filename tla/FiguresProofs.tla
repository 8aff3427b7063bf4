---------------------------- MODULE FiguresProofs ----------------------------
(***************************************************************************)
(* Proofs about the figures an operator is shown: what the page of a job,  *)
(* the tasks that carry it and the inbox tell of it, and what the          *)
(* dashboard and the form tell of the operator's earnings.                 *)
(***************************************************************************)
EXTENDS OperatorFigures, SequenceTheorems, WellFoundedInduction, TLAPS

-----------------------------------------------------------------------------
(* Jobs: what their pages, the tasks and the inbox tell of them.           *)

Columns == {"status", "trade", "city", "postcode", "card", "start", "weeks", "hours", "pay", "charge",
            "currency", "positionsOpen", "positionsFilled"}

Figures == {"start", "weeks", "hours", "pay", "charge"}

Figure == Int \cup {Null}

\* A row, and the columns that are reckoned with.
IsRow(row) ==
    /\ DOMAIN row = Columns
    /\ \A f \in Figures : row[f] \in Figure
    /\ row.postcode \in DOMAIN District \cup {Null}

\* Bodies of requests write numbers, postcodes and known statuses, or nothing; Null is no
\* number and no row.
BoardAssumption ==
    /\ Board!JobBoardAssumption
    /\ Null \notin Int /\ DOMAIN Null # Columns
    /\ \A body \in NewJobs \cup Patches :
          /\ \A f \in Figures \cap DOMAIN body : body[f] \in Figure
          /\ "postcode" \in DOMAIN body => body.postcode \in DOMAIN District \cup {Null}
          /\ "status" \in DOMAIN body => body.status \in Board!Statuses

\* Figures of a task's snapshot.
IsSnapshot(job) == \A f \in {"pay", "charge", "weeks", "start"} : job[f] \in Figure

\* What a caller has read of a job still holds, unless the job was patched.
StillHolds(q, js, pt) ==
    /\ q.pc \in {"fill", "page"} => q.job \in Jobs /\ IsRow(q.row) /\ IsRow(js[q.job])
    /\ q.pc = "fill" => q.job \in pt \/ q.row.positionsOpen = js[q.job].positionsOpen
    /\ q.pc = "match" => q.job = Null
    /\ q.pc = "snapshot" /\ q.job # Null =>
          /\ q.job \in Jobs /\ IsRow(js[q.job]) /\ q.job \in q.shown
          /\ q.job \in pt \/ q.row.pay = js[q.job].pay

CallerFields == {"pc", "job", "row", "who", "profile", "shown"}

\* A task tells of its first match.
TellsFirst(t, pt) ==
    t.job # Null => /\ IsSnapshot(t.job) /\ t.first \in t.shown
                    /\ t.job.pay = t.pay \/ t.first \in pt

\* A job that counts as filled is filled, unless it was patched.
StaysFilled(j, js, pt) ==
    /\ j \in Jobs /\ IsRow(js[j])
    /\ \/ j \in pt
       \/ js[j].status = "FILLED" /\ js[j].positionsFilled = js[j].positionsOpen

BoardInv ==
    /\ DOMAIN jobs = Jobs /\ \A j \in Jobs : Board!Exists(j) => IsRow(jobs[j])
    /\ DOMAIN caller = Callers
    /\ \A c \in Callers : DOMAIN caller[c] = CallerFields /\ StillHolds(caller[c], jobs, patched)
    /\ \A t \in jobTasks : TellsFirst(t, patched)
    /\ \A j \in filled : StaysFilled(j, jobs, patched)
    /\ \A s \in page.seen : /\ IsRow(page.row)
                            /\ s.tier = Board!getMatchTier(Board!calculateMatchScore(page.row, s.profile))
    /\ today \in Nat

-----------------------------------------------------------------------------
(* The figures.                                                            *)

LEMMA PointsAre ==
    ASSUME NEW n, NEW when
    PROVE  /\ when => Board!Points(n, when) = n
           /\ ~ when => Board!Points(n, when) = 0
BY DEF Board!Points

\* Nobody is proven; and only who has the trade, the place and the card is more than weak.
LEMMA TierNeedsAll ==
    ASSUME NEW row, NEW profile
    PROVE  LET tier == Board!getMatchTier(Board!calculateMatchScore(row, profile))
           IN  /\ tier # "PROVEN"
               /\ tier # "WEAK" => /\ row.card /\ profile.card
                                   /\ Board!TradeOnPage(row, profile) /\ Board!PlaceOnPage(row, profile)
<1> DEFINE trade == Board!TradeOnPage(row, profile)
           place == Board!PlaceOnPage(row, profile)
           card  == row.card /\ profile.card
           free  == Board!AvailableOnPage(row, profile)
<1>1. PICK a, b, c, d : /\ a = Board!Points(40, trade) /\ b = Board!Points(20, place)
                        /\ c = Board!Points(20, card) /\ d = Board!Points(10, free)
  OBVIOUS
<1>2. /\ a \in {0, 40} /\ (a = 0 \/ trade)
      /\ b \in {0, 20} /\ (b = 0 \/ place)
      /\ c \in {0, 20} /\ (c = 0 \/ card)
      /\ d \in {0, 10}
  BY <1>1 DEF Board!Points
<1>3. Board!calculateMatchScore(row, profile) = a + b + c + d
  BY <1>1 DEF Board!calculateMatchScore
<1> HIDE DEF trade, place, card, free
<1>4. PICK score, tier : score = a + b + c + d /\ tier = Board!getMatchTier(score)
  OBVIOUS
<1>5. score \in Nat /\ score <= 90
  BY <1>2, <1>4
<1>6. tier = IF score >= 95 THEN "PROVEN" ELSE IF score \in 90..94 THEN "EXCELLENT"
             ELSE IF score \in 80..89 THEN "GOOD" ELSE "WEAK"
  <2>1. CASE score >= 95
    BY <1>5, <2>1
  <2>2. CASE score \in 90..94
    BY <1>4, <2>2 DEF Board!getMatchTier
  <2>3. CASE score \in 80..89
    BY <1>4, <2>3 DEF Board!getMatchTier
  <2>4. CASE score < 80
    BY <1>4, <1>5, <2>4 DEF Board!getMatchTier
  <2> QED
    BY <1>5, <2>1, <2>2, <2>3, <2>4
<1>7. tier # "PROVEN" /\ (tier # "WEAK" => score >= 80)
  BY <1>5, <1>6
<1>8. score >= 80 => trade /\ place /\ card
  BY <1>2, <1>4
<1> QED
  BY <1>3, <1>4, <1>7, <1>8 DEF trade, place, card

\* A trade and a place that fit on the page of a job do so in a task, unless the trade is empty.
LEMMA PageFitsTask ==
    ASSUME BoardAssumption, NEW row, IsRow(row), NEW profile, row.trade # Board!NoTrade,
           Board!TradeOnPage(row, profile), Board!PlaceOnPage(row, profile)
    PROVE  Board!TradeMatches(row, profile) /\ Board!PlaceMatches(row, profile)
<1>1. Board!TradeMatches(row, profile)
  BY DEF Board!TradeOnPage, Board!TradeMatches
<1>2. CASE Board!InCity(row, profile)
  BY <1>1, <1>2 DEF Board!PlaceMatches
<1>3. CASE row.postcode # Null /\ profile.place \in {row.postcode, District[row.postcode]}
  <2>1. row.postcode \in DOMAIN District /\ District[row.postcode] \notin DOMAIN District
    BY <1>3 DEF IsRow, BoardAssumption, Board!JobBoardAssumption
  <2>2. Board!DistrictOf(profile.place) = District[row.postcode]
    BY <1>3, <2>1 DEF Board!DistrictOf
  <2> QED
    BY <1>1, <1>3, <2>2 DEF Board!PlaceMatches
<1> QED
  BY <1>1, <1>2, <1>3 DEF Board!PlaceOnPage

LEMMA ScoreOfTask ==
    ASSUME NEW row, NEW profile, Board!TradeMatches(row, profile), Board!PlaceMatches(row, profile)
    PROVE  Board!JobScore(row, profile) >= 65
<1>1. PICK a, b, c, d, e : /\ a = Board!Points(45, Board!TradeMatches(row, profile))
                           /\ b = Board!Points(20, Board!PlaceMatches(row, profile))
                           /\ c = Board!Points(10, row.status = "URGENT")
                           /\ d = Board!Points(15, Board!AvailabilityMatches(row, profile))
                           /\ e = Board!Points(10, Board!SalaryFits(row, profile))
  OBVIOUS
<1>2. a = 45 /\ b = 20 /\ c \in {0, 10} /\ d \in {0, 15} /\ e \in {0, 10}
  BY <1>1 DEF Board!Points
<1>3. Board!JobScore(row, profile) = a + b + c + d + e
  BY <1>1 DEF Board!JobScore
<1> QED
  BY <1>2, <1>3

\* The hours of a job without a length fall from four weeks to one as the start comes near.
LEMMA HoursFall ==
    ASSUME Soon \in Nat, NEW job, IsSnapshot(job), job.start # Null,
           NEW day \in Int, NEW later \in Int, day <= later, later <= job.start
    PROVE  /\ Board!calculateExpectedHours(job, day) \in Int
           /\ Board!calculateExpectedHours(job, later) \in Int
           /\ Board!calculateExpectedHours(job, later) <= Board!calculateExpectedHours(job, day)
<1>1. job.start \in Int /\ (job.weeks # Null => job.weeks \in Int)
  BY DEF IsSnapshot, Figure
<1>2. CASE job.weeks # Null /\ job.weeks > 0
  <2>1. /\ Board!calculateExpectedHours(job, day) = job.weeks * 40
        /\ Board!calculateExpectedHours(job, later) = job.weeks * 40
    BY <1>2 DEF Board!calculateExpectedHours
  <2> QED
    BY <1>1, <1>2, <2>1
<1>3. CASE ~ (job.weeks # Null /\ job.weeks > 0)
  <2>1. \A d : Board!calculateExpectedHours(job, d) = IF job.start - d \in 0..Soon THEN 40 ELSE 160
    BY <1>3 DEF Board!calculateExpectedHours
  <2>2. job.start - day \in 0..Soon => job.start - later \in 0..Soon
    BY <1>1
  <2> QED
    BY <2>1, <2>2
<1> QED
  BY <1>2, <1>3

LEMMA Product ==
    ASSUME NEW m \in Int, m >= 0, NEW a \in Int, NEW b \in Int, a <= b
    PROVE  m * a <= m * b
OBVIOUS

\* What a task is worth does not rise as the start comes near.
LEMMA WorthFalls ==
    ASSUME Soon \in Nat, NEW job, job # Null, IsSnapshot(job), job.start # Null,
           Board!MarginPerHour(job) # Null, Board!MarginPerHour(job) >= 0,
           NEW day \in Int, NEW later \in Int, day <= later, later <= job.start
    PROVE  Board!PriorityScore(job, later) <= Board!PriorityScore(job, day)
<1>1. PICK m, a, b : /\ m = Board!MarginPerHour(job)
                     /\ a = Board!calculateExpectedHours(job, later)
                     /\ b = Board!calculateExpectedHours(job, day)
  OBVIOUS
<1>2. m \in Int
  BY <1>1 DEF Board!MarginPerHour, IsSnapshot, Figure
<1>3. a \in Int /\ b \in Int /\ a <= b
  BY <1>1, HoursFall
<1>4. m * a <= m * b
  BY <1>1, <1>2, <1>3, Product
<1>5. Board!PriorityScore(job, later) = m * a /\ Board!PriorityScore(job, day) = m * b
  BY <1>1 DEF Board!PriorityScore
<1> QED
  BY <1>4, <1>5

\* For full weeks the task is worth what the page of its job tells.
LEMMA WorthIsMargin ==
    ASSUME NEW row, NEW day, row.hours = 40, row.weeks \in Int, row.weeks > 0, row.weeks # Null,
           row.hours # Null,
           Board!MarginPerHour(row) # Null, Board!MarginPerHour(row) \in Int,
           NEW job, job # Null, job.pay = row.pay, job.charge = row.charge, job.weeks = row.weeks
    PROVE  Board!PriorityScore(job, day) = Board!ProjectMargin(row)
<1>1. PICK m, w : m = Board!MarginPerHour(row) /\ w = row.weeks
  OBVIOUS
<1>2. m \in Int /\ w \in Int
  BY <1>1
<1>3. Board!MarginPerHour(job) = m
  BY <1>1 DEF Board!MarginPerHour
<1>4. Board!calculateExpectedHours(job, day) = w * 40
  BY <1>1 DEF Board!calculateExpectedHours
<1>5. Board!PriorityScore(job, day) = m * (w * 40)
  BY <1>1, <1>3, <1>4 DEF Board!PriorityScore
<1>6. Board!ProjectMargin(row) = m * 40 * w
  BY <1>1 DEF Board!ProjectMargin
<1>7. m * (w * 40) = m * 40 * w
  BY <1>2
<1> QED
  BY <1>5, <1>6, <1>7

-----------------------------------------------------------------------------
(* Rows and callers.                                                       *)

\* A body writes its own columns, and a row stays one.
LEMMA AppliedIs ==
    ASSUME BoardAssumption, NEW body \in NewJobs \cup Patches, NEW row, IsRow(row)
    PROVE  IsRow(Board!Applied(row, body))
<1>1. PICK new : new = Board!Applied(row, body)
  OBVIOUS
<1>2. new = [f \in DOMAIN row |-> IF f \in DOMAIN body THEN Board!Stored(body, f) ELSE row[f]]
  BY <1>1 DEF Board!Applied
<1>3. DOMAIN new = Columns
  BY <1>2 DEF IsRow
<1>4. ASSUME NEW f \in Figures PROVE new[f] \in Figure
  <2>1. f \in Columns /\ f # "card" /\ row[f] \in Figure
    BY <1>4 DEF Figures, Columns, IsRow
  <2>2. new[f] = IF f \in DOMAIN body THEN body[f] ELSE row[f]
    BY <1>2, <2>1 DEF IsRow, Board!Stored
  <2> QED
    BY <1>4, <2>1, <2>2 DEF BoardAssumption
<1>5. new.postcode \in DOMAIN District \cup {Null}
  <2>1. new.postcode = IF "postcode" \in DOMAIN body THEN body.postcode ELSE row.postcode
    BY <1>2 DEF IsRow, Columns, Board!Stored
  <2> QED
    BY <2>1 DEF BoardAssumption, IsRow
<1> QED
  BY <1>1, <1>3, <1>4, <1>5 DEF IsRow

LEMMA DefaultsAre == BoardAssumption => IsRow(Board!Defaults)
BY DEF Board!Defaults, IsRow, Columns, Figures, Figure

\* The rows go on: who is a row stays one, and the pay and the positions of a job change by
\* a patch alone.
Onwards(js, js2, pt, pt2) ==
    /\ pt \subseteq pt2
    /\ \A j \in Jobs : IsRow(js[j]) =>
          /\ IsRow(js2[j])
          /\ j \in pt2 \/ (js2[j].positionsOpen = js[j].positionsOpen /\ js2[j].pay = js[j].pay)

LEMMA OnwardsHolds ==
    ASSUME NEW q, NEW js, NEW pt, NEW js2, NEW pt2, StillHolds(q, js, pt), Onwards(js, js2, pt, pt2)
    PROVE  StillHolds(q, js2, pt2)
<1>1. q.pc \in {"fill", "page"} => q.job \in Jobs /\ IsRow(q.row) /\ IsRow(js2[q.job])
  BY DEF StillHolds, Onwards
<1>2. q.pc = "fill" => q.job \in pt2 \/ q.row.positionsOpen = js2[q.job].positionsOpen
  BY DEF StillHolds, Onwards
<1>3. q.pc = "match" => q.job = Null
  BY DEF StillHolds
<1>4. q.pc = "snapshot" /\ q.job # Null =>
          /\ q.job \in Jobs /\ IsRow(js2[q.job]) /\ q.job \in q.shown
          /\ q.job \in pt2 \/ q.row.pay = js2[q.job].pay
  BY DEF StillHolds, Onwards
<1> QED
  BY <1>1, <1>2, <1>3, <1>4 DEF StillHolds

\* The parts of the invariant.
JobsOK == DOMAIN jobs = Jobs /\ \A j \in Jobs : Board!Exists(j) => IsRow(jobs[j])

CallersOK ==
    /\ DOMAIN caller = Callers
    /\ \A c \in Callers : DOMAIN caller[c] = CallerFields /\ StillHolds(caller[c], jobs, patched)

ToldOK == \A t \in jobTasks : TellsFirst(t, patched)

FilledOK == \A j \in filled : StaysFilled(j, jobs, patched)

PageOK == \A s \in page.seen :
    /\ IsRow(page.row)
    /\ s.tier = Board!getMatchTier(Board!calculateMatchScore(page.row, s.profile))

LEMMA InvParts == BoardInv <=> JobsOK /\ CallersOK /\ ToldOK /\ FilledOK /\ PageOK /\ today \in Nat
BY DEF BoardInv, JobsOK, CallersOK, ToldOK, FilledOK, PageOK

LEMMA InvPartsNext == BoardInv' <=> JobsOK' /\ CallersOK' /\ ToldOK' /\ FilledOK' /\ PageOK' /\ (today \in Nat)'
BY DEF BoardInv, JobsOK, CallersOK, ToldOK, FilledOK, PageOK

\* One caller goes on, and the jobs stay as they are.
LEMMA CallerGoes ==
    ASSUME BoardInv, NEW c \in Callers, NEW q, DOMAIN q = CallerFields, StillHolds(q, jobs, patched),
           caller' = [caller EXCEPT ![c] = q], UNCHANGED <<jobs, patched, filled, today>>
    PROVE  JobsOK' /\ CallersOK' /\ FilledOK' /\ (today \in Nat)'
<1>1. JobsOK' /\ FilledOK' /\ (today \in Nat)'
  BY InvParts DEF JobsOK, FilledOK, Board!Exists
<1>2. DOMAIN caller' = Callers
  BY InvParts DEF CallersOK
<1>3. ASSUME NEW d \in Callers PROVE DOMAIN caller'[d] = CallerFields /\ StillHolds(caller'[d], jobs, patched)
  BY <1>3, InvParts DEF CallersOK
<1> QED
  BY <1>1, <1>2, <1>3 DEF CallersOK

LEMMA RestHolds == ASSUME NEW js, NEW pt PROVE DOMAIN Board!Rest = CallerFields /\ StillHolds(Board!Rest, js, pt)
<1>1. DOMAIN Board!Rest = CallerFields /\ Board!Rest.pc = "idle"
  BY DEF Board!Rest, CallerFields
<1> QED
  BY <1>1 DEF StillHolds

LEMMA BoardInit == BoardAssumption /\ Board!Init => BoardInv
<1> SUFFICES ASSUME BoardAssumption, Board!Init PROVE BoardInv
  OBVIOUS
<1>1. JobsOK
  BY DEF Board!Init, JobsOK, Board!Exists
<1>2. CallersOK
  BY RestHolds DEF Board!Init, CallersOK
<1>3. ToldOK /\ FilledOK /\ PageOK /\ today \in Nat
  BY DEF Board!Init, ToldOK, FilledOK, PageOK, Board!NoPage
<1> QED
  BY <1>1, <1>2, <1>3, InvParts

\* The rows change, and no caller.
LEMMA RowsGo ==
    ASSUME BoardInv, NEW j \in Jobs, NEW new, IsRow(new), jobs' = [jobs EXCEPT ![j] = new],
           Onwards(jobs, jobs', patched, patched'), UNCHANGED <<caller, page, jobTasks, today>>
    PROVE  JobsOK' /\ CallersOK' /\ ToldOK' /\ PageOK' /\ (today \in Nat)'
<1>1. JobsOK'
  BY InvParts DEF JobsOK, Board!Exists
<1>2. PICK js, pt : js = jobs' /\ pt = patched'
  OBVIOUS
<1>3. \A c \in Callers : DOMAIN caller[c] = CallerFields /\ StillHolds(caller[c], js, pt)
  BY <1>2, InvParts, OnwardsHolds DEF CallersOK
<1>4. CallersOK'
  BY <1>2, <1>3, InvParts DEF CallersOK
<1>5. ToldOK'
  BY InvParts DEF ToldOK, TellsFirst, Onwards
<1>6. PageOK' /\ (today \in Nat)'
  BY InvParts DEF PageOK
<1> QED
  BY <1>1, <1>4, <1>5, <1>6

LEMMA CreateSafe ==
    ASSUME BoardAssumption, BoardInv, NEW j \in Jobs, Board!CreateJob(j)
    PROVE  BoardInv'
<1>1. PICK body \in NewJobs : jobs' = [jobs EXCEPT ![j] = Board!Applied(Board!Defaults, body)]
  BY DEF Board!CreateJob
<1>2. PICK new : new = Board!Applied(Board!Defaults, body)
  OBVIOUS
<1>3. IsRow(new) /\ jobs' = [jobs EXCEPT ![j] = new]
  BY <1>1, <1>2, AppliedIs, DefaultsAre
<1>4. ~ IsRow(jobs[j])
  BY DEF Board!CreateJob, Board!Exists, IsRow, BoardAssumption
<1>5. UNCHANGED <<caller, page, jobTasks, patched, filled, today>>
  BY DEF Board!CreateJob
<1>6. Onwards(jobs, jobs', patched, patched')
  BY <1>3, <1>4, <1>5, InvParts DEF JobsOK, Onwards
<1>7. FilledOK'
  BY <1>3, <1>4, <1>5, InvParts DEF FilledOK, StaysFilled, JobsOK
<1> QED
  BY <1>3, <1>5, <1>6, <1>7, RowsGo, InvPartsNext

LEMMA PatchSafe ==
    ASSUME BoardAssumption, BoardInv, NEW j \in Jobs, Board!PatchJob(j)
    PROVE  BoardInv'
<1>1. PICK body \in Patches : jobs' = [jobs EXCEPT ![j] = Board!Applied(jobs[j], body)]
  BY DEF Board!PatchJob
<1>2. PICK new : new = Board!Applied(jobs[j], body)
  OBVIOUS
<1>3. IsRow(jobs[j])
  BY InvParts DEF Board!PatchJob, JobsOK
<1>4. IsRow(new) /\ jobs' = [jobs EXCEPT ![j] = new]
  BY <1>1, <1>2, <1>3, AppliedIs
<1>5. UNCHANGED <<caller, page, jobTasks, filled, today>> /\ patched' = patched \cup {j}
  BY DEF Board!PatchJob
<1>6. Onwards(jobs, jobs', patched, patched')
  BY <1>4, <1>5, InvParts DEF JobsOK, Onwards
<1>7. FilledOK'
  BY <1>4, <1>5, InvParts DEF FilledOK, StaysFilled, JobsOK
<1> QED
  BY <1>4, <1>5, <1>6, <1>7, RowsGo, InvPartsNext

\* Marking a job as filled writes its status, and its positions unless they are to stay.
LEMMA MarkSafe ==
    ASSUME BoardAssumption, BoardInv, NEW c \in Callers, Board!MarkFilled(c)
    PROVE  BoardInv'
<1>1. PICK q, j, n, old : q = caller[c] /\ j = q.job /\ n = q.row.positionsOpen /\ old = jobs[j]
  OBVIOUS
<1>2. /\ q.pc = "fill" /\ caller' = [caller EXCEPT ![c] = Board!Rest]
      /\ UNCHANGED <<page, jobTasks, patched, today>>
  BY <1>1 DEF Board!MarkFilled, Board!Take
<1>3. j \in Jobs /\ IsRow(old) /\ (j \in patched \/ n = old.positionsOpen)
  BY <1>1, <1>2, InvParts DEF CallersOK, StillHolds
<1>4. PICK new : /\ jobs' = [jobs EXCEPT ![j] = new] /\ IsRow(new) /\ new.status = "FILLED"
                 /\ new.pay = old.pay /\ new.positionsOpen = old.positionsOpen
                 /\ \/ new.positionsFilled = n /\ filled' = filled \cup {j}
                    \/ new.positionsFilled = old.positionsFilled /\ filled' = filled
  <2>1. CASE /\ jobs' = [jobs EXCEPT ![j].status = "FILLED", ![j].positionsFilled = n]
             /\ filled' = filled \cup {j}
    <3>1. PICK new : new = [old EXCEPT !.status = "FILLED", !.positionsFilled = n]
      OBVIOUS
    <3>2. /\ DOMAIN new = Columns
          /\ \A f \in Columns \ {"status", "positionsFilled"} : new[f] = old[f]
          /\ new.status = "FILLED" /\ new.positionsFilled = n
      BY <1>3, <3>1 DEF IsRow, Columns
    <3>3. IsRow(new) /\ new.pay = old.pay /\ new.positionsOpen = old.positionsOpen
      BY <1>3, <3>2 DEF IsRow, Columns, Figures
    <3>4. jobs' = [jobs EXCEPT ![j] = new]
      BY <1>1, <1>3, <2>1, <3>1, InvParts DEF JobsOK
    <3> QED
      BY <2>1, <3>2, <3>3, <3>4
  <2>2. CASE jobs' = [jobs EXCEPT ![j].status = "FILLED"] /\ filled' = filled
    <3>1. PICK new : new = [old EXCEPT !.status = "FILLED"]
      OBVIOUS
    <3>2. /\ DOMAIN new = Columns /\ \A f \in Columns \ {"status"} : new[f] = old[f]
          /\ new.status = "FILLED"
      BY <1>3, <3>1 DEF IsRow, Columns
    <3>3. /\ IsRow(new) /\ new.pay = old.pay /\ new.positionsOpen = old.positionsOpen
          /\ new.positionsFilled = old.positionsFilled
      BY <1>3, <3>2 DEF IsRow, Columns, Figures
    <3>4. jobs' = [jobs EXCEPT ![j] = new]
      BY <1>1, <1>3, <2>2, <3>1, InvParts DEF JobsOK
    <3> QED
      BY <2>2, <3>2, <3>3, <3>4
  <2> QED
    BY <1>1, <2>1, <2>2 DEF Board!MarkFilled
<1>5. Onwards(jobs, jobs', patched, patched')
  BY <1>1, <1>2, <1>3, <1>4, InvParts DEF JobsOK, Onwards
<1>6. JobsOK'
  BY <1>3, <1>4, InvParts DEF JobsOK, Board!Exists
<1>7. PICK js, pt : js = jobs' /\ pt = patched
  OBVIOUS
<1>8. \A d \in Callers : DOMAIN caller[d] = CallerFields /\ StillHolds(caller[d], js, pt)
  BY <1>2, <1>5, <1>7, InvParts, OnwardsHolds DEF CallersOK
<1>9. CallersOK'
  BY <1>2, <1>7, <1>8, RestHolds, InvParts DEF CallersOK
<1>10. FilledOK'
  <2> SUFFICES ASSUME NEW k \in filled' PROVE StaysFilled(k, js, pt)
    BY <1>2, <1>7 DEF FilledOK
  <2>1. CASE k = j
    <3>1. CASE j \in filled
      <4>1. j \in patched \/ old.positionsFilled = old.positionsOpen
        BY <1>1, <3>1, InvParts DEF FilledOK, StaysFilled
      <4> QED
        BY <1>3, <1>4, <1>6, <1>7, <2>1, <4>1, InvParts DEF StaysFilled, JobsOK
    <3>2. CASE j \notin filled
      BY <1>3, <1>4, <1>7, <2>1, <3>2, InvParts DEF StaysFilled, JobsOK
    <3> QED
      BY <3>1, <3>2
  <2>2. CASE k # j
    <3>1. k \in filled
      BY <1>4, <2>2
    <3>2. StaysFilled(k, jobs, patched)
      BY <3>1, InvParts DEF FilledOK
    <3>3. js[k] = jobs[k]
      BY <1>4, <1>7, <2>2, <3>2, InvParts DEF JobsOK, StaysFilled
    <3> QED
      BY <1>7, <3>2, <3>3 DEF StaysFilled
  <2> QED
    BY <2>1, <2>2
<1>11. ToldOK' /\ PageOK' /\ (today \in Nat)'
  BY <1>2, InvParts DEF ToldOK, PageOK
<1> QED
  BY <1>6, <1>9, <1>10, <1>11, InvPartsNext

\* The pages and the tasks stay as they are.
LEMMA ReadsSafe ==
    ASSUME BoardAssumption, BoardInv, NEW c \in Callers,
           Board!ReadForFilled(c) \/ Board!ReadJob(c) \/ Board!ReadCandidate(c) \/ Board!matchJobsForCandidate(c)
    PROVE  BoardInv'
<1>1. UNCHANGED <<jobs, page, jobTasks, patched, filled, today>>
  BY DEF Board!ReadForFilled, Board!ReadJob, Board!ReadCandidate, Board!matchJobsForCandidate
<1>2. ASSUME NEW q, DOMAIN q = CallerFields, StillHolds(q, jobs, patched), caller' = [caller EXCEPT ![c] = q]
      PROVE  BoardInv'
  <2>1. JobsOK' /\ CallersOK' /\ FilledOK' /\ (today \in Nat)'
    BY <1>1, <1>2, CallerGoes
  <2>2. ToldOK' /\ PageOK'
    BY <1>1, InvParts DEF ToldOK, PageOK
  <2> QED
    BY <2>1, <2>2, InvPartsNext
<1>3. CASE Board!ReadForFilled(c) \/ Board!ReadJob(c)
  <2>1. PICK j, pc : /\ j \in Jobs /\ Board!Exists(j) /\ pc \in {"fill", "page"}
                     /\ caller' = [caller EXCEPT ![c] =
                           [Board!Rest EXCEPT !.pc = pc, !.job = j, !.row = jobs[j]]]
    BY <1>3 DEF Board!ReadForFilled, Board!ReadJob, Board!Take
  <2>2. PICK q : q = [Board!Rest EXCEPT !.pc = pc, !.job = j, !.row = jobs[j]]
    OBVIOUS
  <2>3. DOMAIN q = CallerFields /\ q.pc = pc /\ q.job = j /\ q.row = jobs[j]
    BY <2>2 DEF Board!Rest, CallerFields
  <2>4. StillHolds(q, jobs, patched)
    BY <2>1, <2>3, InvParts DEF StillHolds, JobsOK
  <2> QED
    BY <1>2, <2>1, <2>2, <2>3, <2>4
<1>4. CASE Board!ReadCandidate(c)
  <2>1. PICK who, profile : caller' = [caller EXCEPT ![c] =
                               [Board!Rest EXCEPT !.pc = "match", !.who = who, !.profile = profile]]
    BY <1>4 DEF Board!ReadCandidate, Board!Take
  <2>2. PICK q : q = [Board!Rest EXCEPT !.pc = "match", !.who = who, !.profile = profile]
    OBVIOUS
  <2>3. DOMAIN q = CallerFields /\ q.pc = "match" /\ q.job = Null
    BY <2>2 DEF Board!Rest, CallerFields
  <2>4. StillHolds(q, jobs, patched)
    BY <2>3 DEF StillHolds
  <2> QED
    BY <1>2, <2>1, <2>2, <2>3, <2>4
<1>5. CASE Board!matchJobsForCandidate(c)
  <2>1. PICK p : p = caller[c] /\ DOMAIN p = CallerFields /\ p.pc = "match" /\ p.job = Null
    BY <1>5, InvParts DEF CallersOK, StillHolds, Board!matchJobsForCandidate
  <2>2. CASE Board!Take(c, "match", [p EXCEPT !.pc = "snapshot"])
    <3>1. PICK q : q = [p EXCEPT !.pc = "snapshot"]
      OBVIOUS
    <3>2. DOMAIN q = CallerFields /\ q.pc = "snapshot" /\ q.job = Null
      BY <2>1, <3>1 DEF CallerFields
    <3>3. StillHolds(q, jobs, patched)
      BY <3>2 DEF StillHolds
    <3> QED
      BY <1>2, <2>2, <3>1, <3>2, <3>3 DEF Board!Take
  <2>3. CASE ~ Board!Take(c, "match", [p EXCEPT !.pc = "snapshot"])
    <3>1. PICK best, first : /\ first \in Board!Matching(p.profile) /\ first \in best
                              /\ Board!Take(c, "match", [p EXCEPT !.pc = "snapshot", !.shown = best, !.job = first,
                                                                  !.row = jobs[first]])
      BY <1>5, <2>1, <2>3 DEF Board!matchJobsForCandidate
    <3>2. first \in Jobs /\ IsRow(jobs[first])
      BY <3>1, InvParts DEF Board!Matching, JobsOK
    <3>3. PICK q : q = [p EXCEPT !.pc = "snapshot", !.shown = best, !.job = first, !.row = jobs[first]]
      OBVIOUS
    <3>4. /\ DOMAIN q = CallerFields /\ q.pc = "snapshot" /\ q.job = first /\ q.shown = best
          /\ q.row = jobs[first]
      BY <2>1, <3>3 DEF CallerFields
    <3>5. StillHolds(q, jobs, patched)
      BY <3>1, <3>2, <3>4 DEF StillHolds
    <3> QED
      BY <1>2, <3>1, <3>3, <3>4, <3>5 DEF Board!Take
  <2> QED
    BY <2>2, <2>3
<1> QED
  BY <1>3, <1>4, <1>5

LEMMA RankSafe ==
    ASSUME BoardAssumption, BoardInv, NEW c \in Callers, Board!RankCandidates(c)
    PROVE  BoardInv'
<1>1. PICK row : row = caller[c].row /\ IsRow(row)
  BY InvParts DEF CallersOK, StillHolds, Board!RankCandidates, Board!Take
<1>2. /\ caller' = [caller EXCEPT ![c] = Board!Rest]
      /\ UNCHANGED <<jobs, jobTasks, patched, filled, today>>
  BY DEF Board!RankCandidates, Board!Take
<1>3. JobsOK' /\ CallersOK' /\ FilledOK' /\ (today \in Nat)'
  BY <1>2, RestHolds, CallerGoes
<1>4. ToldOK'
  BY <1>2, InvParts DEF ToldOK
<1>5. PageOK'
  <2>1. PICK score : score = [k \in Candidates |-> Board!calculateMatchScore(row, candidates[k])]
    OBVIOUS
  <2>2. page' = [row |-> row,
                 seen |-> {[who |-> k, profile |-> candidates[k], tier |-> Board!getMatchTier(score[k])] :
                              k \in {x \in Candidates : score[x] > 0}}]
    BY <1>1, <2>1 DEF Board!RankCandidates
  <2>3. PICK seen : seen = {[who |-> k, profile |-> candidates[k], tier |-> Board!getMatchTier(score[k])] :
                              k \in {x \in Candidates : score[x] > 0}}
    OBVIOUS
  <2>4. page'.row = row /\ page'.seen = seen
    BY <2>2, <2>3
  <2>5. ASSUME NEW s \in seen PROVE s.tier = Board!getMatchTier(Board!calculateMatchScore(row, s.profile))
    <3>1. PICK k \in Candidates : s = [who |-> k, profile |-> candidates[k], tier |-> Board!getMatchTier(score[k])]
      BY <2>3, <2>5
    <3>2. s.profile = candidates[k] /\ s.tier = Board!getMatchTier(score[k])
      BY <3>1
    <3>3. score[k] = Board!calculateMatchScore(row, candidates[k])
      BY <2>1
    <3> QED
      BY <3>2, <3>3
  <2>6. PICK p : p = page'
    OBVIOUS
  <2> QED
    BY <1>1, <2>4, <2>5 DEF PageOK
<1> QED
  BY <1>3, <1>4, <1>5, InvPartsNext

\* A task is created: it tells of its first match.
LEMMA TaskGoes ==
    ASSUME BoardAssumption, BoardInv, NEW c \in Callers, NEW t, TellsFirst(t, patched),
           caller' = [caller EXCEPT ![c] = Board!Rest], jobTasks' = jobTasks \cup {t},
           UNCHANGED <<jobs, page, patched, filled, today>>
    PROVE  BoardInv'
<1>1. JobsOK' /\ CallersOK' /\ FilledOK' /\ (today \in Nat)'
  BY RestHolds, CallerGoes
<1>2. ToldOK'
  BY InvParts DEF ToldOK
<1>3. PageOK'
  BY InvParts DEF PageOK
<1> QED
  BY <1>1, <1>2, <1>3, InvPartsNext

LEMMA CreateTaskSafe ==
    ASSUME BoardAssumption, BoardInv, NEW c \in Callers, Board!CreateTask(c)
    PROVE  BoardInv'
<1>1. PICK q : q = caller[c] /\ q.pc = "snapshot" /\ StillHolds(q, jobs, patched)
  BY InvParts DEF CallersOK, Board!CreateTask, Board!Take
<1>2. PICK told : told = IF q.job = Null THEN Null ELSE Board!Snapshot(jobs[q.job])
  OBVIOUS
<1>3. PICK t : t = Board!Task(q, told)
  OBVIOUS
<1>4. /\ caller' = [caller EXCEPT ![c] = Board!Rest] /\ jobTasks' = jobTasks \cup {t}
      /\ UNCHANGED <<jobs, page, patched, filled, today>>
  BY <1>1, <1>2, <1>3 DEF Board!CreateTask, Board!Take
<1>5. TellsFirst(t, patched)
  <2>1. /\ t.job = told /\ t.first = q.job /\ t.shown = q.shown
        /\ q.job # Null => t.pay = q.row.pay
    BY <1>3 DEF Board!Task
  <2>2. CASE q.job = Null
    BY <1>2, <2>1, <2>2 DEF TellsFirst
  <2>3. CASE q.job # Null
    <3>1. /\ IsRow(jobs[q.job]) /\ q.job \in q.shown
          /\ q.job \in patched \/ q.row.pay = jobs[q.job].pay
      BY <1>1, <2>3 DEF StillHolds
    <3>2. /\ told.pay = jobs[q.job].pay /\ told.charge = jobs[q.job].charge
          /\ told.weeks = jobs[q.job].weeks /\ told.start = jobs[q.job].start
      BY <1>2, <2>3 DEF Board!Snapshot
    <3>3. IsSnapshot(told)
      BY <3>1, <3>2 DEF IsSnapshot, IsRow, Figures
    <3> QED
      BY <2>1, <2>3, <3>1, <3>2, <3>3 DEF TellsFirst
  <2> QED
    BY <2>2, <2>3
<1> QED
  BY <1>4, <1>5, TaskGoes

LEMMA FailsSafe ==
    ASSUME BoardAssumption, BoardInv, NEW c \in Callers, Board!Fails(c)
    PROVE  BoardInv'
<1>1. PICK q : q = caller[c] /\ DOMAIN q = CallerFields /\ StillHolds(q, jobs, patched)
  BY InvParts DEF CallersOK
<1>2. UNCHANGED <<jobs, page, patched, filled, today>>
  BY DEF Board!Fails
<1>3. ASSUME NEW p, DOMAIN p = CallerFields, StillHolds(p, jobs, patched),
             caller' = [caller EXCEPT ![c] = p], UNCHANGED jobTasks
      PROVE  BoardInv'
  <2>1. JobsOK' /\ CallersOK' /\ FilledOK' /\ (today \in Nat)'
    BY <1>2, <1>3, CallerGoes
  <2>2. ToldOK' /\ PageOK'
    BY <1>2, <1>3, InvParts DEF ToldOK, PageOK
  <2> QED
    BY <2>1, <2>2, InvPartsNext
<1>4. CASE (Board!Take(c, "fill", Board!Rest) \/ Board!Take(c, "page", Board!Rest)) /\ UNCHANGED jobTasks
  BY <1>3, <1>4, RestHolds DEF Board!Take
<1>5. CASE Board!Take(c, "match", [q EXCEPT !.pc = "snapshot"]) /\ UNCHANGED jobTasks
  <2>1. q.pc = "match" /\ q.job = Null
    BY <1>1, <1>5 DEF Board!Take, StillHolds
  <2>2. PICK p : p = [q EXCEPT !.pc = "snapshot"]
    OBVIOUS
  <2>3. DOMAIN p = CallerFields /\ p.pc = "snapshot" /\ p.job = Null
    BY <1>1, <2>1, <2>2 DEF CallerFields
  <2>4. StillHolds(p, jobs, patched)
    BY <2>3 DEF StillHolds
  <2> QED
    BY <1>3, <1>5, <2>2, <2>3, <2>4 DEF Board!Take
<1>6. CASE Board!Take(c, "snapshot", Board!Rest) /\ jobTasks' = jobTasks \cup {Board!Task(q, Null)}
  <2>1. PICK t : t = Board!Task(q, Null)
    OBVIOUS
  <2>2. TellsFirst(t, patched)
    BY <2>1 DEF Board!Task, TellsFirst
  <2> QED
    BY <1>2, <1>6, <2>1, <2>2, TaskGoes DEF Board!Take
<1> QED
  BY <1>1, <1>4, <1>5, <1>6 DEF Board!Fails

LEMMA OthersSafe ==
    ASSUME BoardAssumption, BoardInv,
           (\E k \in Candidates : Board!Learn(k)) \/ Board!Day \/ UNCHANGED Board!vars
    PROVE  BoardInv'
<1>1. /\ UNCHANGED <<jobs, caller, page, jobTasks, patched, filled>>
      /\ (today \in Nat)'
  BY InvParts DEF Board!Learn, Board!Day, Board!vars
<1>2. JobsOK' /\ CallersOK' /\ ToldOK' /\ FilledOK' /\ PageOK'
  BY <1>1, InvParts DEF JobsOK, CallersOK, ToldOK, FilledOK, PageOK, Board!Exists
<1> QED
  BY <1>1, <1>2, InvPartsNext

LEMMA BoardNext == BoardAssumption /\ BoardInv /\ [Board!Next]_(Board!vars) => BoardInv'
<1> SUFFICES ASSUME BoardAssumption, BoardInv, [Board!Next]_(Board!vars) PROVE BoardInv'
  OBVIOUS
<1>1. CASE \E j \in Jobs : Board!CreateJob(j) \/ Board!PatchJob(j)
  BY <1>1, CreateSafe, PatchSafe
<1>2. ASSUME NEW c \in Callers,
             Board!ReadForFilled(c) \/ Board!ReadJob(c) \/ Board!ReadCandidate(c) \/ Board!matchJobsForCandidate(c)
      PROVE  BoardInv'
  BY <1>2, ReadsSafe
<1>3. ASSUME NEW c \in Callers, Board!MarkFilled(c) \/ Board!RankCandidates(c)
      PROVE  BoardInv'
  BY <1>3, MarkSafe, RankSafe
<1>4. ASSUME NEW c \in Callers, Board!CreateTask(c) \/ Board!Fails(c)
      PROVE  BoardInv'
  BY <1>4, CreateTaskSafe, FailsSafe
<1>5. CASE (\E k \in Candidates : Board!Learn(k)) \/ Board!Day \/ UNCHANGED Board!vars
  BY <1>5, OthersSafe
<1> QED
  BY <1>1, <1>2, <1>3, <1>4, <1>5 DEF Board!Next

LEMMA BoardHolds == ASSUME BoardAssumption PROVE Board!Spec => []BoardInv
<1>1. Board!Init => BoardInv
  BY BoardInit
<1>2. BoardInv /\ [Board!Next]_(Board!vars) => BoardInv'
  BY BoardNext
<1> QED
  BY <1>1, <1>2, PTL DEF Board!Spec

-----------------------------------------------------------------------------
(* What an operator may rely on.                                           *)

\* A job marked as filled has the status of one and all its positions filled, whatever other
\* callers read in between, unless it was patched: the positions that are written were read
\* in an earlier step.
THEOREM FilledJobsStay == ASSUME BoardAssumption PROVE Board!Spec => []Board!FilledUnlessPatched
<1>1. BoardInv => Board!FilledUnlessPatched
  BY InvParts DEF FilledOK, StaysFilled, Board!FilledUnlessPatched
<1> QED
  BY <1>1, BoardHolds, PTL

\* The snapshot in a task is of the first match it shows, and tells the pay that is shown,
\* unless the job was patched: the job is read a second time, after the matches.
THEOREM SnapshotsTellMatch == ASSUME BoardAssumption PROVE Board!Spec => []Board!SnapshotOfMatch
<1>1. BoardInv => Board!SnapshotOfMatch
  BY InvParts DEF ToldOK, TellsFirst, Board!SnapshotOfMatch
<1> QED
  BY <1>1, BoardHolds, PTL

\* Whoever the page of a job shows in a good tier has the card the job requires, and its
\* trade and its place; nobody is ever proven, for the points add up to less.
THEOREM TiersTold == ASSUME BoardAssumption PROVE Board!Spec => []Board!TiersNeedCard
<1>1. BoardInv => Board!TiersNeedCard
  BY TierNeedsAll, InvParts DEF PageOK, Board!TiersNeedCard
<1> QED
  BY <1>1, BoardHolds, PTL

\* The two ways to score agree: for whoever the page of a job shows in a good tier, a task
\* scores that job with a trade and a place that match, though it compares them in its own
\* way, unless the trade of the job was emptied.
THEOREM ScoresAgree == ASSUME BoardAssumption PROVE Board!Spec => []Board!MatchersAgree
<1>1. ASSUME BoardInv PROVE Board!MatchersAgree
  <2> SUFFICES ASSUME NEW s \in page.seen, s.tier # "WEAK", page.row.trade # Board!NoTrade
               PROVE  Board!JobScore(page.row, s.profile) >= 65
    BY DEF Board!MatchersAgree
  <2>1. PICK row, profile : row = page.row /\ profile = s.profile
    OBVIOUS
  <2>2. /\ IsRow(row)
        /\ s.tier = Board!getMatchTier(Board!calculateMatchScore(row, profile))
    BY <1>1, <2>1, InvParts DEF PageOK
  <2>3. Board!TradeOnPage(row, profile) /\ Board!PlaceOnPage(row, profile)
    BY <2>2, TierNeedsAll
  <2>4. Board!TradeMatches(row, profile) /\ Board!PlaceMatches(row, profile)
    BY <2>1, <2>2, <2>3, PageFitsTask
  <2>5. Board!JobScore(row, profile) >= 65
    BY <2>4, ScoreOfTask
  <2> QED
    BY <2>1, <2>5
<1> QED
  BY <1>1, BoardHolds, PTL

\* The inbox ranks a task for full weeks of work by what the page of its job says the job is
\* worth, as long as the job tells what the snapshot does.
THEOREM RankTellsMargin == ASSUME BoardAssumption PROVE Board!Spec => []Board!RankMatchesMargin
<1>1. ASSUME BoardInv PROVE Board!RankMatchesMargin
  <2> SUFFICES ASSUME NEW t \in jobTasks, t.job # Null, t.job = Board!Snapshot(jobs[t.first]),
                      jobs[t.first].hours = 40, jobs[t.first].weeks # Null, jobs[t.first].weeks > 0,
                      Board!MarginPerHour(jobs[t.first]) # Null
               PROVE  Board!PriorityScore(Board!extractJobData(t), today) = Board!ProjectMargin(jobs[t.first])
    BY DEF Board!RankMatchesMargin
  <2>1. PICK row, job : row = jobs[t.first] /\ job = t.job
    OBVIOUS
  <2>2. IsSnapshot(job)
    BY <1>1, <2>1, InvParts DEF ToldOK, TellsFirst
  <2>3. job.pay = row.pay /\ job.charge = row.charge /\ job.weeks = row.weeks
    BY <2>1 DEF Board!Snapshot
  <2>4. row.pay \in Figure /\ row.charge \in Figure /\ row.weeks \in Figure
    BY <2>2, <2>3 DEF IsSnapshot
  <2>5. row.weeks \in Int /\ Board!MarginPerHour(row) \in Int
    BY <2>1, <2>4 DEF Figure, Board!MarginPerHour
  <2>6. row.hours # Null
    BY <2>1 DEF BoardAssumption
  <2>7. Board!PriorityScore(job, today) = Board!ProjectMargin(row)
    BY <2>1, <2>3, <2>5, <2>6, WorthIsMargin
  <2> QED
    BY <2>1, <2>7 DEF Board!extractJobData
<1> QED
  BY <1>1, BoardHolds, PTL

\* A task that pays does not rise in the inbox as the start of its job comes nearer: its
\* hours only fall, when the start becomes urgent.
THEOREM RankFalls == ASSUME BoardAssumption PROVE Board!Spec => []Board!RankFallsTowardsStart
<1>1. ASSUME BoardInv PROVE Board!RankFallsTowardsStart
  <2> SUFFICES ASSUME NEW t \in jobTasks, NEW day \in today..MaxDays, t.job # Null,
                      Board!MarginPerHour(t.job) # Null, Board!MarginPerHour(t.job) >= 0,
                      t.job.start # Null, day <= t.job.start
               PROVE  Board!PriorityScore(Board!extractJobData(t), day)
                      <= Board!PriorityScore(Board!extractJobData(t), today)
    BY DEF Board!RankFallsTowardsStart
  <2>1. PICK job : job = t.job
    OBVIOUS
  <2>2. IsSnapshot(job)
    BY <1>1, <2>1, InvParts DEF ToldOK, TellsFirst
  <2>3. today \in Int /\ day \in Int /\ today <= day
    BY <1>1, InvParts
  <2>4. Soon \in Nat
    BY DEF BoardAssumption, Board!JobBoardAssumption
  <2>5. Board!PriorityScore(job, day) <= Board!PriorityScore(job, today)
    BY <2>1, <2>2, <2>3, <2>4, WorthFalls
  <2> QED
    BY <2>1, <2>5 DEF Board!extractJobData
<1> QED
  BY <1>1, BoardHolds, PTL

-----------------------------------------------------------------------------
(* The types of jobs, callers and tasks.                                   *)

Existing(js) == {j \in Jobs : js[j] # Null}

CallerTyped(q, js) ==
    /\ q.pc \in {"idle", "fill", "page", "match", "snapshot"}
    /\ q.pc = "idle" => q.job = Null
    /\ q.shown \subseteq Existing(js)

BoardTypes ==
    /\ \A j \in Jobs : jobs[j] # Null => jobs[j].status \in Board!Statuses
    /\ \A c \in Callers : CallerTyped(caller[c], jobs)
    /\ \A t \in jobTasks : t.shown \subseteq Existing(jobs)

\* No job is deleted; callers and tasks are new ones of their type, or those that were there.
LEMMA TypesGo ==
    ASSUME BoardTypes, Existing(jobs) \subseteq Existing(jobs'),
           \A j \in Jobs : jobs'[j] = jobs[j] \/ jobs'[j].status \in Board!Statuses,
           \A c \in Callers : caller'[c] = caller[c] \/ CallerTyped(caller'[c], jobs),
           \A t \in jobTasks' : t \in jobTasks \/ t.shown \subseteq Existing(jobs)
    PROVE  BoardTypes'
<1>1. \A j \in Jobs : jobs'[j] # Null => jobs'[j].status \in Board!Statuses
  BY DEF BoardTypes
<1>2. PICK js : js = jobs'
  OBVIOUS
<1>3. ASSUME NEW c \in Callers PROVE CallerTyped(caller'[c], js)
  <2>1. CallerTyped(caller'[c], jobs)
    BY DEF BoardTypes
  <2> QED
    BY <1>2, <2>1 DEF CallerTyped
<1>4. \A t \in jobTasks' : t.shown \subseteq Existing(jobs')
  BY DEF BoardTypes
<1>5. (\A j \in Jobs : jobs[j] # Null => jobs[j].status \in Board!Statuses)'
  BY <1>1
<1>6. (\A c \in Callers : CallerTyped(caller[c], jobs))'
  BY <1>2, <1>3
<1>7. (\A t \in jobTasks : t.shown \subseteq Existing(jobs))'
  BY <1>4
<1> QED
  BY <1>5, <1>6, <1>7 DEF BoardTypes

LEMMA RestTyped == ASSUME NEW js PROVE CallerTyped(Board!Rest, js)
<1>1. PICK q : q = Board!Rest
  OBVIOUS
<1>2. q.pc = "idle" /\ q.job = Null /\ q.shown = {}
  BY <1>1 DEF Board!Rest
<1>3. CallerTyped(q, js)
  BY <1>2 DEF CallerTyped
<1> QED
  BY <1>1, <1>3

\* The job of a row is never none.
LEMMA RowIsJob == ASSUME BoardAssumption, NEW row, IsRow(row) PROVE row # Null
BY DEF BoardAssumption, IsRow

LEMMA StatusKnown ==
    ASSUME BoardAssumption, NEW body \in NewJobs \cup Patches, NEW row, IsRow(row),
           row.status \in Board!Statuses
    PROVE  Board!Applied(row, body).status \in Board!Statuses
<1>1. Board!Applied(row, body).status
         = IF "status" \in DOMAIN body THEN body.status ELSE row.status
  BY DEF Board!Applied, Board!Stored, IsRow, Columns
<1> QED
  BY <1>1 DEF BoardAssumption

LEMMA BoardTypesInit == Board!Init => BoardTypes
<1> SUFFICES ASSUME Board!Init PROVE BoardTypes
  OBVIOUS
<1>1. \A c \in Callers : CallerTyped(caller[c], jobs)
  BY RestTyped DEF Board!Init
<1> QED
  BY <1>1 DEF Board!Init, BoardTypes

\* One job's row is written.
LEMMA RowTyped ==
    ASSUME BoardAssumption, BoardInv, BoardTypes, NEW j \in Jobs, NEW new, IsRow(new),
           new.status \in Board!Statuses, jobs' = [jobs EXCEPT ![j] = new],
           UNCHANGED <<caller, jobTasks>>
    PROVE  BoardTypes'
<1>1. DOMAIN jobs = Jobs
  BY InvParts DEF JobsOK
<1>2. Existing(jobs) \subseteq Existing(jobs')
  BY <1>1, RowIsJob DEF Existing
<1> QED
  BY <1>1, <1>2, TypesGo

LEMMA MarkTyped ==
    ASSUME BoardAssumption, BoardInv, BoardTypes, NEW c \in Callers, Board!MarkFilled(c)
    PROVE  BoardTypes'
<1>1. PICK q, j, old : q = caller[c] /\ j = q.job /\ old = jobs[j]
  OBVIOUS
<1>2. q.pc = "fill" /\ caller' = [caller EXCEPT ![c] = Board!Rest] /\ UNCHANGED jobTasks
  BY <1>1 DEF Board!MarkFilled, Board!Take
<1>3. j \in Jobs /\ DOMAIN old = Columns /\ DOMAIN jobs = Jobs /\ DOMAIN caller = Callers
  BY <1>1, <1>2, InvParts DEF CallersOK, StillHolds, IsRow, JobsOK
<1>4. PICK n : \/ jobs' = [jobs EXCEPT ![j].status = "FILLED", ![j].positionsFilled = n]
               \/ jobs' = [jobs EXCEPT ![j].status = "FILLED"]
  BY <1>1 DEF Board!MarkFilled
<1>5. PICK new : /\ new = [old EXCEPT !.status = "FILLED", !.positionsFilled = n]
                    \/ new = [old EXCEPT !.status = "FILLED"]
                 /\ jobs' = [jobs EXCEPT ![j] = new]
  BY <1>1, <1>3, <1>4
<1>6. DOMAIN new = Columns /\ new.status = "FILLED"
  BY <1>3, <1>5 DEF Columns
<1>7. new # Null
  BY <1>6 DEF BoardAssumption
<1>8. Existing(jobs) \subseteq Existing(jobs')
  BY <1>3, <1>5, <1>7 DEF Existing
<1>9. \A k \in Jobs : jobs'[k] = jobs[k] \/ jobs'[k].status \in Board!Statuses
  BY <1>3, <1>5, <1>6 DEF Board!Statuses
<1> QED
  BY <1>2, <1>3, <1>8, <1>9, RestTyped, TypesGo

\* What a caller reads next.
LEMMA CallerTypedNext ==
    ASSUME BoardInv, BoardTypes, NEW c \in Callers, NEW q, CallerTyped(q, jobs),
           caller' = [caller EXCEPT ![c] = q], UNCHANGED jobs,
           \A t \in jobTasks' : t \in jobTasks \/ t.shown \subseteq Existing(jobs)
    PROVE  BoardTypes'
<1>1. DOMAIN caller = Callers
  BY InvParts DEF CallersOK
<1> QED
  BY <1>1, TypesGo

LEMMA ReadsTyped ==
    ASSUME BoardInv, BoardTypes, NEW c \in Callers,
           Board!ReadForFilled(c) \/ Board!ReadJob(c) \/ Board!ReadCandidate(c)
    PROVE  BoardTypes'
<1>1. UNCHANGED <<jobs, jobTasks>>
  BY DEF Board!ReadForFilled, Board!ReadJob, Board!ReadCandidate
<1>2. PICK q : /\ caller' = [caller EXCEPT ![c] = q] /\ q.pc \in {"fill", "page", "match"}
               /\ q.shown = {}
  <2>1. CASE Board!ReadForFilled(c) \/ Board!ReadJob(c)
    <3>1. PICK j, pc : /\ pc \in {"fill", "page"}
                       /\ caller' = [caller EXCEPT ![c] =
                             [Board!Rest EXCEPT !.pc = pc, !.job = j, !.row = jobs[j]]]
      BY <2>1 DEF Board!ReadForFilled, Board!ReadJob, Board!Take
    <3>2. PICK q : q = [Board!Rest EXCEPT !.pc = pc, !.job = j, !.row = jobs[j]]
      OBVIOUS
    <3>3. q.pc = pc /\ q.shown = {}
      BY <3>2 DEF Board!Rest
    <3> QED
      BY <3>1, <3>2, <3>3
  <2>2. CASE Board!ReadCandidate(c)
    <3>1. PICK who, profile : caller' = [caller EXCEPT ![c] =
                                 [Board!Rest EXCEPT !.pc = "match", !.who = who, !.profile = profile]]
      BY <2>2 DEF Board!ReadCandidate, Board!Take
    <3>2. PICK q : q = [Board!Rest EXCEPT !.pc = "match", !.who = who, !.profile = profile]
      OBVIOUS
    <3>3. q.pc = "match" /\ q.shown = {}
      BY <3>2 DEF Board!Rest
    <3> QED
      BY <3>1, <3>2, <3>3
  <2> QED
    BY <2>1, <2>2
<1>3. CallerTyped(q, jobs)
  BY <1>2 DEF CallerTyped
<1> QED
  BY <1>1, <1>2, <1>3, CallerTypedNext

LEMMA MatchTyped ==
    ASSUME BoardInv, BoardTypes, NEW c \in Callers, Board!matchJobsForCandidate(c)
    PROVE  BoardTypes'
<1>1. UNCHANGED <<jobs, jobTasks>>
  BY DEF Board!matchJobsForCandidate
<1>2. PICK p : p = caller[c] /\ DOMAIN p = CallerFields /\ CallerTyped(p, jobs)
  BY InvParts DEF CallersOK, BoardTypes
<1>3. PICK q : /\ caller' = [caller EXCEPT ![c] = q] /\ q.pc = "snapshot"
               /\ q.shown = p.shown \/ q.shown \subseteq Existing(jobs)
  <2>1. CASE Board!Take(c, "match", [p EXCEPT !.pc = "snapshot"])
    <3>1. PICK q : q = [p EXCEPT !.pc = "snapshot"]
      OBVIOUS
    <3>2. q.pc = "snapshot" /\ q.shown = p.shown
      BY <1>2, <3>1 DEF CallerFields
    <3> QED
      BY <2>1, <3>1, <3>2 DEF Board!Take
  <2>2. CASE ~ Board!Take(c, "match", [p EXCEPT !.pc = "snapshot"])
    <3>1. PICK best, first : /\ best \subseteq Board!Matching(p.profile)
                             /\ Board!Take(c, "match", [p EXCEPT !.pc = "snapshot", !.shown = best, !.job = first,
                                                                 !.row = jobs[first]])
      BY <1>2, <2>2 DEF Board!matchJobsForCandidate
    <3>2. PICK q : q = [p EXCEPT !.pc = "snapshot", !.shown = best, !.job = first, !.row = jobs[first]]
      OBVIOUS
    <3>3. q.pc = "snapshot" /\ q.shown = best
      BY <1>2, <3>2 DEF CallerFields
    <3>4. best \subseteq Existing(jobs)
      BY <3>1 DEF Board!Matching, Board!Exists, Existing
    <3> QED
      BY <3>1, <3>2, <3>3, <3>4 DEF Board!Take
  <2> QED
    BY <2>1, <2>2
<1>4. CallerTyped(q, jobs)
  BY <1>2, <1>3 DEF CallerTyped
<1> QED
  BY <1>1, <1>3, <1>4, CallerTypedNext

LEMMA TaskTyped ==
    ASSUME BoardInv, BoardTypes, NEW c \in Callers, Board!CreateTask(c)
    PROVE  BoardTypes'
<1>1. PICK q : q = caller[c] /\ CallerTyped(q, jobs)
  BY DEF BoardTypes
<1>2. PICK told : jobTasks' = jobTasks \cup {Board!Task(q, told)}
  BY <1>1 DEF Board!CreateTask
<1>3. Board!Task(q, told).shown = q.shown
  BY DEF Board!Task
<1>4. caller' = [caller EXCEPT ![c] = Board!Rest] /\ UNCHANGED jobs
  BY DEF Board!CreateTask, Board!Take
<1>5. \A t \in jobTasks' : t \in jobTasks \/ t.shown \subseteq Existing(jobs)
  BY <1>1, <1>2, <1>3 DEF CallerTyped
<1> QED
  BY <1>4, <1>5, RestTyped, CallerTypedNext

LEMMA FailsTyped ==
    ASSUME BoardInv, BoardTypes, NEW c \in Callers, Board!Fails(c)
    PROVE  BoardTypes'
<1>1. PICK q : q = caller[c] /\ DOMAIN q = CallerFields /\ CallerTyped(q, jobs)
  BY InvParts DEF CallersOK, BoardTypes
<1>2. UNCHANGED jobs
  BY DEF Board!Fails
<1>3. PICK p : p = [q EXCEPT !.pc = "snapshot"]
  OBVIOUS
<1>4. CallerTyped(p, jobs)
  BY <1>1, <1>3 DEF CallerTyped, CallerFields
<1>5. \/ (caller' = [caller EXCEPT ![c] = Board!Rest] \/ caller' = [caller EXCEPT ![c] = p]) /\ UNCHANGED jobTasks
      \/ caller' = [caller EXCEPT ![c] = Board!Rest] /\ jobTasks' = jobTasks \cup {Board!Task(q, Null)}
  BY <1>1, <1>3 DEF Board!Fails, Board!Take
<1>6. Board!Task(q, Null).shown = q.shown
  BY DEF Board!Task
<1>7. \A t \in jobTasks' : t \in jobTasks \/ t.shown \subseteq Existing(jobs)
  BY <1>1, <1>5, <1>6 DEF CallerTyped
<1> QED
  BY <1>2, <1>4, <1>5, <1>7, RestTyped, CallerTypedNext

LEMMA BoardTypesNext ==
    BoardAssumption /\ BoardInv /\ BoardTypes /\ [Board!Next]_(Board!vars) => BoardTypes'
<1> SUFFICES ASSUME BoardAssumption, BoardInv, BoardTypes, [Board!Next]_(Board!vars) PROVE BoardTypes'
  OBVIOUS
<1>1. ASSUME NEW j \in Jobs, Board!CreateJob(j) PROVE BoardTypes'
  <2>1. PICK body \in NewJobs : jobs' = [jobs EXCEPT ![j] = Board!Applied(Board!Defaults, body)]
    BY <1>1 DEF Board!CreateJob
  <2>2. PICK new : new = Board!Applied(Board!Defaults, body)
    OBVIOUS
  <2>3. Board!Defaults.status \in Board!Statuses
    BY DEF Board!Defaults, Board!Statuses
  <2>4. IsRow(new) /\ new.status \in Board!Statuses
    BY <2>2, <2>3, AppliedIs, DefaultsAre, StatusKnown
  <2>5. UNCHANGED <<caller, jobTasks>>
    BY <1>1 DEF Board!CreateJob
  <2> QED
    BY <2>1, <2>2, <2>4, <2>5, RowTyped
<1>2. ASSUME NEW j \in Jobs, Board!PatchJob(j) PROVE BoardTypes'
  <2>1. PICK body \in Patches : jobs' = [jobs EXCEPT ![j] = Board!Applied(jobs[j], body)]
    BY <1>2 DEF Board!PatchJob
  <2>2. PICK new : new = Board!Applied(jobs[j], body)
    OBVIOUS
  <2>3. IsRow(jobs[j]) /\ jobs[j].status \in Board!Statuses
    BY <1>2, InvParts DEF Board!PatchJob, Board!Exists, JobsOK, BoardTypes
  <2>4. IsRow(new) /\ new.status \in Board!Statuses
    BY <2>2, <2>3, AppliedIs, StatusKnown
  <2>5. UNCHANGED <<caller, jobTasks>>
    BY <1>2 DEF Board!PatchJob
  <2> QED
    BY <2>1, <2>2, <2>4, <2>5, RowTyped
<1>3. ASSUME NEW c \in Callers, Board!RankCandidates(c) PROVE BoardTypes'
  <2>1. caller' = [caller EXCEPT ![c] = Board!Rest] /\ UNCHANGED <<jobs, jobTasks>>
    BY <1>3 DEF Board!RankCandidates, Board!Take
  <2> QED
    BY <2>1, RestTyped, CallerTypedNext
<1>4. CASE (\E k \in Candidates : Board!Learn(k)) \/ Board!Day \/ UNCHANGED Board!vars
  <2>1. UNCHANGED <<jobs, caller, jobTasks>>
    BY <1>4 DEF Board!Learn, Board!Day, Board!vars
  <2> QED
    BY <2>1, TypesGo
<1> QED
  BY <1>1, <1>2, <1>3, <1>4, MarkTyped, ReadsTyped, MatchTyped, TaskTyped, FailsTyped DEF Board!Next

LEMMA BoardTyped == BoardAssumption /\ BoardInv /\ BoardTypes => Board!TypeOK
<1> SUFFICES ASSUME BoardAssumption, BoardInv, BoardTypes PROVE Board!TypeOK
  OBVIOUS
<1>1. ASSUME NEW c \in Callers, caller[c].job # Null PROVE jobs[caller[c].job] # Null
  <2>1. caller[c].pc \in {"fill", "page", "snapshot"}
    BY <1>1, InvParts DEF CallersOK, StillHolds, BoardTypes, CallerTyped
  <2>2. IsRow(jobs[caller[c].job])
    BY <1>1, <2>1, InvParts DEF CallersOK, StillHolds
  <2> QED
    BY <2>2, RowIsJob
<1>2. \A c \in Callers : caller[c].pc \in {"idle", "fill", "page", "match", "snapshot"}
  BY DEF BoardTypes, CallerTyped
<1> QED
  BY <1>1, <1>2 DEF BoardTypes, Board!TypeOK, Board!Exists, Existing

-----------------------------------------------------------------------------
(* Earnings: what the dashboard tells of the brackets.                     *)

LEMMA LeastNatural ==
    ASSUME NEW S \in SUBSET Nat, S # {}
    PROVE  \E n \in S : \A m \in S : n <= m
<1> DEFINE R == OpToRel(<, Nat)
<1>1. IsWellFoundedOn(R, Nat)
  BY NatLessThanWellFounded, Zenon
<1>2. R = {ss \in Nat \X Nat : ss[1] < ss[2]}
  BY Zenon DEF OpToRel
<1> HIDE DEF R
<1>3. PICK n \in S : \A m \in S : <<m, n>> \notin R
  BY <1>1, WFMin
<1>4. \A m \in S : ~ (m < n)
  BY <1>2, <1>3
<1> QED
  BY <1>4

\* The brackets that passed the checks.
Checked(all) == all \in Seq(Earned!Bracket) /\ Earned!Valid(all)

\* Of any two of them the first one ends where the other one starts, or before: the checks
\* compare neighbours only.
LEMMA BracketsApart ==
    ASSUME NEW all, Checked(all), Null \notin Int, NEW i \in DOMAIN all, NEW k \in DOMAIN all, i < k
    PROVE  all[i].max # Null /\ all[i].max <= all[k].min
<1> DEFINE Apart(n) == all[i].max # Null /\ all[i].max <= all[n].min
           S == {n \in DOMAIN all : n > i /\ ~ Apart(n)}
<1>1. DOMAIN all \subseteq Nat
  BY DEF Checked
<1>2. ASSUME S # {} PROVE FALSE
  <2>1. PICK n \in S : \A m \in S : n <= m
    BY <1>1, <1>2, LeastNatural
  <2>2. /\ n \in DOMAIN all /\ n - 1 \in DOMAIN all /\ n \in Nat /\ i \in Nat
        /\ n > i /\ n > 1 /\ n - 1 >= i
    BY <2>1 DEF Checked
  <2>3. /\ all[n - 1].max # Null /\ all[n - 1].min <= all[n].min /\ all[n - 1].max <= all[n].min
    BY <2>2 DEF Checked, Earned!Valid, Earned!Follows
  <2>4. all[i] \in Earned!Bracket /\ all[n - 1] \in Earned!Bracket /\ all[n] \in Earned!Bracket
    BY <2>2 DEF Checked
  <2>5. CASE n - 1 = i
    BY <2>1, <2>3, <2>5
  <2>6. CASE n - 1 > i
    <3>1. Apart(n - 1)
      BY <2>1, <2>2, <2>6
    <3>2. /\ all[i].max \in Int /\ all[n - 1].min \in Int /\ all[n].min \in Int
      BY <2>4, <3>1 DEF Earned!Bracket
    <3>3. Apart(n)
      BY <2>3, <3>1, <3>2
    <3> QED
      BY <2>1, <3>3
  <2> QED
    BY <2>2, <2>5, <2>6
<1> QED
  BY <1>2

LEMMA BracketIs ==
    ASSUME NEW all, Checked(all), NEW i \in DOMAIN all
    PROVE  /\ all[i].min \in Nat /\ all[i].max \in Nat \cup {Null}
           /\ all[i].max # Null => all[i].max > all[i].min
BY DEF Checked, Earned!Valid, Earned!WellFormed, Earned!Bracket

\* A bracket that contains the amount is the one that the search finds.
LEMMA CoverIsCurrent ==
    ASSUME NEW all, Checked(all), Null \notin Int, NEW amount \in Int, NEW i \in DOMAIN all,
           Earned!Covers(all[i], amount)
    PROVE  Earned!Current(amount, all) = {i}
<1>1. all[i].min <= amount /\ (all[i].max # Null => amount < all[i].max)
  BY DEF Earned!Covers
<1>2. ASSUME NEW j \in DOMAIN all, j < i PROVE all[j].min <= amount /\ ~ Earned!Covers(all[j], amount)
  <2>1. all[j].max # Null /\ all[j].max <= all[i].min
    BY <1>2, BracketsApart
  <2>2. all[j].min \in Int /\ all[j].max \in Int /\ all[j].max > all[j].min /\ all[i].min \in Int
    BY <1>2, <2>1, BracketIs
  <2> QED
    BY <1>1, <2>1, <2>2 DEF Earned!Covers
<1>3. DOMAIN all = 1..Len(all) /\ Len(all) \in Nat
  BY DEF Checked
<1>4. Earned!IsCurrent(i, amount, all)
  BY <1>2, <1>3 DEF Earned!IsCurrent
<1>5. ASSUME NEW k \in DOMAIN all, Earned!IsCurrent(k, amount, all) PROVE k = i
  <2>1. ~ (k < i)
    BY <1>2, <1>5 DEF Earned!IsCurrent
  <2>2. ~ (i < k)
    BY <1>3, <1>5 DEF Earned!IsCurrent
  <2> QED
    BY <1>3, <2>1, <2>2
<1> QED
  BY <1>4, <1>5 DEF Earned!Current

\* Who is in a bracket is shown its rate.
LEMMA RateOf ==
    ASSUME NEW all, Checked(all), Null \notin Int, NEW amount \in Int, NEW i \in DOMAIN all,
           Earned!Covers(all[i], amount)
    PROVE  Earned!computeEarningsSummary(amount, all).rate = all[i].rate
<1>1. Earned!Current(amount, all) = {i}
  BY CoverIsCurrent
<1>2. (CHOOSE n \in {i} : TRUE) = i
  OBVIOUS
<1>3. PICK next : Earned!computeEarningsSummary(amount, all) = Earned!Summary(amount, all, all[i], next)
  BY <1>1, <1>2 DEF Earned!computeEarningsSummary
<1> QED
  BY <1>3 DEF Earned!Summary

\* What a summary tells: see RateOfRevenue and PromiseKept.
Told(s) ==
    /\ \A i \in DOMAIN s.brackets : Earned!Covers(s.brackets[i], s.revenue) => s.rate = s.brackets[i].rate
    /\ s.nextRate # Null /\ s.amountToNext > 0 =>
          Earned!computeEarningsSummary(s.revenue + s.amountToNext, s.brackets).rate = s.nextRate

LEMMA SummaryTold ==
    ASSUME NEW all, Checked(all), Null \notin Int, NEW amount \in Int
    PROVE  Told(Earned!computeEarningsSummary(amount, all))
<1>1. PICK s : s = Earned!computeEarningsSummary(amount, all)
  OBVIOUS
<1>2. PICK b, next : /\ s = Earned!Summary(amount, all, b, next)
                     /\ next = Null \/ \E n \in DOMAIN all : next = all[n]
  <2>1. CASE Earned!Current(amount, all) = {}
    <3>1. s = Earned!Summary(amount, all, all[1], IF Len(all) > 1 THEN all[2] ELSE Null)
      BY <1>1, <2>1 DEF Earned!computeEarningsSummary
    <3>2. Len(all) > 1 => 2 \in DOMAIN all
      BY DEF Checked
    <3> QED
      BY <3>1, <3>2
  <2>2. CASE Earned!Current(amount, all) # {}
    <3> DEFINE b == all[CHOOSE i \in Earned!Current(amount, all) : TRUE]
               above == Earned!NextOf(b, all)
    <3>1. s = Earned!Summary(amount, all, b, IF above = {} THEN Null ELSE all[CHOOSE i \in above : TRUE])
      BY <1>1, <2>2, Zenon DEF Earned!computeEarningsSummary
    <3>2. above \subseteq DOMAIN all
      BY DEF Earned!NextOf
    <3> HIDE DEF b, above
    <3>3. above # {} => (CHOOSE i \in above : TRUE) \in above
      OBVIOUS
    <3> QED
      BY <3>1, <3>2, <3>3
  <2> QED
    BY <2>1, <2>2
<1>3. /\ s.revenue = amount /\ s.brackets = all
      /\ s.nextRate = (IF next = Null THEN Null ELSE next.rate)
      /\ s.amountToNext = (IF next = Null THEN Null ELSE Earned!AmountTo(next, amount))
  BY <1>2 DEF Earned!Summary
<1>4. ASSUME NEW i \in DOMAIN s.brackets, Earned!Covers(s.brackets[i], s.revenue)
      PROVE  s.rate = s.brackets[i].rate
  BY <1>1, <1>3, <1>4, RateOf
<1>5. ASSUME s.nextRate # Null, s.amountToNext > 0
      PROVE  Earned!computeEarningsSummary(s.revenue + s.amountToNext, s.brackets).rate = s.nextRate
  <2>1. PICK n \in DOMAIN all : next = all[n] /\ next # Null
    BY <1>2, <1>3, <1>5
  <2>2. /\ all[n].min \in Nat /\ all[n].max \in Nat \cup {Null}
        /\ all[n].max # Null => all[n].max > all[n].min
    BY BracketIs
  <2>3. s.amountToNext = all[n].min - amount
    BY <1>3, <1>5, <2>1, <2>2 DEF Earned!AmountTo
  <2>4. s.revenue + s.amountToNext = all[n].min
    BY <1>3, <2>2, <2>3
  <2>5. Earned!Covers(all[n], all[n].min)
    BY <2>2 DEF Earned!Covers
  <2>6. Earned!computeEarningsSummary(all[n].min, all).rate = all[n].rate
    BY <2>2, <2>5, RateOf
  <2> QED
    BY <1>3, <2>1, <2>4, <2>6
<1> QED
  BY <1>1, <1>4, <1>5 DEF Told

-----------------------------------------------------------------------------
(* The form of the earnings, and what is stored.                           *)

FormFields == {"load", "save", "brackets", "base", "revenue", "month", "post", "typed", "latest"}

PostFields == {"base", "brackets", "revenue", "month"}

\* Brackets as they are typed, that need not pass the checks.
IsList(all) == all \in Seq(Earned!Bracket) /\ all # << >>

\* A request that stores what the fields had when it was sent.
PostOK(p) == DOMAIN p = PostFields /\ Checked(p.brackets) /\ p.revenue \in Nat

FormOK(q) ==
    /\ DOMAIN q = FormFields
    /\ q.load \in {"closed", "settings", "month", "done"}
    /\ q.save \in {"no", "settings", "month"}
    /\ IsList(q.brackets) /\ q.revenue \in Nat
    /\ q.load = "month" => q.month \in Months
    /\ q.save # "no" => PostOK(q.post)

\* A form that loaded row, and was not typed in, shows it.
Shows(q, row) ==
    q.latest = TRUE /\ q.typed # TRUE =>
        row # Null /\ q.brackets = row.brackets /\ q.base = row.base

StoredOK == settings # Null => Checked(settings.brackets)

ReaderOK == reader # Null => Checked(reader.brackets)

RevenueOK == /\ month \in Months /\ DOMAIN revenue = Months
             /\ \A m \in Months : revenue[m] # Null => revenue[m] \in Nat

FormsOK == /\ DOMAIN form = Forms
           /\ \A f \in Forms : FormOK(form[f]) /\ Shows(form[f], settings)

ShownOK == shown # Null => Told(shown)

EarnedInv == StoredOK /\ ReaderOK /\ RevenueOK /\ FormsOK /\ ShownOK

LEMMA AppendList ==
    ASSUME NEW all, IsList(all), NEW b \in Earned!Bracket
    PROVE  IsList(Append(all, b))
BY AppendProperties DEF IsList

LEMMA ReplaceInList ==
    ASSUME NEW all, IsList(all), NEW i \in DOMAIN all, NEW b \in Earned!Bracket
    PROVE  IsList([all EXCEPT ![i] = b])
<1>1. all \in Seq(Earned!Bracket) /\ i \in 1..Len(all) /\ Len(all) # 0
  BY LenProperties DEF IsList
<1>2. [all EXCEPT ![i] = b] \in Seq(Earned!Bracket) /\ Len([all EXCEPT ![i] = b]) = Len(all)
  BY <1>1, ExceptSeq
<1>3. [all EXCEPT ![i] = b] # << >>
  BY <1>1, <1>2, EmptySeq
<1> QED
  BY <1>2, <1>3 DEF IsList

LEMMA RemoveFromList ==
    ASSUME NEW all, IsList(all), Len(all) > 1, NEW i \in DOMAIN all
    PROVE  IsList(Earned!RemoveAt(all, i))
<1>1. all \in Seq(Earned!Bracket) /\ i \in 1..Len(all) /\ Len(all) \in Nat
  BY LenProperties DEF IsList
<1>2. \A k \in 1..Len(all) : all[k] \in Earned!Bracket
  BY <1>1, ElementOfSeq
<1>3. PICK s, t : s = SubSeq(all, 1, i - 1) /\ t = SubSeq(all, i + 1, Len(all))
  OBVIOUS
<1>4. s \in Seq(Earned!Bracket) /\ Len(s) = i - 1
  <2>1. /\ SubSeq(all, 1, i - 1) \in Seq(Earned!Bracket)
        /\ Len(SubSeq(all, 1, i - 1)) = IF 1 <= i - 1 THEN (i - 1) - 1 + 1 ELSE 0
    BY <1>1, <1>2, SubSeqProperties
  <2> QED
    BY <1>1, <1>3, <2>1
<1>5. t \in Seq(Earned!Bracket) /\ Len(t) = Len(all) - i
  <2>1. /\ SubSeq(all, i + 1, Len(all)) \in Seq(Earned!Bracket)
        /\ Len(SubSeq(all, i + 1, Len(all))) = IF i + 1 <= Len(all) THEN Len(all) - (i + 1) + 1 ELSE 0
    BY <1>1, <1>2, SubSeqProperties
  <2> QED
    BY <1>1, <1>3, <2>1
<1>6. s \o t \in Seq(Earned!Bracket) /\ Len(s \o t) = Len(s) + Len(t)
  BY <1>4, <1>5, ConcatProperties
<1>7. Len(s \o t) # 0
  BY <1>1, <1>4, <1>5, <1>6
<1>8. s \o t # << >>
  BY <1>7, EmptySeq
<1> QED
  BY <1>3, <1>6, <1>8 DEF IsList, Earned!RemoveAt

LEMMA NewFormIs ==
    ASSUME Earned!EarningsAssumption, NEW row
    PROVE  /\ FormOK(Earned!NewForm) /\ Shows(Earned!NewForm, row)
           /\ FormOK(Earned!Closed) /\ Shows(Earned!Closed, row)
<1>1. PICK b : b = [min |-> 0, max |-> Null, rate |-> 5]
  OBVIOUS
<1>2. b \in Earned!Bracket
  BY <1>1 DEF Earned!Bracket
<1>3. IsList(<<b>>)
  BY <1>2 DEF IsList
<1>4. PICK q, p : q = Earned!NewForm /\ p = Earned!Closed
  OBVIOUS
<1>5. /\ DOMAIN q = FormFields /\ q.load = "settings" /\ q.save = "no" /\ q.brackets = <<b>>
      /\ q.revenue = 0 /\ q.latest = FALSE
  BY <1>1, <1>4 DEF Earned!NewForm, FormFields
<1>6. p = [q EXCEPT !.load = "closed"]
  BY <1>4 DEF Earned!Closed
<1>7. /\ DOMAIN p = FormFields /\ p.load = "closed" /\ p.save = "no" /\ p.brackets = <<b>>
      /\ p.revenue = 0 /\ p.latest = FALSE
  BY <1>5, <1>6 DEF FormFields
<1>8. FormOK(q) /\ FormOK(p)
  BY <1>3, <1>5, <1>7 DEF FormOK
<1>9. Shows(q, row) /\ Shows(p, row)
  BY <1>5, <1>7 DEF Shows
<1> QED
  BY <1>4, <1>8, <1>9

LEMMA EarnedInit == Earned!EarningsAssumption /\ Earned!Init => EarnedInv
<1> SUFFICES ASSUME Earned!EarningsAssumption, Earned!Init PROVE EarnedInv
  OBVIOUS
<1>1. StoredOK /\ ReaderOK /\ ShownOK
  BY DEF Earned!Init, StoredOK, ReaderOK, ShownOK
<1>2. RevenueOK
  BY DEF Earned!Init, RevenueOK, Earned!EarningsAssumption
<1>3. FormsOK
  BY NewFormIs DEF Earned!Init, FormsOK
<1> QED
  BY <1>1, <1>2, <1>3 DEF EarnedInv

\* One form goes on, and nothing is stored or shown.
LEMMA FormGoes ==
    ASSUME EarnedInv, NEW f \in Forms, NEW q, FormOK(q), Shows(q, settings),
           form' = [form EXCEPT ![f] = q], UNCHANGED <<settings, revenue, month, reader, shown>>
    PROVE  EarnedInv'
<1>1. StoredOK' /\ ReaderOK' /\ ShownOK' /\ RevenueOK'
  BY DEF EarnedInv, StoredOK, ReaderOK, ShownOK, RevenueOK
<1>2. DOMAIN form' = Forms
  BY DEF EarnedInv, FormsOK
<1>3. ASSUME NEW g \in Forms PROVE FormOK(form'[g]) /\ Shows(form'[g], settings)
  BY <1>3 DEF EarnedInv, FormsOK
<1>4. FormsOK'
  BY <1>2, <1>3 DEF FormsOK
<1> QED
  BY <1>1, <1>4 DEF EarnedInv

\* What a form shows of the stored row has not been touched.
LEMMA StillShows ==
    ASSUME NEW q, NEW p, NEW row, Shows(q, row), p.brackets = q.brackets, p.base = q.base,
           p.latest = q.latest, p.typed = q.typed
    PROVE  Shows(p, row)
BY DEF Shows

LEMMA OpenSafe ==
    ASSUME Earned!EarningsAssumption, EarnedInv, NEW f \in Forms, Earned!OpenForm(f) \/ Earned!CloseForm(f)
    PROVE  EarnedInv'
<1>1. PICK q : /\ form' = [form EXCEPT ![f] = q] /\ FormOK(q) /\ Shows(q, settings)
  <2>1. CASE Earned!OpenForm(f)
    BY <2>1, NewFormIs DEF Earned!OpenForm
  <2>2. CASE Earned!CloseForm(f)
    BY <2>2, NewFormIs DEF Earned!CloseForm
  <2> QED
    BY <2>1, <2>2
<1>2. UNCHANGED <<settings, revenue, month, reader, shown>>
  BY DEF Earned!OpenForm, Earned!CloseForm
<1> QED
  BY <1>1, <1>2, FormGoes

\* A form that has loaded the row shows it: a base pay which is not stored was there only
\* if somebody typed it.
LEMMA LoadedIs ==
    ASSUME NEW q, FormOK(q), NEW row, row # Null, Checked(row.brackets)
    PROVE  /\ FormOK(Earned!Loaded(q, row)) /\ Shows(Earned!Loaded(q, row), row)
<1>1. PICK base, typed : /\ base = IF row.base = Null THEN q.base ELSE row.base
                         /\ typed = (row.base = Null /\ q.base # Null)
  OBVIOUS
<1>2. PICK p : p = [q EXCEPT !.brackets = row.brackets, !.base = base, !.typed = typed, !.latest = TRUE]
  OBVIOUS
<1>3. p = Earned!Loaded(q, row)
  BY <1>1, <1>2 DEF Earned!Loaded
<1>4. /\ DOMAIN p = FormFields /\ p.load = q.load /\ p.save = q.save /\ p.brackets = row.brackets
      /\ p.base = base /\ p.typed = typed /\ p.revenue = q.revenue /\ p.month = q.month /\ p.post = q.post
  BY <1>2 DEF FormOK, FormFields
<1>5. IsList(row.brackets)
  BY DEF Checked, IsList, Earned!Valid
<1>6. FormOK(p)
  BY <1>4, <1>5 DEF FormOK
<1>7. Shows(p, row)
  BY <1>1, <1>4 DEF Shows
<1> QED
  BY <1>3, <1>6, <1>7

LEMMA LoadSafe ==
    ASSUME Earned!EarningsAssumption, EarnedInv, NEW f \in Forms, Earned!LoadSettings(f)
    PROVE  EarnedInv'
<1>1. PICK q : q = form[f] /\ FormOK(q) /\ Shows(q, settings)
  BY DEF EarnedInv, FormsOK
<1>2. PICK p : p = IF settings = Null THEN q ELSE Earned!Loaded(q, settings)
  OBVIOUS
<1>3. FormOK(p) /\ Shows(p, settings)
  BY <1>1, <1>2, LoadedIs DEF EarnedInv, StoredOK
<1>4. PICK r : r = [p EXCEPT !.load = "month", !.month = month]
  OBVIOUS
<1>5. /\ DOMAIN r = FormFields /\ r.load = "month" /\ r.month = month /\ r.save = p.save
      /\ r.brackets = p.brackets /\ r.base = p.base /\ r.revenue = p.revenue /\ r.post = p.post
  BY <1>3, <1>4 DEF FormOK, FormFields
<1>6. r.latest = p.latest /\ r.typed = p.typed
  BY <1>3, <1>4 DEF FormOK, FormFields
<1>7. FormOK(r)
  BY <1>3, <1>5 DEF FormOK, EarnedInv, RevenueOK
<1>8. Shows(r, settings)
  BY <1>3, <1>5, <1>6, StillShows
<1>9. form' = [form EXCEPT ![f] = r] /\ UNCHANGED <<settings, revenue, month, reader, shown>>
  BY <1>1, <1>2, <1>4 DEF Earned!LoadSettings, EarnedInv, FormsOK
<1> QED
  BY <1>7, <1>8, <1>9, FormGoes

\* The second load, and one that fails: the brackets and the base pay stay as they are.
LEMMA LoadMonthSafe ==
    ASSUME Earned!EarningsAssumption, EarnedInv, NEW f \in Forms, Earned!LoadMonth(f) \/ Earned!LoadFails(f)
    PROVE  EarnedInv'
<1>1. PICK q : q = form[f] /\ FormOK(q) /\ Shows(q, settings)
  BY DEF EarnedInv, FormsOK
<1>2. PICK load, n, m : /\ form' = [form EXCEPT ![f] = [q EXCEPT !.load = load, !.revenue = n, !.month = m]]
                        /\ n \in Nat
                        /\ load = "done" \/ (load = "month" /\ m = month)
  <2>1. CASE Earned!LoadMonth(f)
    <3>1. PICK n : n = IF revenue[q.month] = Null THEN q.revenue ELSE revenue[q.month]
      OBVIOUS
    <3>2. q.month \in Months
      BY <1>1, <2>1 DEF Earned!LoadMonth, FormOK
    <3>3. n \in Nat
      BY <1>1, <3>1, <3>2 DEF EarnedInv, RevenueOK, FormOK
    <3>4. form' = [form EXCEPT ![f] = [q EXCEPT !.load = "done", !.revenue = n]]
      BY <1>1, <2>1, <3>1 DEF Earned!LoadMonth, EarnedInv, FormsOK
    <3>5. [q EXCEPT !.load = "done", !.revenue = n]
            = [q EXCEPT !.load = "done", !.revenue = n, !.month = q.month]
      BY <1>1 DEF FormOK, FormFields
    <3> QED
      BY <3>3, <3>4, <3>5
  <2>2. CASE Earned!LoadFails(f)
    <3>1. \/ form' = [form EXCEPT ![f] = [q EXCEPT !.load = "month", !.month = month]]
          \/ form' = [form EXCEPT ![f] = [q EXCEPT !.load = "done"]]
      BY <1>1, <2>2 DEF Earned!LoadFails, EarnedInv, FormsOK
    <3>2. /\ [q EXCEPT !.load = "month", !.month = month]
               = [q EXCEPT !.load = "month", !.revenue = q.revenue, !.month = month]
          /\ [q EXCEPT !.load = "done"] = [q EXCEPT !.load = "done", !.revenue = q.revenue, !.month = q.month]
      BY <1>1 DEF FormOK, FormFields
    <3>3. q.revenue \in Nat
      BY <1>1 DEF FormOK
    <3>4. CASE form' = [form EXCEPT ![f] = [q EXCEPT !.load = "month", !.month = month]]
      <4>1. form' = [form EXCEPT ![f] = [q EXCEPT !.load = "month", !.revenue = q.revenue, !.month = month]]
        BY <3>2, <3>4
      <4> QED
        BY <3>3, <4>1
    <3>5. CASE form' = [form EXCEPT ![f] = [q EXCEPT !.load = "done"]]
      <4>1. form' = [form EXCEPT ![f] = [q EXCEPT !.load = "done", !.revenue = q.revenue, !.month = q.month]]
        BY <3>2, <3>5
      <4> QED
        BY <3>3, <4>1
    <3> QED
      BY <3>1, <3>4, <3>5
  <2> QED
    BY <2>1, <2>2
<1>3. PICK r : r = [q EXCEPT !.load = load, !.revenue = n, !.month = m]
  OBVIOUS
<1>4. /\ DOMAIN r = FormFields /\ r.load = load /\ r.revenue = n /\ r.month = m /\ r.save = q.save
      /\ r.brackets = q.brackets /\ r.base = q.base /\ r.post = q.post
  BY <1>1, <1>3 DEF FormOK, FormFields
<1>5. r.latest = q.latest /\ r.typed = q.typed
  BY <1>1, <1>3 DEF FormOK, FormFields
<1>6. FormOK(r)
  BY <1>1, <1>2, <1>4 DEF FormOK, EarnedInv, RevenueOK
<1>7. Shows(r, settings)
  BY <1>1, <1>4, <1>5, StillShows
<1>8. UNCHANGED <<settings, revenue, month, reader, shown>>
  BY DEF Earned!LoadMonth, Earned!LoadFails
<1> QED
  BY <1>2, <1>3, <1>6, <1>7, <1>8, FormGoes

LEMMA TypesSafe ==
    ASSUME EarnedInv, NEW f \in Forms, NEW all, IsList(all), Earned!Types(f, all)
    PROVE  EarnedInv'
<1>1. PICK q : q = form[f] /\ FormOK(q)
  BY DEF EarnedInv, FormsOK
<1>2. PICK r : r = [q EXCEPT !.brackets = all, !.typed = TRUE]
  OBVIOUS
<1>3. /\ DOMAIN r = FormFields /\ r.load = q.load /\ r.revenue = q.revenue /\ r.month = q.month
      /\ r.save = q.save /\ r.brackets = all /\ r.post = q.post
  BY <1>1, <1>2 DEF FormOK, FormFields
<1>4. r.typed = TRUE
  BY <1>1, <1>2 DEF FormOK, FormFields
<1>5. FormOK(r)
  BY <1>1, <1>3 DEF FormOK
<1>6. Shows(r, settings)
  BY <1>4 DEF Shows
<1>7. form' = [form EXCEPT ![f] = r] /\ UNCHANGED <<settings, revenue, month, reader, shown>>
  BY <1>1, <1>2 DEF Earned!Types, EarnedInv, FormsOK
<1> QED
  BY <1>5, <1>6, <1>7, FormGoes

LEMMA ChangesSafe ==
    ASSUME Earned!EarningsAssumption, EarnedInv, NEW f \in Forms,
           Earned!AddBracket(f) \/ Earned!RemoveBracket(f) \/ Earned!ChangeBracket(f)
    PROVE  EarnedInv'
<1>1. PICK all : all = form[f].brackets /\ IsList(all)
  BY DEF EarnedInv, FormsOK, FormOK
<1>2. all \in Seq(Earned!Bracket) /\ Len(all) \in Nat \ {0} /\ DOMAIN all = 1..Len(all)
  BY <1>1, EmptySeq, LenProperties DEF IsList
<1>3. \A i \in DOMAIN all : all[i] \in Earned!Bracket
  BY <1>2, ElementOfSeq
<1>4. Amounts \subseteq Nat /\ Rates \subseteq 0..100 /\ Step \in Nat
  BY DEF Earned!EarningsAssumption
<1>5. CASE Earned!AddBracket(f)
  <2>1. PICK end : end = all[Len(all)] /\ end \in Earned!Bracket
    BY <1>2, <1>3
  <2>2. PICK b : b = [min |-> IF end.max # Null THEN end.max ELSE end.min + Step,
                      max |-> Null, rate |-> end.rate]
    OBVIOUS
  <2>3. Earned!Types(f, Append(all, b))
    BY <1>1, <1>5, <2>1, <2>2 DEF Earned!AddBracket, Earned!Last
  <2>4. b \in Earned!Bracket
    BY <1>4, <2>1, <2>2 DEF Earned!Bracket
  <2> QED
    BY <1>1, <2>3, <2>4, AppendList, TypesSafe
<1>6. CASE Earned!RemoveBracket(f)
  <2>1. PICK i \in DOMAIN all : Len(all) > 1 /\ Earned!Types(f, Earned!RemoveAt(all, i))
    BY <1>1, <1>6 DEF Earned!RemoveBracket
  <2> QED
    BY <1>1, <2>1, RemoveFromList, TypesSafe
<1>7. CASE Earned!ChangeBracket(f)
  <2>1. PICK i \in DOMAIN all : \/ \E n \in Amounts : Earned!Types(f, [all EXCEPT ![i].min = n])
                               \/ \E n \in Amounts \cup {Null} : Earned!Types(f, [all EXCEPT ![i].max = n])
                               \/ \E r \in Rates : Earned!Types(f, [all EXCEPT ![i].rate = r])
    BY <1>1, <1>7 DEF Earned!ChangeBracket
  <2>2. all[i] \in Earned!Bracket
    BY <1>3
  <2>3. ASSUME NEW n \in Amounts, Earned!Types(f, [all EXCEPT ![i].min = n]) PROVE EarnedInv'
    <3>1. PICK b : b = [all[i] EXCEPT !.min = n]
      OBVIOUS
    <3>2. b \in Earned!Bracket
      BY <1>4, <2>2, <3>1 DEF Earned!Bracket
    <3>3. [all EXCEPT ![i].min = n] = [all EXCEPT ![i] = b]
      BY <3>1
    <3> QED
      BY <1>1, <2>3, <3>2, <3>3, ReplaceInList, TypesSafe
  <2>4. ASSUME NEW n \in Amounts \cup {Null}, Earned!Types(f, [all EXCEPT ![i].max = n]) PROVE EarnedInv'
    <3>1. PICK b : b = [all[i] EXCEPT !.max = n]
      OBVIOUS
    <3>2. b \in Earned!Bracket
      BY <1>4, <2>2, <3>1 DEF Earned!Bracket
    <3>3. [all EXCEPT ![i].max = n] = [all EXCEPT ![i] = b]
      BY <3>1
    <3> QED
      BY <1>1, <2>4, <3>2, <3>3, ReplaceInList, TypesSafe
  <2>5. ASSUME NEW n \in Rates, Earned!Types(f, [all EXCEPT ![i].rate = n]) PROVE EarnedInv'
    <3>1. PICK b : b = [all[i] EXCEPT !.rate = n]
      OBVIOUS
    <3>2. b \in Earned!Bracket
      BY <1>4, <2>2, <3>1 DEF Earned!Bracket
    <3>3. [all EXCEPT ![i].rate = n] = [all EXCEPT ![i] = b]
      BY <3>1
    <3> QED
      BY <1>1, <2>5, <3>2, <3>3, ReplaceInList, TypesSafe
  <2> QED
    BY <2>1, <2>3, <2>4, <2>5
<1> QED
  BY <1>5, <1>6, <1>7

LEMMA AmountSafe ==
    ASSUME Earned!EarningsAssumption, EarnedInv, NEW f \in Forms, Earned!TypeAmount(f)
    PROVE  EarnedInv'
<1>1. PICK q : q = form[f] /\ FormOK(q) /\ Shows(q, settings)
  BY DEF EarnedInv, FormsOK
<1>2. PICK n \in Amounts : \/ form' = [form EXCEPT ![f].revenue = n]
                          \/ form' = [form EXCEPT ![f].base = IF n = 0 THEN Null ELSE n, ![f].typed = TRUE]
  BY DEF Earned!TypeAmount
<1>3. UNCHANGED <<settings, revenue, month, reader, shown>>
  BY DEF Earned!TypeAmount
<1>4. n \in Nat
  BY DEF Earned!EarningsAssumption
<1>5. CASE form' = [form EXCEPT ![f].revenue = n]
  <2>1. PICK r : r = [q EXCEPT !.revenue = n]
    OBVIOUS
  <2>2. /\ DOMAIN r = FormFields /\ r.load = q.load /\ r.revenue = n /\ r.month = q.month
        /\ r.save = q.save /\ r.brackets = q.brackets /\ r.post = q.post /\ r.base = q.base
    BY <1>1, <2>1 DEF FormOK, FormFields
  <2>3. r.latest = q.latest /\ r.typed = q.typed
    BY <1>1, <2>1 DEF FormOK, FormFields
  <2>4. FormOK(r)
    BY <1>1, <1>4, <2>2 DEF FormOK
  <2>5. Shows(r, settings)
    BY <1>1, <2>2, <2>3, StillShows
  <2>6. form' = [form EXCEPT ![f] = r]
    BY <1>1, <1>5, <2>1 DEF EarnedInv, FormsOK
  <2> QED
    BY <1>3, <2>4, <2>5, <2>6, FormGoes
<1>6. CASE form' = [form EXCEPT ![f].base = IF n = 0 THEN Null ELSE n, ![f].typed = TRUE]
  <2>1. PICK base : base = IF n = 0 THEN Null ELSE n
    OBVIOUS
  <2>2. PICK r : r = [q EXCEPT !.base = base, !.typed = TRUE]
    OBVIOUS
  <2>3. /\ DOMAIN r = FormFields /\ r.load = q.load /\ r.revenue = q.revenue /\ r.month = q.month
        /\ r.save = q.save /\ r.brackets = q.brackets /\ r.post = q.post
    BY <1>1, <2>2 DEF FormOK, FormFields
  <2>4. r.typed = TRUE
    BY <1>1, <2>2 DEF FormOK, FormFields
  <2>5. FormOK(r)
    BY <1>1, <2>3 DEF FormOK
  <2>6. Shows(r, settings)
    BY <2>4 DEF Shows
  <2>7. form' = [form EXCEPT ![f] = r]
    BY <1>1, <1>6, <2>1, <2>2 DEF EarnedInv, FormsOK
  <2> QED
    BY <1>3, <2>5, <2>6, <2>7, FormGoes
<1> QED
  BY <1>2, <1>5, <1>6

\* The form waits for its requests, or no longer.
LEMMA WaitsSafe ==
    ASSUME EarnedInv, NEW f \in Forms, NEW q, q = form[f], NEW save, save \in {"no", "settings"}, NEW post,
           save # "no" => PostOK(post),
           form' = [form EXCEPT ![f] = [q EXCEPT !.save = save, !.post = post]],
           UNCHANGED <<settings, revenue, month, reader, shown>>
    PROVE  EarnedInv'
<1>1. FormOK(q) /\ Shows(q, settings)
  BY DEF EarnedInv, FormsOK
<1>2. PICK r : r = [q EXCEPT !.save = save, !.post = post]
  OBVIOUS
<1>3. /\ DOMAIN r = FormFields /\ r.load = q.load /\ r.revenue = q.revenue /\ r.month = q.month
      /\ r.save = save /\ r.brackets = q.brackets /\ r.post = post /\ r.base = q.base
  BY <1>1, <1>2 DEF FormOK, FormFields
<1>4. r.latest = q.latest /\ r.typed = q.typed
  BY <1>1, <1>2 DEF FormOK, FormFields
<1>5. FormOK(r)
  BY <1>1, <1>3 DEF FormOK
<1>6. Shows(r, settings)
  BY <1>1, <1>3, <1>4, StillShows
<1> QED
  BY <1>2, <1>5, <1>6, FormGoes

LEMMA SaveSafe ==
    ASSUME EarnedInv, NEW f \in Forms, Earned!Save(f) \/ Earned!SaveFails(f)
    PROVE  EarnedInv'
<1>1. PICK q : q = form[f] /\ FormOK(q)
  BY DEF EarnedInv, FormsOK
<1>2. UNCHANGED <<settings, revenue, month, reader, shown>>
  BY DEF Earned!Save, Earned!SaveFails
<1>3. CASE Earned!Save(f)
  <2>1. PICK post : post = [base |-> q.base, brackets |-> q.brackets, revenue |-> q.revenue, month |-> Null]
    OBVIOUS
  <2>2. Earned!Valid(q.brackets) /\ form' = [form EXCEPT ![f] = [q EXCEPT !.save = "settings", !.post = post]]
    BY <1>1, <1>3, <2>1 DEF Earned!Save, EarnedInv, FormsOK
  <2>3. PostOK(post)
    BY <1>1, <2>1, <2>2 DEF PostOK, PostFields, FormOK, IsList, Checked
  <2> QED
    BY <1>1, <1>2, <2>2, <2>3, WaitsSafe
<1>4. CASE Earned!SaveFails(f)
  <2>1. form' = [form EXCEPT ![f] = [q EXCEPT !.save = "no"]]
    BY <1>1, <1>4 DEF Earned!SaveFails, EarnedInv, FormsOK
  <2>2. [q EXCEPT !.save = "no"] = [q EXCEPT !.save = "no", !.post = q.post]
    BY <1>1 DEF FormOK, FormFields
  <2>3. form' = [form EXCEPT ![f] = [q EXCEPT !.save = "no", !.post = q.post]]
    BY <2>1, <2>2
  <2> QED
    BY <1>1, <1>2, <2>3, WaitsSafe
<1> QED
  BY <1>3, <1>4

\* The first request: no form shows the stored row any more.
LEMMA PostSettingsSafe ==
    ASSUME EarnedInv, NEW f \in Forms, Earned!PostSettings(f)
    PROVE  EarnedInv'
<1>1. PICK post : post = form[f].post /\ PostOK(post)
  BY DEF EarnedInv, FormsOK, FormOK, Earned!PostSettings
<1>2. settings' = [base |-> post.base, brackets |-> post.brackets] /\ UNCHANGED <<revenue, month, reader, shown>>
  BY <1>1 DEF Earned!PostSettings
<1>3. settings'.brackets = post.brackets
  BY <1>2
<1>4. StoredOK' /\ ReaderOK' /\ ShownOK' /\ RevenueOK'
  BY <1>1, <1>2, <1>3 DEF EarnedInv, StoredOK, ReaderOK, ShownOK, RevenueOK, PostOK
<1>5. form' = [g \in Forms |->
         IF g = f THEN [form[g] EXCEPT !.latest = FALSE, !.save = "month", !.post.month = month]
         ELSE [form[g] EXCEPT !.latest = FALSE]]
  BY DEF Earned!PostSettings
<1>6. ASSUME NEW g \in Forms, NEW row PROVE FormOK(form'[g]) /\ Shows(form'[g], row)
  <2>1. PICK q, r : q = form[g] /\ FormOK(q) /\ r = form'[g]
    BY DEF EarnedInv, FormsOK
  <2>2. CASE g = f
    <3>1. PICK p : p = [post EXCEPT !.month = month]
      OBVIOUS
    <3>2. PostOK(p)
      <4>1. /\ DOMAIN p = PostFields /\ p.brackets = post.brackets /\ p.revenue = post.revenue
        BY <1>1, <3>1 DEF PostOK, PostFields
      <4> QED
        BY <1>1, <4>1 DEF PostOK
    <3>3. r = [q EXCEPT !.latest = FALSE, !.save = "month", !.post.month = month]
      BY <1>5, <2>1, <2>2
    <3>4. r = [q EXCEPT !.latest = FALSE, !.save = "month", !.post = p]
      BY <1>1, <2>1, <2>2, <3>1, <3>3
    <3>5. /\ DOMAIN r = FormFields /\ r.load = q.load /\ r.revenue = q.revenue /\ r.month = q.month
          /\ r.save = "month" /\ r.brackets = q.brackets /\ r.post = p
      BY <2>1, <3>4 DEF FormOK, FormFields
    <3>6. r.latest = FALSE
      BY <2>1, <3>4 DEF FormOK, FormFields
    <3>7. FormOK(r)
      BY <2>1, <3>2, <3>5 DEF FormOK
    <3>8. Shows(r, row)
      BY <3>6 DEF Shows
    <3> QED
      BY <2>1, <3>7, <3>8
  <2>3. CASE g # f
    <3>1. r = [q EXCEPT !.latest = FALSE]
      BY <1>5, <2>1, <2>3
    <3>2. /\ DOMAIN r = FormFields /\ r.load = q.load /\ r.revenue = q.revenue /\ r.month = q.month
          /\ r.save = q.save /\ r.brackets = q.brackets /\ r.post = q.post
      BY <2>1, <3>1 DEF FormOK, FormFields
    <3>3. r.latest = FALSE
      BY <2>1, <3>1 DEF FormOK, FormFields
    <3>4. FormOK(r)
      BY <2>1, <3>2 DEF FormOK
    <3>5. Shows(r, row)
      BY <3>3 DEF Shows
    <3> QED
      BY <2>1, <3>4, <3>5
  <2> QED
    BY <2>2, <2>3
<1>7. DOMAIN form' = Forms
  BY <1>5
<1>8. PICK row : row = settings'
  OBVIOUS
<1>9. \A g \in Forms : FormOK(form'[g]) /\ Shows(form'[g], row)
  BY <1>6
<1>10. FormsOK'
  BY <1>7, <1>8, <1>9 DEF FormsOK
<1> QED
  BY <1>4, <1>10 DEF EarnedInv

\* The second request: the form closes.
LEMMA PostMonthSafe ==
    ASSUME Earned!EarningsAssumption, EarnedInv, NEW f \in Forms, Earned!PostMonth(f)
    PROVE  EarnedInv'
<1>1. PICK post : post = form[f].post /\ PostOK(post)
  BY DEF EarnedInv, FormsOK, FormOK, Earned!PostMonth
<1>2. /\ revenue' = [revenue EXCEPT ![post.month] = post.revenue]
      /\ form' = [form EXCEPT ![f] = Earned!Closed]
      /\ UNCHANGED <<settings, month, reader, shown>>
  BY <1>1 DEF Earned!PostMonth
<1>3. RevenueOK'
  BY <1>1, <1>2 DEF EarnedInv, RevenueOK, PostOK
<1>4. StoredOK' /\ ReaderOK' /\ ShownOK'
  BY <1>2 DEF EarnedInv, StoredOK, ReaderOK, ShownOK
<1>5. PICK q : q = Earned!Closed
  OBVIOUS
<1>6. FormOK(q) /\ Shows(q, settings)
  BY <1>5, NewFormIs
<1>7. FormsOK'
  BY <1>2, <1>5, <1>6 DEF EarnedInv, FormsOK
<1> QED
  BY <1>3, <1>4, <1>7 DEF EarnedInv

\* The dashboard shows what the brackets it has read tell of the revenue.
LEMMA ShowSafe ==
    ASSUME Earned!EarningsAssumption, EarnedInv, Earned!ShowEarnings
    PROVE  EarnedInv'
<1>1. PICK amount : amount = IF revenue[month] = Null THEN 0 ELSE revenue[month]
  OBVIOUS
<1>2. amount \in Nat
  BY <1>1 DEF EarnedInv, RevenueOK
<1>3. PICK s : s = Earned!computeEarningsSummary(amount, reader.brackets)
  OBVIOUS
<1>4. /\ shown' = s /\ reader' = Null /\ reader # Null
      /\ UNCHANGED <<settings, revenue, month, form>>
  BY <1>1, <1>3 DEF Earned!ShowEarnings
<1>5. Null \notin Int
  BY DEF Earned!EarningsAssumption
<1>6. Told(s)
  BY <1>2, <1>3, <1>4, <1>5, SummaryTold DEF EarnedInv, ReaderOK
<1>7. ShownOK'
  BY <1>4, <1>6 DEF ShownOK
<1>8. StoredOK' /\ ReaderOK' /\ RevenueOK' /\ FormsOK'
  BY <1>4 DEF EarnedInv, StoredOK, ReaderOK, RevenueOK, FormsOK
<1> QED
  BY <1>7, <1>8 DEF EarnedInv

LEMMA EarnedNext == Earned!EarningsAssumption /\ EarnedInv /\ [Earned!Next]_(Earned!vars) => EarnedInv'
<1> SUFFICES ASSUME Earned!EarningsAssumption, EarnedInv, [Earned!Next]_(Earned!vars) PROVE EarnedInv'
  OBVIOUS
<1>1. ASSUME NEW f \in Forms,
             \/ Earned!OpenForm(f) \/ Earned!CloseForm(f) \/ Earned!LoadSettings(f)
             \/ Earned!LoadMonth(f) \/ Earned!LoadFails(f)
      PROVE  EarnedInv'
  BY <1>1, OpenSafe, LoadSafe, LoadMonthSafe
<1>2. ASSUME NEW f \in Forms,
             \/ Earned!AddBracket(f) \/ Earned!RemoveBracket(f) \/ Earned!ChangeBracket(f)
             \/ Earned!TypeAmount(f)
      PROVE  EarnedInv'
  BY <1>2, ChangesSafe, AmountSafe
<1>3. ASSUME NEW f \in Forms,
             \/ Earned!Save(f) \/ Earned!PostSettings(f) \/ Earned!PostMonth(f) \/ Earned!SaveFails(f)
      PROVE  EarnedInv'
  BY <1>3, SaveSafe, PostSettingsSafe, PostMonthSafe
<1>4. CASE Earned!ReadSettings
  <2>1. reader' = settings /\ settings # Null /\ UNCHANGED <<settings, revenue, month, form, shown>>
    BY <1>4 DEF Earned!ReadSettings
  <2> QED
    BY <2>1 DEF EarnedInv, StoredOK, ReaderOK, RevenueOK, FormsOK, ShownOK
<1>5. CASE Earned!NextMonth
  <2>1. month' \in Months /\ UNCHANGED <<settings, revenue, form, reader, shown>>
    BY <1>5 DEF Earned!NextMonth
  <2> QED
    BY <2>1 DEF EarnedInv, StoredOK, ReaderOK, RevenueOK, FormsOK, ShownOK
<1>6. CASE UNCHANGED Earned!vars
  BY <1>6 DEF Earned!vars, EarnedInv, StoredOK, ReaderOK, RevenueOK, FormsOK, ShownOK
<1> QED
  BY <1>1, <1>2, <1>3, <1>4, <1>5, <1>6, ShowSafe DEF Earned!Next

LEMMA EarnedTold == EarnedInv => EarningsTold
<1> SUFFICES ASSUME EarnedInv PROVE EarningsTold
  OBVIOUS
<1>1. Earned!TypeOK
  BY DEF EarnedInv, StoredOK, ReaderOK, RevenueOK, FormsOK, FormOK, PostOK, Checked, Earned!TypeOK
<1>2. Earned!RateOfRevenue /\ Earned!PromiseKept
  BY DEF EarnedInv, ShownOK, Told, Earned!RateOfRevenue, Earned!PromiseKept
<1>3. Earned!UntouchedFormKeeps
  BY DEF EarnedInv, FormsOK, Shows, Earned!UntouchedFormKeeps
<1> QED
  BY <1>1, <1>2, <1>3 DEF EarningsTold

-----------------------------------------------------------------------------
(* The theorems.                                                           *)

\* What the dashboard tells of the month is true: the rate is that of the bracket which the
\* revenue has reached, and who earns the amount that is missing gets the next rate.  What
\* is stored passed the checks, and a form that nobody typed in shows what is stored;
\* whatever is typed, loaded late, saved in two requests or lost between them.
THEOREM EarningsKept == ASSUME Earned!EarningsAssumption PROVE Earned!Spec => []EarningsTold
<1>1. Earned!Init => EarnedInv
  BY EarnedInit
<1>2. EarnedInv /\ [Earned!Next]_(Earned!vars) => EarnedInv'
  BY EarnedNext
<1> QED
  BY <1>1, <1>2, EarnedTold, PTL DEF Earned!Spec

\* Rows keep known statuses, and callers and tasks hold jobs that exist.
THEOREM BoardTypesKept == ASSUME BoardAssumption PROVE Board!Spec => []Board!TypeOK
<1>1. Board!Spec => []BoardInv
  BY BoardHolds
<1>2. Board!Init => BoardTypes
  BY BoardTypesInit
<1>3. BoardInv /\ BoardTypes /\ [Board!Next]_(Board!vars) => BoardTypes'
  BY BoardTypesNext
<1>4. BoardInv /\ BoardTypes => Board!TypeOK
  BY BoardTyped
<1> QED
  BY <1>1, <1>2, <1>3, <1>4, PTL DEF Board!Spec

\* The figures that operators are shown, of jobs and of their earnings, are what the rows
\* behind them say, for any jobs, candidates, brackets and revenues.
THEOREM FiguresKept ==
    ASSUME BoardAssumption, Earned!EarningsAssumption
    PROVE  FiguresSpec => []FiguresHold
<1>1. Board!Spec => []Board!TypeOK
  BY BoardTypesKept
<1>2. Board!Spec => []Board!FilledUnlessPatched
  BY FilledJobsStay
<1>3. Board!Spec => []Board!SnapshotOfMatch
  BY SnapshotsTellMatch
<1>4. Board!Spec => []Board!TiersNeedCard
  BY TiersTold
<1>5. Board!Spec => []Board!MatchersAgree
  BY ScoresAgree
<1>6. Board!Spec => []Board!RankMatchesMargin
  BY RankTellsMargin
<1>7. Board!Spec => []Board!RankFallsTowardsStart
  BY RankFalls
<1>8. Earned!Spec => []EarningsTold
  BY EarningsKept
<1>9. /\ Board!TypeOK /\ Board!FilledUnlessPatched /\ Board!SnapshotOfMatch
      /\ Board!TiersNeedCard /\ Board!MatchersAgree
      /\ Board!RankMatchesMargin /\ Board!RankFallsTowardsStart
      /\ EarningsTold
      => FiguresHold
  BY DEF FiguresHold, JobsRanked
<1> QED
  BY <1>1, <1>2, <1>3, <1>4, <1>5, <1>6, <1>7, <1>8, <1>9, PTL DEF FiguresSpec
=============================================================================
