-------------------------- MODULE CandidateProfile --------------------------
(***************************************************************************)
(* What the AI extracts from the messages of a candidate, and how it is    *)
(* merged into the Candidate row: its columns, and for every field the     *)
(* metadata in rawProfile.enrichment that says how sure the value is.  A   *)
(* job reads the row, merges its answer into what it has read, and writes  *)
(* the columns of the accepted fields and the whole rawProfile.            *)
(*                                                                         *)
(* Confidences are percents.  "location" stands for the five fields that   *)
(* have one plain value; values equal but for case are the same value.     *)
(***************************************************************************)
EXTENDS Integers, FiniteSets

CONSTANTS None,
          Messages,     \* inbound messages of one candidate, each with its job
          Replies,      \* what the AI may reply: for every field None or what it claims
          Attempts,     \* how often a job runs
          MaxFaults     \* bound: failing database calls

Fields == {"location", "skills", "salary"}

Methods == {"explicit", "inferred"}

VARIABLES
    row,      \* the Candidate row, None before it is created
    job,      \* the jobs: the row as read, the validated answer, the runs left
    hist,     \* history: the fields whose metadata a write based on an older row replaced
    faults

vars == <<row, job, hist, faults>>

NoJob == [pc |-> "idle", read |-> None, told |-> [f \in Fields |-> None], runs |-> Attempts]

Init ==
    /\ row = None
    /\ job = [m \in Messages |-> NoJob]
    /\ hist = {}
    /\ faults = 0

-----------------------------------------------------------------------------
(* The answer of the AI.                                                   *)

NotNegative(n) == IF n # None /\ n < 0 THEN None ELSE n

normalizeSalaryValue(v) ==
    IF v = None THEN None
    ELSE LET min  == NotNegative(v.min)
             max  == NotNegative(v.max)
             swap == min # None /\ max # None /\ min > max
             s    == [min |-> IF swap THEN max ELSE min, max |-> IF swap THEN min ELSE max,
                      currency |-> IF v.currency = "GBP" THEN "GBP" ELSE None]
         IN  IF s = [min |-> None, max |-> None, currency |-> None] THEN None ELSE s

Clamp(n) == IF n < 0 THEN 0 ELSE IF n > 100 THEN 100 ELSE n

\* One field of the reply: a confidence or method that is missing or wrong gets a default.
ValidatedField(f, claim) ==
    IF claim = None THEN None
    ELSE [value  |-> IF f = "salary" THEN normalizeSalaryValue(claim.value) ELSE claim.value,
          conf   |-> IF claim.conf = None THEN 50 ELSE Clamp(claim.conf),
          method |-> IF claim.method \in Methods THEN claim.method ELSE "inferred"]

\* Outside production the answer is looked over once more.
SmokeChecked(f, meta) ==
    IF meta = None THEN None
    ELSE [value  |-> IF f # "salary" \/ meta.value = None THEN meta.value
                     ELSE [meta.value EXCEPT !.min = NotNegative(@), !.max = NotNegative(@)],
          conf   |-> Clamp(meta.conf),
          method |-> IF meta.method \in Methods THEN meta.method ELSE "inferred"]

validateAndNormalizeProfile(reply) ==
    [f \in Fields |-> SmokeChecked(f, ValidatedField(f, reply[f]))]

-----------------------------------------------------------------------------
(* mergeField: one field of the answer against the metadata of the field.  *)

valuesMeaningfullyDifferent(f, a, b) ==
    IF f = "salary" THEN normalizeSalaryValue(a) # normalizeSalaryValue(b) ELSE a # b

\* The difference without Math.abs.
BuggyNear(old, new, distance) == new.conf - old.conf <= distance

Near(old, new, distance) == new.conf - old.conf \in -distance..distance

\* The rules in their order.  "Newer" is true of every incoming value: it gets the time of
\* its merge, not that of its message.
Decision(f, old, new) ==
    IF old = None THEN "accept"
    ELSE IF new.value = None THEN "reject"
    ELSE IF ~ valuesMeaningfullyDifferent(f, old.value, new.value) THEN "accept"
    ELSE IF new.method = "explicit" /\ old.method = "inferred"
         THEN IF new.conf >= 30 THEN "accept" ELSE "reject"
    ELSE IF new.conf >= old.conf + 20 \/ Near(old, new, 15) THEN "accept"
    ELSE IF Near(old, new, 19) THEN "conflict"
    ELSE "reject"

\* The same value again keeps the better confidence and becomes explicit once it was.
Confirmed(old, new) ==
    [old EXCEPT !.conf = IF new.conf > @ THEN new.conf ELSE @,
                !.method = IF new.method = "explicit" THEN new.method ELSE @]

FinalMeta(f, old, new) ==
    IF Decision(f, old, new) # "accept" THEN old
    ELSE IF old # None /\ ~ valuesMeaningfullyDifferent(f, old.value, new.value)
         THEN Confirmed(old, new)
    ELSE new

-----------------------------------------------------------------------------
(* upsertCandidateProfile.                                                 *)

NoRow ==
    [cols |-> [f \in Fields |-> None], meta |-> [f \in Fields |-> None],
     conflicts |-> {}, needsReview |-> FALSE]

Known(read) == IF read = None THEN NoRow ELSE read

\* The fields whose columns are written: accepted ones that have a value.
Accepted(old, told) ==
    {f \in Fields : /\ told[f] # None
                    /\ Decision(f, old.meta[f], told[f]) = "accept"
                    /\ FinalMeta(f, old.meta[f], told[f]).value # None}

Conflicting(old, told) ==
    {f \in Fields : told[f] # None /\ Decision(f, old.meta[f], told[f]) = "conflict"}

\* Skills are added to those of the row, in the metadata too.
MergedSkills(old, skills) == IF old.cols["skills"] = None THEN skills ELSE old.cols["skills"] \cup skills

\* The metadata of the answer, whether it was accepted or not.
BuggyMergedMeta(old, told) == [f \in Fields |-> IF told[f] = None THEN old.meta[f] ELSE told[f]]

MergedMeta(old, told) ==
    [f \in Fields |->
        IF told[f] = None THEN old.meta[f]
        ELSE LET meta == FinalMeta(f, old.meta[f], told[f])
             IN  IF f = "skills" /\ f \in Accepted(old, told)
                 THEN [meta EXCEPT !.value = MergedSkills(old, @)] ELSE meta]

\* What the job writes over the row cur: the accepted columns and the whole rawProfile.
Upserted(cur, old, told) ==
    LET meta == MergedMeta(old, told)
    IN  [cols        |-> [f \in Fields |-> IF f \in Accepted(old, told) THEN meta[f].value
                                           ELSE cur.cols[f]],
         meta        |-> meta,
         conflicts   |-> old.conflicts \cup Conflicting(old, told),
         needsReview |-> old.needsReview \/ Conflicting(old, told) # {}]

\* The extraction ends without an answer: no key, an error, a timeout, no JSON; then the
\* message goes on without it.
NoAnswer(m) ==
    /\ job[m].pc = "idle"
    /\ job' = [job EXCEPT ![m].pc = "done"]
    /\ UNCHANGED <<row, hist, faults>>

\* The AI has answered, and the job reads the row.
Read(m) ==
    /\ job[m].pc = "idle"
    /\ \E reply \in Replies :
          job' = [job EXCEPT ![m] = [@ EXCEPT !.pc = "merge", !.read = row,
                                              !.told = validateAndNormalizeProfile(reply)]]
    /\ UNCHANGED <<row, hist, faults>>

Done(m) == job' = [job EXCEPT ![m] = [@ EXCEPT !.pc = "done", !.read = None, !.told = NoJob.told]]

\* Update when a row was read, create when none was.
Upsert(m) ==
    /\ job[m].pc = "merge"
    /\ job[m].read = None => row = None
    /\ row' = Upserted(Known(row), Known(job[m].read), job[m].told)
    /\ hist' = hist \cup {f \in Fields : Known(row).meta[f] # Known(job[m].read).meta[f]}
    /\ Done(m)
    /\ UNCHANGED faults

\* Another job created the row, and the unique phone refuses this one; or the call fails.
\* The error is logged, the message goes on, and what it told is not recorded.
UpsertFails(m) ==
    /\ job[m].pc = "merge"
    /\ \/ job[m].read = None /\ row # None /\ UNCHANGED faults
       \/ faults < MaxFaults /\ faults' = faults + 1
    /\ Done(m)
    /\ UNCHANGED <<row, hist>>

\* A later step of the job failed: it runs again, extraction and all.
Again(m) ==
    /\ job[m].pc = "done" /\ job[m].runs > 1
    /\ job' = [job EXCEPT ![m] = [NoJob EXCEPT !.runs = job[m].runs - 1]]
    /\ UNCHANGED <<row, hist, faults>>

Next == \E m \in Messages : NoAnswer(m) \/ Read(m) \/ Upsert(m) \/ UpsertFails(m) \/ Again(m)

Spec == Init /\ [][Next]_vars

-----------------------------------------------------------------------------
(* Properties.                                                             *)

Salary(v) ==
    /\ v.min # None => v.min >= 0
    /\ v.max # None => v.max >= 0
    /\ v.min # None /\ v.max # None => v.min <= v.max

MetaOK(meta) == meta = None \/ (meta.conf \in 0..100 /\ meta.method \in Methods)

\* A row keeps confidences that are percents and salaries that are ranges.
TypeOK ==
    /\ row # None => /\ \A f \in Fields : MetaOK(row.meta[f])
                     /\ row.cols["salary"] # None => Salary(row.cols["salary"])
                     /\ row.conflicts \subseteq Fields
                     /\ row.needsReview <=> row.conflicts # {}
    /\ \A m \in Messages : /\ job[m].pc \in {"idle", "merge", "done"} /\ job[m].runs \in 1..Attempts
                           /\ \A f \in Fields : MetaOK(job[m].told[f])
    /\ hist \subseteq Fields /\ faults \in 0..MaxFaults

\* The column of a field, which is what recruiters see and search, is the value its metadata
\* vouches for, whatever was accepted, refused or in conflict; only when a job wrote the
\* rawProfile of an older row over a newer one can they tell different things.
ColumnsFollowMetas ==
    row # None =>
        \A f \in Fields \ hist :
            row.cols[f] = IF row.meta[f] = None THEN None ELSE row.meta[f].value

\* A value is replaced only by one that is as sure but for 15 percents, or by one that was
\* said where the old one was guessed; unless the job had read the row before the old value
\* was written, or a job like that has taken its metadata away.
GuessesYield ==
    [][\A f \in Fields \ hist' :
          /\ row # None /\ row' # None
          /\ row.cols[f] # None /\ row'.cols[f] # row.cols[f] /\ f # "skills"
          => \/ row'.meta[f].conf >= row.meta[f].conf - 15
             \/ row'.meta[f].method = "explicit" /\ row.meta[f].method = "inferred"]_vars
=============================================================================
