------------------------------ MODULE Earnings ------------------------------
(***************************************************************************)
(* What an operator earns.  A form, which may be open in several tabs,     *)
(* loads the commission brackets and the revenue of the month one after    *)
(* the other, while the operator may already type, and saves them one      *)
(* after the other.  The dashboard tells the rate that the month's revenue *)
(* has reached, and how much is missing to the next one.                   *)
(*                                                                         *)
(* Amounts are whole numbers in one currency.  The opportunities listed    *)
(* below the summary are left out.  A load that answers late is a load     *)
(* that reads late: what was typed meanwhile is replaced by it either way. *)
(***************************************************************************)
EXTENDS Integers, Sequences, SequencesExt

CONSTANTS Forms,       \* tabs in which the form may be open
          Months,      \* the months, as numbers from 1
          Amounts,     \* what may be typed for a revenue or a bound of a bracket
          Rates,       \* what may be typed for a rate
          None,        \* a null column, an unbounded bracket, an empty field
          Step,        \* from one lower bound to the next suggested one (10000)
          MaxBrackets, \* bound: brackets in a form
          MaxEdits,    \* bound: fields typed
          MaxSaves,    \* bound: forms saved
          MaxFaults    \* bound: failing requests

EarningsAssumption ==
    /\ Amounts \subseteq Nat /\ Rates \subseteq 0..100 /\ Step \in Nat \ {0}
    /\ None \notin Int /\ Months \subseteq Nat /\ 1 \in Months /\ MaxBrackets \in Nat \ {0}

VARIABLES
    settings,    \* the stored row: base pay and brackets
    revenue,     \* the stored revenue of each month
    month,       \* the current one
    form,        \* the fields of each form and what it waits for
    reader,      \* the settings that the dashboard has read
    shown,       \* the last summary it was given
    used         \* how much of each bound has been used up

vars == <<settings, revenue, month, form, reader, shown, used>>

-----------------------------------------------------------------------------
(* Brackets.                                                               *)

Bracket == [min : Nat, max : Nat \cup {None}, rate : 0..100]

WellFormed(b) == b \in Bracket /\ (b.max # None => b.max > b.min)

\* Sorted, but they may overlap.
BuggyFollows(b, next) == b.max # None /\ b.min <= next.min

\* Sorted, and the next one starts where the one before has ended, or later.
Follows(b, next) == b.max # None /\ b.min <= next.min /\ b.max <= next.min

\* Checked by the form, and again by the server.  There may be gaps, below the first
\* bracket and above the last one too.
Valid(brackets) ==
    /\ brackets # << >>
    /\ \A i \in DOMAIN brackets : WellFormed(brackets[i])
    /\ \A i \in DOMAIN brackets : i > 1 => Follows(brackets[i - 1], brackets[i])

\* The lower bound belongs to a bracket, the upper one does not.
Covers(b, amount) == b.min <= amount /\ (b.max # None => amount < b.max)

\* The first bracket that contains the amount, if it is reached: the search ends at the
\* first bracket that starts above the amount.
IsCurrent(i, amount, brackets) ==
    /\ Covers(brackets[i], amount)
    /\ \A j \in 1..(i - 1) : brackets[j].min <= amount /\ ~ Covers(brackets[j], amount)

Current(amount, brackets) == {i \in DOMAIN brackets : IsCurrent(i, amount, brackets)}

\* The first bracket that starts above the given one.
IsNext(i, b, brackets) ==
    brackets[i].min > b.min /\ \A j \in 1..(i - 1) : brackets[j].min <= b.min

NextOf(b, brackets) == {i \in DOMAIN brackets : IsNext(i, b, brackets)}

AmountTo(next, amount) == IF next.min > amount THEN next.min - amount ELSE 0

Summary(amount, brackets, b, next) ==
    [revenue |-> amount, brackets |-> brackets, rate |-> b.rate,
     nextRate |-> IF next = None THEN None ELSE next.rate,
     amountToNext |-> IF next = None THEN None ELSE AmountTo(next, amount)]

\* In no bracket: as if it were the first one, and the next one is the second.
computeEarningsSummary(amount, brackets) ==
    LET found == Current(amount, brackets)
        b     == brackets[CHOOSE i \in found : TRUE]
        above == NextOf(b, brackets)
    IN  IF found = {}
        THEN Summary(amount, brackets, brackets[1], IF Len(brackets) > 1 THEN brackets[2] ELSE None)
        ELSE Summary(amount, brackets, b,
                     IF above = {} THEN None ELSE brackets[CHOOSE i \in above : TRUE])

-----------------------------------------------------------------------------
(* The form.                                                               *)

NewForm == [load |-> "settings", save |-> "no", brackets |-> <<[min |-> 0, max |-> None, rate |-> 5]>>,
            base |-> None, revenue |-> 0, month |-> None, post |-> None, typed |-> FALSE, latest |-> FALSE]

Closed == [NewForm EXCEPT !.load = "closed"]

IsOpen(f) == form[f].load # "closed"

Init ==
    /\ settings = None
    /\ revenue = [m \in Months |-> None]
    /\ month = 1 /\ reader = None /\ shown = None
    /\ form = [f \in Forms |-> Closed]
    /\ used = [edits |-> 0, saves |-> 0, faults |-> 0]

Edits == used.edits < MaxEdits /\ used' = [used EXCEPT !.edits = @ + 1]

Faulty == used.faults < MaxFaults /\ used' = [used EXCEPT !.faults = @ + 1]

OpenForm(f) ==
    /\ ~ IsOpen(f)
    /\ form' = [form EXCEPT ![f] = NewForm]
    /\ UNCHANGED <<settings, revenue, month, reader, shown, used>>

CloseForm(f) ==
    /\ IsOpen(f) /\ form[f].save = "no"
    /\ form' = [form EXCEPT ![f] = Closed]
    /\ UNCHANGED <<settings, revenue, month, reader, shown, used>>

\* The base pay is not loaded.
BuggyLoaded(q, row) == [q EXCEPT !.brackets = row.brackets, !.typed = FALSE, !.latest = TRUE]

\* A base pay that is null leaves the field as it is.
Loaded(q, row) ==
    [q EXCEPT !.brackets = row.brackets, !.base = IF row.base = None THEN @ ELSE row.base,
              !.typed = row.base = None /\ q.base # None, !.latest = TRUE]

\* Replaces what was typed before the answer came.
LoadSettings(f) ==
    /\ form[f].load = "settings"
    /\ form' = [form EXCEPT ![f] =
           [IF settings = None THEN @ ELSE Loaded(@, settings) EXCEPT !.load = "month", !.month = month]]
    /\ UNCHANGED <<settings, revenue, month, reader, shown, used>>

LoadMonth(f) ==
    LET stored == revenue[form[f].month] IN
    /\ form[f].load = "month"
    /\ form' = [form EXCEPT ![f].load = "done", ![f].revenue = IF stored = None THEN @ ELSE stored]
    /\ UNCHANGED <<settings, revenue, month, reader, shown, used>>

\* Ignored: the form keeps what it has, the next load follows.
LoadFails(f) ==
    /\ Faulty
    /\ \/ form[f].load = "settings" /\ form' = [form EXCEPT ![f].load = "month", ![f].month = month]
       \/ form[f].load = "month" /\ form' = [form EXCEPT ![f].load = "done"]
    /\ UNCHANGED <<settings, revenue, month, reader, shown>>

Types(f, brackets) ==
    /\ IsOpen(f) /\ Edits
    /\ form' = [form EXCEPT ![f].brackets = brackets, ![f].typed = TRUE]
    /\ UNCHANGED <<settings, revenue, month, reader, shown>>

AddBracket(f) ==
    LET all == form[f].brackets
        end == Last(all)
    IN  /\ Len(all) < MaxBrackets
        /\ Types(f, Append(all, [min |-> IF end.max # None THEN end.max ELSE end.min + Step,
                                 max |-> None, rate |-> end.rate]))

RemoveBracket(f) ==
    LET all == form[f].brackets
    IN  Len(all) > 1 /\ \E i \in DOMAIN all : Types(f, RemoveAt(all, i))

ChangeBracket(f) ==
    LET all == form[f].brackets
    IN  \E i \in DOMAIN all :
            \/ \E n \in Amounts : Types(f, [all EXCEPT ![i].min = n])
            \/ \E n \in Amounts \cup {None} : Types(f, [all EXCEPT ![i].max = n])
            \/ \E r \in Rates : Types(f, [all EXCEPT ![i].rate = r])

\* The revenue or the base pay; a base pay of nothing is stored as none.
TypeAmount(f) ==
    /\ IsOpen(f) /\ Edits
    /\ \E n \in Amounts : \/ form' = [form EXCEPT ![f].revenue = n]
                          \/ form' = [form EXCEPT ![f].base = IF n = 0 THEN None ELSE n, ![f].typed = TRUE]
    /\ UNCHANGED <<settings, revenue, month, reader, shown>>

\* What the fields have now, whether or not the loads have come back.
Save(f) ==
    LET q == form[f] IN
    /\ IsOpen(f) /\ q.save = "no" /\ Valid(q.brackets)
    /\ used.saves < MaxSaves /\ used' = [used EXCEPT !.saves = @ + 1]
    /\ form' = [form EXCEPT ![f].save = "settings",
                            ![f].post = [base |-> q.base, brackets |-> q.brackets, revenue |-> q.revenue,
                                         month |-> None]]
    /\ UNCHANGED <<settings, revenue, month, reader, shown>>

\* The whole row; no form has loaded this one, nor has the form that saves it.
PostSettings(f) ==
    LET post == form[f].post IN
    /\ form[f].save = "settings" /\ Valid(post.brackets)
    /\ settings' = [base |-> post.base, brackets |-> post.brackets]
    /\ form' = [g \in Forms |->
           IF g = f THEN [form[g] EXCEPT !.latest = FALSE, !.save = "month", !.post.month = month]
           ELSE [form[g] EXCEPT !.latest = FALSE]]
    /\ UNCHANGED <<revenue, month, reader, shown, used>>

\* Then the revenue, and the form closes.
PostMonth(f) ==
    /\ form[f].save = "month"
    /\ revenue' = [revenue EXCEPT ![form[f].post.month] = form[f].post.revenue]
    /\ form' = [form EXCEPT ![f] = Closed]
    /\ UNCHANGED <<settings, month, reader, shown, used>>

\* The form stays; what the first request stored stays too.
SaveFails(f) ==
    /\ form[f].save # "no" /\ Faulty
    /\ form' = [form EXCEPT ![f].save = "no"]
    /\ UNCHANGED <<settings, revenue, month, reader, shown>>

-----------------------------------------------------------------------------
(* The dashboard.                                                          *)

\* Without settings there is nothing to show.
ReadSettings ==
    /\ reader = None /\ settings # None
    /\ reader' = settings
    /\ UNCHANGED <<settings, revenue, month, form, shown, used>>

\* A month without a row counts as one without revenue.
ShowEarnings ==
    /\ reader # None
    /\ shown' = computeEarningsSummary(IF revenue[month] = None THEN 0 ELSE revenue[month], reader.brackets)
    /\ reader' = None
    /\ UNCHANGED <<settings, revenue, month, form, used>>

NextMonth ==
    /\ month + 1 \in Months /\ month' = month + 1
    /\ UNCHANGED <<settings, revenue, form, reader, shown, used>>

Next ==
    \/ \E f \in Forms : \/ OpenForm(f) \/ CloseForm(f) \/ LoadSettings(f) \/ LoadMonth(f) \/ LoadFails(f)
                        \/ AddBracket(f) \/ RemoveBracket(f) \/ ChangeBracket(f) \/ TypeAmount(f)
                        \/ Save(f) \/ PostSettings(f) \/ PostMonth(f) \/ SaveFails(f)
    \/ ReadSettings \/ ShowEarnings \/ NextMonth

Spec == Init /\ [][Next]_vars

-----------------------------------------------------------------------------
(* Properties.                                                             *)

\* What is stored, read and about to be stored passes the checks; forms wait for known steps.
TypeOK ==
    /\ settings # None => Valid(settings.brackets)
    /\ reader # None => Valid(reader.brackets)
    /\ month \in Months
    /\ \A m \in Months : revenue[m] # None => revenue[m] \in Nat
    /\ \A f \in Forms : /\ form[f].load \in {"closed", "settings", "month", "done"}
                        /\ form[f].save \in {"no", "settings", "month"}
                        /\ form[f].save # "no" => Valid(form[f].post.brackets)

\* If some bracket contains the month's revenue, the rate shown is that bracket's: there
\* are not two to choose from, and none is missed.
RateOfRevenue ==
    shown # None =>
        \A i \in DOMAIN shown.brackets :
            Covers(shown.brackets[i], shown.revenue) => shown.rate = shown.brackets[i].rate

\* The promise on the card holds: whoever earns the missing amount gets the next rate.
PromiseKept ==
    shown # None /\ shown.nextRate # None /\ shown.amountToNext > 0 =>
        computeEarningsSummary(shown.revenue + shown.amountToNext, shown.brackets).rate = shown.nextRate

\* A form that loaded the row stored now, and in which nobody typed since, shows that row:
\* saving it takes nothing away.
UntouchedFormKeeps ==
    \A f \in Forms :
        form[f].latest /\ ~ form[f].typed =>
            settings # None /\ form[f].brackets = settings.brackets /\ form[f].base = settings.base
=============================================================================
