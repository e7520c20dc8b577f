---------------------------- MODULE AgeStatements ----------------------------
(***************************************************************************)
(* The ready-made statements about dates of birth and document expiry of   *)
(* concordium_base/src/id/id_proof_types.rs.  A verifier builds one on     *)
(* some day; the holder tries to prove it then or later.  A date is        *)
(* written as a string of eight digits, so that the order of dates is the  *)
(* order of the numbers, and a range statement is a half-open interval of  *)
(* them.                                                                   *)
(***************************************************************************)
EXTENDS Integers, Sequences

CONSTANTS Years, Days,  \* bounds: the years 0 .. Years, the days 1 .. Days of a year
          FirstDate,    \* the date 18000101 of the code
          LastDate,     \* the date 99990101 of the code
          Ages          \* the ages that statements ask for

VARIABLES today,      \* <<year, day>>
          dob,        \* the holder's date of birth, or the expiry of the document
          statement,  \* what was built, <<>> if nothing yet
          tried       \* the outcome of the last attempt to prove it

vars == <<today, dob, statement, tried>>

Date(y, d) == y * (Days + 1) + d
Dates == {Date(y, d) : y \in 0 .. Years, d \in 1 .. Days}

Init ==
    /\ today \in (2 .. Years) \X (1 .. Days) /\ dob \in Dates
    /\ statement = <<>> /\ tried = "no"

Statement(kind, a, b, lower, upper) ==
    [kind |-> kind, a |-> a, b |-> b, lower |-> lower, upper |-> upper, day |-> today]

older_than(age) ==
    /\ today[1] >= age
    /\ statement' = Statement("older", age, 0, FirstDate, Date(today[1] - age, today[2]))

younger_than(age) ==
    /\ today[1] >= age
    /\ statement' = Statement("younger", age, 0, Date(today[1] - age, today[2]),
                              Date(today[1], today[2]))

age_in_range(lower, upper) ==
    /\ today[1] >= upper /\ today[1] >= lower
    /\ statement' = Statement("range", lower, upper, Date(today[1] - upper, today[2]),
                              Date(today[1] - lower, today[2]))

doc_expiry_no_earlier_than(lower) ==
    statement' = Statement("expiry", lower, 0, lower, LastDate)

Build ==
    /\ statement = <<>>
    /\ \/ \E a \in Ages : older_than(a)
       \/ \E a \in Ages : younger_than(a)
       \/ \E a, b \in Ages : a < b /\ age_in_range(a, b)
       \/ doc_expiry_no_earlier_than(Date(today[1], today[2]))
    /\ UNCHANGED <<today, dob, tried>>

NextDay ==
    /\ tried = "no" /\ today # <<Years, Days>>
    /\ today' = IF today[2] = Days THEN <<today[1] + 1, 1>> ELSE <<today[1], today[2] + 1>>
    /\ UNCHANGED <<dob, statement, tried>>

\* A proof exists exactly when the attribute is in the range.
InRange == statement.lower <= dob /\ dob < statement.upper

Try ==
    /\ statement # <<>> /\ tried = "no"
    /\ tried' = IF InRange THEN "proved" ELSE "failed"
    /\ UNCHANGED <<today, dob, statement>>

Next == Build \/ NextDay \/ Try

Spec == Init /\ [][Next]_vars

-----------------------------------------------------------------------------

BirthDay == dob % (Days + 1)
BirthYear == dob \div (Days + 1)
AgeOn(day) == day[1] - BirthYear - (IF day[2] < BirthDay THEN 1 ELSE 0)

\* What the documentation says that a statement states, on the day it is built.
Meaning ==
    CASE statement.kind = "older" -> AgeOn(statement.day) >= statement.a
      [] statement.kind = "younger" -> AgeOn(statement.day) < statement.a
      [] statement.kind = "range" -> AgeOn(statement.day) \in statement.a .. statement.b - 1
      [] statement.kind = "expiry" -> dob >= statement.a

\* Whoever proves to be older than an age has that age on the day of the
\* proof, however long ago the verifier built the statement (older_than).
OlderIsOlder ==
    tried = "proved" /\ statement.kind = "older" => AgeOn(today) >= statement.a

\* The holder is born, and the date is between the two fixed dates.
Covered ==
    IF statement.kind = "expiry" THEN dob < LastDate
    ELSE AgeOn(statement.day) >= 0 /\ dob >= FirstDate

OnBirthday == statement.kind # "expiry" /\ BirthDay = statement.day[2]

\* Unless it was built on the holder's birthday, a statement about a date
\* between the two fixed ones can be proved exactly when it is true of the
\* holder on the day it was built (older_than, younger_than, age_in_range,
\* doc_expiry_no_earlier_than).
AgesAreRight ==
    tried # "no" /\ Covered /\ ~OnBirthday => (tried = "proved" <=> Meaning)

\* The same on birthdays, as the documentation of the four functions has it;
\* the upper bound that the range excludes is the day the age is reached.
BirthdaysAreRight ==
    tried # "no" /\ Covered => (tried = "proved" <=> Meaning)

=============================================================================
