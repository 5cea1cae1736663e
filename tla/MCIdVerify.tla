------------------------------- MODULE MCIdVerify ------------------------------
(* Small instances of IdVerify for TLC. *)
EXTENDS IdVerify, TLC

CONSTANTS a, b, n   \* two names and a number

\* A calendar of two months and three days, in which 1 February and 2 January read
\* alike when written in numbers and 3 January has only one reading.
SomeDates == {<<1, 2>>, <<2, 1>>, <<1, 3>>}
DatesIn(styles) ==
  {[month |-> d[1], day |-> d[2], style |-> s] : d \in SomeDates, s \in styles}

Submissions(numbers, names, dates, fathers) ==
  {[f \in FieldNames |-> CASE f = "number" -> i [] f = "full_name" -> m
                           [] f = "date_of_birth" -> d [] f = "father_name" -> p] :
     i \in numbers, m \in names, d \in dates, p \in fathers}

\* Operators write numbers together and names with a space, users put hyphens, or
\* write a name as one word.
Writings(S, js) == {[letters |-> l, joint |-> j] : l \in S, j \in js}

OperatorsWrite ==
  Submissions(Writings({n}, {"none"}), Writings({a}, {"space"}),
              DatesIn({"2001-04-17", "17/04/2001", "04/17/2001"}) \cup {None},
              Writings({a}, {"space"}) \cup {None})
  \cup Submissions(Writings({n}, {"none"}), {None}, DatesIn({"2001-04-17"}), {None})
UsersWrite ==
  Submissions(Writings({n}, {"hyphen"}), Writings({a, b}, {"hyphen"}),
              DatesIn({"2001-04-17", "17-04-2001", "04/17/2001", "04-17-2001"}),
              Writings({a}, {"hyphen"}))
  \cup Submissions(Writings({n}, {"hyphen"}), Writings({a}, {"none"}),
                   DatesIn({"2001-04-17"}), Writings({a}, {"none", "hyphen"}))
  \cup Submissions(Writings({n}, {"hyphen"}), Writings({a}, {"hyphen"}),
                   DatesIn({"2001-04-17"}), Writings({a, b}, {"none", "hyphen"}))
=============================================================================
