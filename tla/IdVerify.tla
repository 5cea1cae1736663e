-------------------------------- MODULE IdVerify -------------------------------
(***************************************************************************)
(* Identity documents: POST /v1/idv/document stores one as the hashes of   *)
(* its normalised fields, POST /v1/idv/verify compares what a user enters  *)
(* with them and records a verification when it matches.                   *)
(*                                                                         *)
(* People write one date, and one number, in several ways.  A submission   *)
(* here is what was meant and how it was written; the server sees only the *)
(* writing.  A keyed hash is modelled by what is hashed: it is compared and*)
(* nothing else.  Documents of different types and numbers never meet.     *)
(***************************************************************************)
EXTENDS Naturals, Sequences

CONSTANTS
  Documents,  \* the submissions operators make for one document number
  Entries,    \* the submissions users make for it
  Callers,    \* authenticated identities
  Verifiers,  \* concurrent verify handlers
  Letters,    \* names and numbers, by their letters or digits
  Number,     \* the digits of the document number
  EncKey,     \* is IDV_ENC_KEY set?
  Months,     \* months of the year, and days of the month
  Days,
  MaxIngests, \* bound: how often the document is ingested
  None        \* a field that is not given, no row, nobody

ASSUME CalendarAssumption ==
  {Months, Days, MaxIngests} \subseteq Nat /\ Months <= Days /\ EncKey \in BOOLEAN

\* DOC_SCHEMA.  (One optional text field stands for all of them.)
FieldNames == {"number", "full_name", "date_of_birth", "father_name"}
number_field == "number"
required_match == {"full_name", "date_of_birth"}

VARIABLES
  doc,       \* the IdentityDocument row: fields_hash and enc_fields
  check,     \* check[w]: the verify handler w is at, with its copy of the row
  verified,  \* verified[c]: the DocumentVerification of c, by what it had entered
  ingested   \* every document that was ever stored, the latest last

idvVars == <<doc, check, verified, ingested>>

-----------------------------------------------------------------------------
(* Normalisation.                                                          *)

\* A date is written in numbers, day and month in either order, with either separator,
\* year last; or year first; or the month in letters.
ISO == {"2001-04-17", "2001/04/17", "17 Apr 2001"}
Styles == ISO \cup {"17/04/2001", "17-04-2001", "04/17/2001", "04-17-2001"}
DayFirst == {"17/04/2001", "17-04-2001"}
Slashed == {"17/04/2001", "04/17/2001"}

\* A name or a number is its letters or digits, in lower case and without diacritics,
\* with something between them or not: a space, a hyphen, a full stop ...
Joints == {"none", "space", "hyphen"}

\* normalize_number drops spaces and hyphens; normalize_text makes all of them a space,
\* and keeps it.
normalize_number(v) == v.letters
normalize_text(v) == <<"text", v.letters, v.joint # "none">>

Leading(v) == IF v.style \in DayFirst THEN v.day ELSE v.month
Following(v) == IF v.style \in DayFirst THEN v.month ELSE v.day

Date(month, day) == <<"date", month, day>>

\* strptime with the formats in their order: day first, and only if that is no date,
\* and only with slashes, month first; otherwise the digits as they come.
normalize_date(v) ==
  IF v.style \in ISO THEN Date(v.month, v.day)
  ELSE IF Leading(v) <= Days /\ Following(v) <= Months
       THEN Date(Following(v), Leading(v))
  ELSE IF v.style \in Slashed /\ Leading(v) <= Months /\ Following(v) <= Days
       THEN Date(Leading(v), Following(v))
  ELSE <<"digits", Leading(v), Following(v)>>

NumberFieldsLost == {}   \* mutant
NumberFields == {"number"}
DateFields == {"date_of_birth"}

normalize_field(f, v) ==
  CASE f \in NumberFields -> normalize_number(v)
    [] f \in DateFields -> normalize_date(v)
    [] OTHER -> normalize_text(v)

\* None for a field that is not there.
fields_hash(fields) ==
  [f \in FieldNames |-> IF fields[f] = None THEN None ELSE normalize_field(f, fields[f])]

seal_fields(fields) == IF EncKey THEN fields ELSE None

Hashes == {fields_hash(d) : d \in Documents}

\* What people write in the fields, all of it for one document number; and no field
\* that is given, nor what is hashed of it, is taken for one that is not.
Text == [letters : Letters, joint : Joints]
Written == [month : 1..Months, day : 1..Days, style : Styles]
IsSubmission(s) ==
  /\ s["number"] \in {v \in Text : v.letters = Number} \cup {None}
  /\ {s["full_name"], s["father_name"]} \subseteq Text \cup {None}
  /\ s["date_of_birth"] \in Written \cup {None}

ASSUME SubmissionAssumption ==
  /\ \A s \in Documents \cup Entries : IsSubmission(s)
  /\ None \notin Documents \cup Entries \cup Text \cup Written
  /\ \A v \in Text : None \notin {normalize_text(v), normalize_number(v)}
  /\ \A v \in Written : None # normalize_date(v)

-----------------------------------------------------------------------------

NoCheck == [phase |-> "idle", caller |-> None, entered |-> None, hash |-> None,
            as |-> 0, matched |-> FALSE]

\* as: which ingest the copy of the row is of.
Check == [phase : {"idle", "get", "compare", "answered"},
          caller : Callers \cup {None}, entered : Entries \cup {None},
          hash : Hashes \cup {None},
          as : 0..MaxIngests, matched : BOOLEAN]

IdvTypeOK ==
  /\ doc = None \/ /\ doc.hash \in Hashes
                   /\ doc.enc_fields \in Documents \cup {None}
  /\ check \in [Verifiers -> Check]
  /\ verified \in [Callers -> Entries \cup {None}]
  /\ ingested \in Seq(Documents) /\ Len(ingested) <= MaxIngests

IdvInit ==
  /\ doc = None
  /\ check = [w \in Verifiers |-> NoCheck]
  /\ verified = [c \in Callers |-> None]
  /\ ingested = << >>

\* What the row becomes: update_or_create replaces it as a whole.
RowOf(fields) == [hash |-> fields_hash(fields), enc_fields |-> seal_fields(fields)]

\* ingest_document, by an authorised operator; the number field is not optional.
\* update_or_create locks the row it updates, and updates the one it cannot insert.
Ingest(fields) ==
  /\ fields[number_field] # None
  /\ Len(ingested) < MaxIngests
  /\ doc' = RowOf(fields)
  /\ ingested' = Append(ingested, fields)
  /\ UNCHANGED <<check, verified>>

\* The number and the required fields must be there.
BeginVerify(w, c, entered) ==
  /\ check[w].phase = "idle"
  /\ \A f \in required_match \cup {number_field} : entered[f] # None
  /\ check' = [check EXCEPT ![w] = [NoCheck EXCEPT !.phase = "get", !.caller = c,
                                                   !.entered = entered]]
  /\ UNCHANGED <<doc, verified, ingested>>

\* Without a document the answer is 404.
GetDocument(w) ==
  /\ check[w].phase = "get"
  /\ check' = [check EXCEPT ![w] =
       IF doc = None THEN NoCheck
       ELSE [@ EXCEPT !.phase = "compare", !.hash = doc.hash, !.as = Len(ingested)]]
  /\ UNCHANGED <<doc, verified, ingested>>

\* per_field[f]: true, false, or null where the document has no such field.
per_field(q) ==
  [f \in {g \in FieldNames : q.entered[g] # None} |->
     IF q.hash[f] = None THEN "null"
     ELSE IF normalize_field(f, q.entered[f]) = q.hash[f] THEN "true" ELSE "false"]

MatchedIfNotContradicted(q) ==   \* mutant
  \A f \in DOMAIN per_field(q) : per_field(q)[f] # "false"

Matched(q) ==
  /\ \A f \in required_match : per_field(q)[f] = "true"
  /\ \A f \in DOMAIN per_field(q) : per_field(q)[f] # "false"

\* get_or_create of the verification.
Compare(w) ==
  /\ check[w].phase = "compare"
  /\ LET q == check[w]
     IN /\ verified' = IF Matched(q) /\ verified[q.caller] = None
                       THEN [verified EXCEPT ![q.caller] = q.entered] ELSE verified
        /\ check' = [check EXCEPT ![w] = [q EXCEPT !.phase = "answered", !.matched = Matched(q)]]
  /\ UNCHANGED <<doc, ingested>>

\* The answer has been read, or the worker has died.
EndVerify(w) ==
  /\ check[w].phase # "idle"
  /\ check' = [check EXCEPT ![w] = NoCheck]
  /\ UNCHANGED <<doc, verified, ingested>>

VerifyDocument(w) ==
  \/ \E c \in Callers, e \in Entries : BeginVerify(w, c, e)
  \/ GetDocument(w) \/ Compare(w) \/ EndVerify(w)

IdvNext == \/ \E fields \in Documents : Ingest(fields)
           \/ \E w \in Verifiers : VerifyDocument(w)

IdvSpec == IdvInit /\ [][IdvNext]_idvVars

-----------------------------------------------------------------------------

\* A writing that is read as meant: month-first dates are not when the day can be a
\* month, or when they are written with hyphens.
Clear(v) == v = None \/ normalize_date(v) = Date(v.month, v.day)
IsClear(fields) == Clear(fields["date_of_birth"])

\* Two people mean the same: name and date of birth, and whatever else both give.
\* (Anne Marie is not Annemarie.)
SameDate(v, u) == v # None /\ u # None /\ v.month = u.month /\ v.day = u.day
SameName(v, u) ==
  v # None /\ u # None /\ v.letters = u.letters /\ (v.joint = "none" <=> u.joint = "none")
Agree(stored, entered) ==
  /\ SameName(stored["full_name"], entered["full_name"])
  /\ SameDate(stored["date_of_birth"], entered["date_of_birth"])
  /\ None \in {stored["father_name"], entered["father_name"]}
     \/ SameName(stored["father_name"], entered["father_name"])

\* An answer says what the two people meant, however they wrote it, as long as neither
\* wrote a date that is read as another: and what was meant is the document as it was
\* when it was read, whatever has been ingested since.
MatchIsMeaning ==
  \A w \in Verifiers :
    LET q == check[w]
    IN q.phase = "answered" /\ IsClear(q.entered) /\ IsClear(ingested[q.as]) =>
         (q.matched <=> Agree(ingested[q.as], q.entered))

\* A verification was earned: a document that was stored at some time agrees with what
\* its holder entered, unless one of the two has a date that is not clear.  (It need not
\* be the one stored now.)
VerifiedWasStored ==
  \A c \in Callers :
    verified[c] # None =>
      \E i \in DOMAIN ingested :
        \/ Agree(ingested[i], verified[c])
        \/ ~IsClear(ingested[i]) \/ ~IsClear(verified[c])

\* What is sealed and what is hashed are of one ingest, the last; a copy is of one.
CopiesAgree ==
  /\ doc # None => /\ ingested # << >>
                   /\ doc = RowOf(ingested[Len(ingested)])
  /\ \A w \in Verifiers :
       LET q == check[w]
       IN /\ q.phase = "idle" <=> q.entered = None
          /\ q.phase # "idle" => \A f \in required_match : q.entered[f] # None
          /\ q.phase \in {"compare", "answered"} =>
               /\ q.as \in DOMAIN ingested
               /\ q.hash = fields_hash(ingested[q.as])
          /\ q.phase = "answered" => q.matched = Matched(q)

IdvInv == IdvTypeOK /\ CopiesAgree /\ VerifiedWasStored
=============================================================================
