----------------------------- MODULE LastUpdated -----------------------------
(***************************************************************************)
(* LAST-UPDATED timestamps and their order: normalize_timestamp and        *)
(* days_in_month of src/src/mib/resolver/util.rs.  The import, OID and     *)
(* semantic phases compare module versions by them.                        *)
(***************************************************************************)
EXTENDS Naturals

\* A LAST-UPDATED text: its length, and its fields when it is all digits and "Z".
Timestamps == [length : Nat, digits : BOOLEAN, year : Nat, month : Nat,
               day : Nat, hour : Nat, minute : Nat]

\* Two-digit years are windowed: 70..99 are 1970..1999.
FullYear(ts) == IF ts.length = 13 THEN ts.year
                ELSE IF ts.year >= 70 THEN 1900 + ts.year ELSE 2000 + ts.year

LeapYear(y) == (y % 4 = 0 /\ y % 100 # 0) \/ y % 400 = 0

days_in_month(y, month) ==
  CASE month \in {1, 3, 5, 7, 8, 10, 12} -> 31
    [] month \in {4, 6, 9, 11} -> 30
    [] month = 2 -> IF LeapYear(y) THEN 29 ELSE 28
    [] OTHER -> 0

Valid(ts) ==
  /\ ts.length \in {11, 13} /\ ts.digits
  /\ ts.month \in 1 .. 12
  /\ ts.day # 0 /\ ts.day <= days_in_month(FullYear(ts), ts.month)
  /\ ts.hour <= 23 /\ ts.minute <= 59

\* The thirteen characters of a normalized timestamp, cut into the date and the
\* time; the empty string an invalid one yields compares below them all.
normalize_timestamp(ts) ==
  [date |-> IF Valid(ts) THEN ts.day + 100 * (ts.month + 100 * FullYear(ts)) ELSE 0,
   time |-> IF Valid(ts) THEN ts.minute + 100 * ts.hour ELSE 0]

Later(s, t) == s.date > t.date \/ (s.date = t.date /\ s.time > t.time)

==============================================================================
