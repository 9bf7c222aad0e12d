----------------------------- MODULE RangeParser ----------------------------
(***************************************************************************)
(* parse_range_header (range_parser.py): which bytes of a file of `total`  *)
(* bytes a Range header asks for.                                          *)
(*                                                                         *)
(* A header is what the string splits into: whether the unit is bytes,     *)
(* whether there is a comma and a dash, and the texts on both sides of the *)
(* first dash.  A text is an integer, blank, or no integer at all; only    *)
(* the second one can be negative, since the first one ends at a dash.     *)
(***************************************************************************)
EXTENDS Integers

CONSTANTS
  None,           \* no header, or one that is all blanks
  Blank,          \* an empty text
  NotInt,         \* a text that int() refuses
  Unsatisfiable   \* RangeNotSatisfiable is raised

ASSUME TextAssumption ==
  /\ Blank \notin Int /\ NotInt \notin Int /\ Blank # NotInt

Headers == [bytes : BOOLEAN, multi : BOOLEAN, dash : BOOLEAN,
            first : Nat \cup {Blank, NotInt}, last : Int \cup {Blank, NotInt}]

ASSUME HeaderAssumption == None \notin Headers

ByteRanges == [start : Nat, end : Nat, total : Nat]

ASSUME OutcomeAssumption ==
  None \notin ByteRanges /\ Unsatisfiable \notin ByteRanges /\ None # Unsatisfiable

Length(range) == range.end - range.start + 1

\* Mutant: the end taken for an exclusive bound.
IsFullFile_Exclusive(range) == range.start = 0 /\ range.end = range.total

IsFullFile(range) == range.start = 0 /\ range.end = range.total - 1

\* A header of one of the three supported forms: N-M, N- and -N.
WellFormed(h) ==
  /\ h.bytes /\ ~h.multi /\ h.dash
  /\ NotInt \notin {h.first, h.last}
  /\ ~(h.first = Blank /\ h.last = Blank)

\* Mutant: a suffix longer than the file is not clamped.
Start_NoClamp(h, total) == IF h.first # Blank THEN h.first ELSE total - h.last

\* The offsets a well-formed header names, before they are checked.
Start(h, total) ==
  IF h.first # Blank THEN h.first
  ELSE IF h.last > total THEN 0 ELSE total - h.last

End(h, total) ==
  IF h.first = Blank \/ h.last = Blank THEN total - 1 ELSE h.last

InFile(h, total) ==
  /\ total # 0
  /\ h.first = Blank => h.last > 0
  /\ End(h, total) >= 0
  /\ Start(h, total) <= End(h, total)
  /\ Start(h, total) < total

\* Mutant: an end past the file is not clamped.
ParseRange_NoClamp(h, total) ==
  IF h = None THEN None
  ELSE IF WellFormed(h) /\ InFile(h, total)
       THEN [start |-> Start(h, total), end |-> End(h, total), total |-> total]
       ELSE Unsatisfiable

ParseRange(h, total) ==
  IF h = None THEN None
  ELSE IF WellFormed(h) /\ InFile(h, total)
       THEN [start |-> Start(h, total),
             end   |-> IF End(h, total) < total THEN End(h, total) ELSE total - 1,
             total |-> total]
       ELSE Unsatisfiable

-----------------------------------------------------------------------------
(***************************************************************************)
(* What RFC 9110 says a range selects, form by form, as a set of offsets.  *)
(***************************************************************************)

Selected(h, total) ==
  {i \in 0..(total - 1) :
     IF h.first = Blank THEN i >= total - h.last
     ELSE IF h.last = Blank THEN i >= h.first
     ELSE h.first <= i /\ i <= h.last}

\* The parser accepts a well-formed header exactly when it selects a byte of
\* the file, and the range it returns is the bytes selected, all of them in
\* the file (range_parser.py:44-116 with its suffix, open and clamped forms).
ParsesAsSelected(h, total) ==
  LET range == ParseRange(h, total)
  IN IF WellFormed(h) /\ Selected(h, total) # {}
     THEN range \in ByteRanges /\ range.start..range.end = Selected(h, total)
     ELSE range = Unsatisfiable

=============================================================================
