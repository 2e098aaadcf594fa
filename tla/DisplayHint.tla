----------------------------- MODULE DisplayHint -----------------------------
(***************************************************************************)
(* DISPLAY-HINTs, src/src/mib/display_hint.rs: the parser that decides     *)
(* whether a hint is valid, and the formatters, which read the text of a   *)
(* hint again on their own and only as far as the value takes them.  A     *)
(* hint is a sequence of characters.  How a chunk of octets is spelled is  *)
(* left out, and so that format t drops octets which are no characters: a  *)
(* piece of the text is the chunk and the format it is shown in, or a      *)
(* separator or terminator.  Of integers the sign is left out.             *)
(***************************************************************************)
EXTENDS Naturals, Sequences, FiniteSets

CONSTANTS
  U32Max,     \* the largest length of a segment that parses
  UsizeMax    \* the largest one that the formatter can count

ASSUME HintAssumption == U32Max \in Nat /\ UsizeMax \in Nat /\ U32Max <= UsizeMax

Digits == [c \in {"0", "1", "2", "3", "4", "5", "6", "7", "8", "9"} |->
  CASE c = "0" -> 0 [] c = "1" -> 1 [] c = "2" -> 2 [] c = "3" -> 3 [] c = "4" -> 4
    [] c = "5" -> 5 [] c = "6" -> 6 [] c = "7" -> 7 [] c = "8" -> 8 [] c = "9" -> 9]
IsDigit(c) == c \in DOMAIN Digits

Value(s) ==
  LET upTo[k \in 0 .. Len(s)] == IF k = 0 THEN 0 ELSE 10 * upTo[k - 1] + Digits[s[k]]
  IN upTo[Len(s)]
IsNumber(s) == s # <<>> /\ \A k \in DOMAIN s : IsDigit(s[k])

------------------------------------------------------------------------------
(* Integers: a letter, or "d-" and the number of decimal places. *)

Letters == {"d", "x", "o", "b"}
Rest(hint) == SubSeq(hint, 3, Len(hint))
Pointed(hint) == Len(hint) > 1 /\ hint[1] = "d" /\ hint[2] = "-"

\* The parser wants digits and a number of eight bits; the formatters take whatever the
\* library reads as a number, a sign before it included, up to limits of their own.
parse_integer_hint(hint) ==
  \/ Len(hint) = 1 /\ hint[1] \in Letters
  \/ Pointed(hint) /\ IsNumber(Rest(hint)) /\ Value(Rest(hint)) <= 255

Unsigned(s) == IF s # <<>> /\ s[1] = "+" THEN Tail(s) ELSE s
Places(hint, limit) ==
  /\ Pointed(hint) /\ IsNumber(Unsigned(Rest(hint)))
  /\ Value(Unsigned(Rest(hint))) <= limit

format_decimal_with_point(digits, places) ==
  LET before == Len(digits) - places
  IN IF before <= 0 THEN <<"0", ".">> \o [k \in 1 .. 0 - before |-> "0"] \o digits
     ELSE SubSeq(digits, 1, before) \o <<".">> \o SubSeq(digits, before + 1, Len(digits))

\* The text of an integer whose digits, in the base the letter asks for, are given;
\* no text at all if the hint is refused.
MaxPlaces == 100
format_integer(hint, digits) ==
  CASE Len(hint) = 1 /\ hint[1] \in Letters -> digits
    [] Places(hint, MaxPlaces) ->
         LET places == Value(Unsigned(Rest(hint)))
         IN IF places = 0 THEN digits ELSE format_decimal_with_point(digits, places)
    [] OTHER -> <<>>

\* Whether an integer can be scaled to a number.
MaxScale == 20
scale_integer(hint) == hint = <<"d">> \/ Places(hint, MaxScale)

------------------------------------------------------------------------------
(* Octet strings: a sequence of segments, the last of which is repeated. *)

OctetFormats == {"d", "x", "o", "a", "t"}

\* A separator or terminator is neither a digit nor the star of the next segment.
Free(hint, p) == p <= Len(hint) /\ hint[p] # "*" /\ ~ IsDigit(hint[p])

\* The segment at p: an optional star, a length, a format, an optional separator, and
\* behind a star a terminator, which for the parser needs a separator before it.
Segment(hint, p, limit, lone) ==
  LET star   == hint[p] = "*"
      from   == IF star THEN p + 1 ELSE p
      to     == CHOOSE q \in from .. Len(hint) + 1 :
                  /\ \A r \in from .. q - 1 : IsDigit(hint[r])
                  /\ q <= Len(hint) => ~ IsDigit(hint[q])
      length == Value(SubSeq(hint, from, to - 1))
      sep    == Free(hint, to + 1)
      after  == IF sep THEN to + 2 ELSE to + 1
      term   == star /\ (lone \/ sep) /\ Free(hint, after)
  IN [ok |-> /\ from < to /\ length <= limit
             /\ to <= Len(hint) /\ hint[to] \in OctetFormats,
      repeat |-> star, length |-> length,
      format |-> IF to <= Len(hint) THEN hint[to] ELSE "",
      separator |-> IF sep THEN <<hint[to + 1]>> ELSE <<>>,
      terminator |-> IF term THEN <<hint[after]>> ELSE <<>>,
      next |-> IF term THEN after + 1 ELSE after]

\* A segment that takes no octets may not be the last: it would be repeated forever.
Consumes(segment) == segment.repeat \/ segment.length > 0

\* The segments one after another, up to the first that does not parse.
Segments(hint) ==
  LET from[p \in Nat] ==
        LET s == Segment(hint, p, U32Max, FALSE)
        IN IF p > Len(hint) THEN <<>> ELSE IF s.ok THEN <<s>> \o from[s.next] ELSE <<s>>
  IN from[1]

\* Mutant: what the last segment takes is not looked at.
AnySegments(hint) ==
  LET segments == Segments(hint)
  IN segments # <<>> /\ segments[Len(segments)].ok

\* The validator walks the hint again in the same way, without keeping the segments.
is_valid_octet_string_hint(hint) ==
  LET segments == Segments(hint)
  IN /\ segments # <<>>
     /\ segments[Len(segments)].ok /\ Consumes(segments[Len(segments)])

------------------------------------------------------------------------------

\* Numbers of more octets than this are not shown.
MaxNumberOctets == 8

Piece(format, octets) == [format |-> format, octets |-> octets]
Sign(chars) == [k \in DOMAIN chars |-> Piece("sign", <<>>)]

\* The groups of a segment from the octet i on, each the r-th.
Repetitions(s, data, i, count) ==
  LET from[j \in Nat, r \in Nat] ==
        LET end   == IF j + s.length > Len(data) THEN Len(data) + 1 ELSE j + s.length
            chunk == SubSeq(data, j, end - 1)
            sep   == /\ end <= Len(data)
                     /\ s.terminator = <<>> \/ r # count
        IN IF r > count \/ j > Len(data) THEN [ok |-> TRUE, text |-> <<>>, at |-> j]
           ELSE IF s.format \in {"d", "o"} /\ Len(chunk) > MaxNumberOctets
           THEN [ok |-> FALSE, text |-> <<>>, at |-> j]
           ELSE [from[end, r + 1] EXCEPT !.text = <<Piece(s.format, chunk)>>
                                                  \o (IF sep THEN Sign(s.separator) ELSE <<>>) \o @]
  IN from[i, 1]

\* The text of the octets from i on: the segment is read at p of the hint, or when the
\* hint is used up the one at last is read again.  Counts are the octets that say how often.
format_octets(hint, data) ==
  LET refused == [ok |-> FALSE, text |-> <<>>, counts |-> {}]
      from[p \in Nat, last \in Nat, i \in Nat] ==
        LET here  == IF p > Len(hint) THEN last ELSE p
            s     == Segment(hint, here, UsizeMax, TRUE)
            count == IF s.repeat THEN data[i] ELSE 1
            g     == Repetitions(s, data, IF s.repeat THEN i + 1 ELSE i, count)
            rest  == from[IF p > Len(hint) THEN p ELSE s.next, here, g.at]
        IN IF i > Len(data) THEN [ok |-> TRUE, text |-> <<>>, counts |-> {}]
           ELSE IF ~ s.ok \/ (p > Len(hint) /\ ~ Consumes(s)) \/ ~ g.ok \/ ~ rest.ok THEN refused
           ELSE [ok |-> TRUE,
                 text |-> g.text \o (IF g.at <= Len(data) THEN Sign(s.terminator) ELSE <<>>) \o rest.text,
                 counts |-> rest.counts \cup (IF s.repeat THEN {i} ELSE {})]
  IN IF hint = <<>> \/ data = <<>> THEN refused ELSE from[1, 1, 1]

==============================================================================
