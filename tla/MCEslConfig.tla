---------------------------- MODULE MCEslConfig ----------------------------
(***************************************************************************)
(* What the configuration reader of EslConfig promises of a file, a line   *)
(* or a list of CAS bits, which is s.                                      *)
(***************************************************************************)
EXTENDS MCEslText, EslConfig

CONSTANT Section   \* the names of sections in a configuration file

(* A file without a name is not opened.                                    *)
ASSUME SectionAssumption == "" \notin Section

Line == [kind : {"section"}, name : Section]
          \cup [kind : {"category", "comment", "end", "junk", "pair"}, name : {None}]

-----------------------------------------------------------------------------
(* Configuration files.                                                    *)
Kinds(k) == {i \in DOMAIN s : s[i].kind = k}
SmallestOf(S, default) ==
  IF S = {} THEN default ELSE CHOOSE i \in S : \A j \in S : i <= j

(* The lines in front of the first __END__ at or after line p.             *)
EndAfter(p) == SmallestOf({i \in Kinds("end") : i >= p}, Len(s) + 1)

(* The places of the assignments between p and q.                         *)
PairsBetween(p, q) ==
  LET upto[n \in 0 .. Len(s)] ==
        IF n = 0 THEN <<>>
        ELSE IF p < n /\ s[n].kind = "pair" THEN Append(upto[n - 1], n) ELSE upto[n - 1]
  IN upto[q - 1]

(* A line that is no assignment spoils an __END__ or a header behind it    *)
(* when only comments and categories are between the two: the result is    *)
(* then -1 instead of 0.                                                   *)
Spoilt(e) ==
  \E j \in Kinds("junk") :
    j < e /\ \A i \in j + 1 .. e - 1 : s[i].kind \in {"junk", "comment", "category"}

Strict == {1}
Lenient == {1, -1}

(* A reader that stops at any result but 1 gets every pair in front of the *)
(* first __END__ and nothing behind it; one that stops only at 0 gets the  *)
(* same unless that __END__ is spoilt.                                     *)
NothingBehindEnd ==
  kind = "file" =>
    LET e == EndAfter(1)
    IN /\ Readings(s, NewConfig, Strict) = PairsBetween(0, e)
       /\ ~Spoilt(e) => Readings(s, NewConfig, Lenient) = PairsBetween(0, e)

(* A reader locked to a section, when the common file stands in for one of *)
(* its own: the first section of that name opens, also when another has    *)
(* the same name, and its reader gets the pairs of that section alone.     *)
LockedToItsSection ==
  kind = "file" => \A name \in Section :
    LET e == EndAfter(1)
        h == SmallestOf({i \in Kinds("section") : i < e /\ s[i].name = name}, 0)
        stop == SmallestOf({i \in Kinds("section") : i > h}, Len(s) + 1)
        last == IF stop < EndAfter(h) THEN stop ELSE EndAfter(h)
        o == OpenedShared(s, name)
    IN ~Spoilt(e) =>
         /\ o.open <=> h # 0
         /\ h # 0 => Readings(s, o.cfg, Strict) = PairsBetween(h, last)
         /\ h # 0 /\ ~Spoilt(last) => Readings(s, o.cfg, Lenient) = PairsBetween(h, last)

(* A line as fgets gives it and the reader takes it for an assignment.     *)
IsLine == /\ s # <<>> /\ s[1] \notin {";", LineFeed, Return}
          /\ \A i \in DOMAIN s : s[i] = LineFeed => i = Len(s)

(* part is whole without blanks at either end.                             *)
TrimOf(part, whole) ==
  \E a, b \in 0 .. Len(whole) :
    /\ part = SubSeq(whole, a + 1, b)
    /\ \A i \in DOMAIN whole : i <= a \/ b < i => Blank(whole[i])

Ends(t, ch) == t # <<>> /\ Last(t) = ch

(* The line without its comment and its line ending.                       *)
Commented == LET i == FirstOf(s, ";") IN i > 0 /\ i < Len(s) /\ s[i + 1] = ";"
Shown ==
  CASE Commented -> SubSeq(s, 1, FirstOf(s, ";") - 1)
    [] ~Commented /\ Ends(s, LineFeed) -> IF Ends(Front(s), Return) THEN Front(Front(s)) ELSE Front(s)
    [] OTHER -> s

(* The name is what is left of the first equals sign in front of a comment *)
(* and the value what is right of it or of its arrow.  The name has no     *)
(* blanks around it.  The value has none in front of it, except that a     *)
(* value of blanks alone in front of a comment keeps the last one.         *)
PairIsClean ==
  kind = "line" /\ IsLine =>
    LET p == Pair(s)
        eq == FirstOf(Shown, "=")
        right == SubSeq(Shown, eq + 1, Len(Shown))
    IN /\ p.ok <=> eq # 0
       /\ p.ok =>
            /\ TrimOf(p.var, SubSeq(Shown, 1, eq - 1))
            /\ TrimOf(p.val, IF right # <<>> /\ Head(right) = ">" THEN Tail(right) ELSE right)
            /\ p.var # <<>> => ~Blank(p.var[1]) /\ ~Blank(Last(p.var))
            /\ p.val # <<>> => ~Blank(p.val[1]) \/ (Commented /\ Len(p.val) = 1)

(* The four CAS bits are read as a binary number, the highest bit first.   *)
CasBitsAreBinary ==
  kind = "cas" =>
    LET colon == FirstOf(s, ":")
        bit(i) == IF s[colon + i] = "1" THEN 1 ELSE 0
    IN CasBits(s) =
         IF colon # 0 /\ colon + 4 <= Len(s)
              /\ \A i \in 1 .. 4 : s[colon + i] \in {"0", "1"}
         THEN ((2 * bit(1) + bit(2)) * 2 + bit(3)) * 2 + bit(4)
         ELSE -1
=============================================================================
