------------------------------ MODULE EslText ------------------------------
(***************************************************************************)
(* The string helpers of src/src/esl.c: URL coding of header values, the   *)
(* search that ignores case, and the cutting of array headers.  A string   *)
(* is a sequence of bytes without its final NUL; a byte is its number.     *)
(* Separated also serves for strings made of larger pieces (EslEvent).     *)
(***************************************************************************)
EXTENDS Integers, SequencesExt

PERCENT == 37

HexDigit == [n \in 0 .. 15 |-> IF n < 10 THEN 48 + n ELSE 55 + n]

(* Bug: the percent sign itself is left as it is.                          *)
UnsafeButPercent(c) ==
  \/ c < 32 \/ c > 126
  \/ c \in {32, 34, 35, 38, 43, 96} \cup 58 .. 64 \cup 91 .. 94 \cup 123 .. 125

(* Control characters, bytes above "~" and the list urlunsafe.             *)
Unsafe(c) ==
  \/ c < 32 \/ c > 126
  \/ c \in {32, 34, 35, 37, 38, 43, 96} \cup 58 .. 64 \cup 91 .. 94 \cup 123 .. 125

Escape(c) == <<PERCENT, HexDigit[c \div 16], HexDigit[c % 16]>>

(* Bug: room for an escape is taken for granted once one byte is left.     *)
FitsUnchecked(c, x, room) == x < room

(* Whether what stands for c may follow x bytes when room bytes can be     *)
(* written in front of the NUL.  An escape that would end at the last of   *)
(* them is refused, too.                                                   *)
Fits(c, x, room) == x < room /\ (Unsafe(c) => x + 3 < room)

(* What stands for c.                                                      *)
Coded(c) == IF Unsafe(c) THEN Escape(c) ELSE <<c>>

(* esl_url_encode into a buffer of len bytes: it stops at the first byte   *)
(* that does not fit.                                                      *)
UrlEncoded(url, len) ==
  LET all[i \in 0 .. Len(url)] == IF i = 0 THEN <<>> ELSE all[i - 1] \o Coded(url[i])
      stops == {i \in 0 .. Len(url) - 1 : ~Fits(url[i + 1], Len(all[i]), len - 1)}
  IN IF len = 0 THEN <<>>
     ELSE all[CHOOSE i \in stops \cup {Len(url)} : \A j \in stops : i <= j]

IsHex(c) == c \in 48 .. 57 \cup 97 .. 102 \cup 65 .. 70

Nibble(c) == CASE c \in 48 .. 57 -> c - 48
               [] c \in 97 .. 102 -> c - 87
               [] c \in 65 .. 70 -> c - 55

EscapeAt(s, i) ==
  s[i] = PERCENT /\ i + 2 <= Len(s) /\ IsHex(s[i + 1]) /\ IsHex(s[i + 2])

(* esl_url_decode.  The decoded string ends where an escape gives a NUL.   *)
UrlDecoded(s) ==
  LET from[i \in 1 .. Len(s) + 3] ==
        IF i > Len(s) THEN <<>>
        ELSE IF EscapeAt(s, i)
        THEN LET c == 16 * Nibble(s[i + 1]) + Nibble(s[i + 2])
             IN IF c = 0 THEN <<>> ELSE <<c>> \o from[i + 3]
        ELSE <<s[i]>> \o from[i + 1]
  IN from[1]

-----------------------------------------------------------------------------
(* The tables _esl_C_toupper_ and _esl_C_tolower_ for the values of a byte.*)
ToUpper(c) == IF c \in 97 .. 122 THEN c - 32 ELSE c
ToLower(c) == IF c \in 65 .. 90 THEN c + 32 ELSE c

(* Bug: after a partial match the search goes on behind it.                *)
ResumeBehind(start, matched) == IF matched = 0 THEN start + 1 ELSE start + matched

(* Where the search starts again when matched bytes agreed at start.       *)
Resume(start, matched) == start + 1

(* esl_stristr: where instr is in str, 0 when it is not found.  The loop   *)
(* gives up as soon as str ends inside a partial match.                    *)
Stristr(instr, str) ==
  LET same(start, m) == /\ m < Len(instr) /\ start + m <= Len(str)
                        /\ ToUpper(str[start + m]) = ToUpper(instr[m + 1])
      agree(start) == CHOOSE m \in 0 .. Len(instr) :
                        ~same(start, m) /\ \A l \in 0 .. m - 1 : same(start, l)
      from[start \in 1 .. Len(str) + Len(instr) + 1] ==
        IF start > Len(str) THEN 0
        ELSE LET m == agree(start)
             IN IF m = Len(instr) THEN start
                ELSE IF m > 0 /\ start + m > Len(str) THEN 0
                ELSE from[Resume(start, m)]
  IN IF instr = <<>> THEN 0 ELSE from[1]

-----------------------------------------------------------------------------
(* strstr: the first place of delim in s, 0 when there is none.            *)
FirstPlace(s, delim) ==
  LET places == {i \in 1 .. Len(s) - Len(delim) + 1 :
                   SubSeq(s, i, i + Len(delim) - 1) = delim}
  IN IF places = {} THEN 0 ELSE CHOOSE i \in places : \A j \in places : i <= j

(* Bug: the piece behind a delimiter still begins with its last byte.      *)
BehindShort(place, delim) == place + Len(delim) - 1

Behind(place, delim) == place + Len(delim)

(* esl_separate_string_string into an array of arraylen places: when they  *)
(* run out the last one has the rest of the string, delimiters included.   *)
Separated(buf, delim, arraylen) ==
  LET cut[n \in 1 .. arraylen] ==
        [p \in 1 .. Len(buf) + 1 |->
           LET s == SubSeq(buf, p, Len(buf))
               i == FirstPlace(s, delim)
           IN IF n = 1 \/ i = 0 THEN <<s>>
              ELSE <<SubSeq(s, 1, i - 1)>> \o cut[n - 1][Behind(p + i - 1, delim)]]
  IN IF arraylen = 0 \/ delim = <<>> THEN <<>> ELSE cut[arraylen][1]
=============================================================================
