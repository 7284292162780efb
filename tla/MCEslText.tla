----------------------------- MODULE MCEslText -----------------------------
(***************************************************************************)
(* What the string helpers of EslText promise of the text s, or of the two *)
(* texts that s is made of.                                                *)
(***************************************************************************)
EXTENDS MCEslPackets, EslText

(* One letter, one that overlaps itself, and one of two letters.           *)
Delimiter == {<<97>>, <<97, 97>>, <<97, 98>>}

(* The sizes of output buffers, from none to one that holds everything.    *)
Capacity == 0 .. 3 * Len(s) + 2

(* However small the buffer, esl_url_encode stays inside it and never cuts *)
(* an escape: what is decoded again is the beginning of the string.        *)
EncodesPrefix ==
  kind = "text" => \A n \in Capacity :
    LET e == UrlEncoded(s, n)
    IN (n > 0 => Len(e) < n) /\ IsPrefix(UrlDecoded(e), s)

(* What the serialization of a header relies on ("3x the string ... also   *)
(* add one for the null"): in 3 n + 1 bytes a value of n bytes survives    *)
(* encoding and decoding, except that a value of escapes alone loses its   *)
(* last byte; one byte more would do.                                      *)
ValueSurvives ==
  kind = "text" =>
    LET back(n) == UrlDecoded(UrlEncoded(s, n))
    IN /\ back(3 * Len(s) + 2) = s
       /\ (\E i \in DOMAIN s : ~Unsafe(s[i])) => back(3 * Len(s) + 1) = s
       /\ back(3 * Len(s) + 1) \in {s, Front(s)}

(* esl_stristr finds the first place where the pattern is, letters         *)
(* compared without their case, although it gives up at the end of the     *)
(* string and starts again inside what it has compared.                    *)
FindsFirst ==
  LET low(t) == [i \in DOMAIN t |-> ToLower(t[i])]
  IN kind = "search" => \A k \in 0 .. Len(s) :
       LET pattern == SubSeq(s, 1, k)
           text == SubSeq(s, k + 1, Len(s))
       IN Stristr(pattern, text) =
            IF k = 0 THEN 0 ELSE FirstPlace(low(text), low(pattern))

(* esl_separate_string_string loses nothing: the pieces with delimiters    *)
(* between them are the string, and only the last piece, when the array is *)
(* full, contains delimiters itself.                                       *)
Rejoins ==
  kind = "search" => \A delim \in Delimiter, n \in 1 .. Len(s) + 1 :
    LET pieces == Separated(s, delim, n)
        joined[i \in DOMAIN pieces] ==
          IF i = Len(pieces) THEN pieces[i] ELSE pieces[i] \o delim \o joined[i + 1]
    IN /\ joined[1] = s
       /\ Len(pieces) <= n
       /\ \A i \in DOMAIN pieces :
            FirstPlace(pieces[i], delim) = 0 \/ (i = n /\ i = Len(pieces))
=============================================================================
