----------------------------- MODULE EslConfig -----------------------------
(***************************************************************************)
(* The configuration reader of src/src/esl_config.c.  A file is a sequence *)
(* of lines, each a record of its kind and its name; what is inside a line *)
(* with an assignment is the subject of Pair, at the level of characters.  *)
(* A line is taken to fit into cfg->buf.                                   *)
(***************************************************************************)
EXTENDS Integers, SequencesExt

None == "none"

(* esl_config_t: pos counts the lines taken from the file.                 *)
NewConfig == [pos |-> 0, lineno |-> 0, section |-> "", sectno |-> 0, catno |-> 0,
              lockto |-> -1]

(* Bug: the lock compares names, and a section may come twice.             *)
LockedOutByName(cfg, name) == cfg.lockto > -1 /\ cfg.section # name

(* A reader locked to a section stops at the header of any other.  cfg is  *)
(* the reader before it counts this header.                                *)
LockedOut(cfg, name) == cfg.lockto > -1 /\ cfg.sectno + 1 # cfg.lockto

(* Bug: a line that is no assignment is taken for the end.                 *)
TakenGivingUp(acc, line) ==
  IF acc.done THEN acc
  ELSE [acc EXCEPT !.cfg.pos = @ + 1, !.done = TRUE,
                   !.ret = IF line.kind = "pair" THEN 1 ELSE -1,
                   !.pair = IF line.kind = "pair" THEN acc.cfg.pos + 1 ELSE 0]

(* One turn of the loop of esl_config_next_pair.  ret keeps the complaint  *)
(* about a line that is no assignment until something else is returned;    *)
(* pair is the place of the assignment that is returned, 0 for none.       *)
Taken(acc, line) ==
  LET cfg == [acc.cfg EXCEPT !.pos = @ + 1, !.lineno = @ + 1]
      next == [acc EXCEPT !.cfg = cfg]
      found == [next EXCEPT !.ret = 1, !.done = TRUE]
      header == [cfg EXCEPT !.section = line.name, !.sectno = @ + 1]
  IN CASE acc.done -> acc
       [] ~acc.done /\ line.kind = "section" ->
            IF LockedOut(cfg, line.name)
            THEN [next EXCEPT !.cfg = header, !.done = TRUE]
            ELSE [found EXCEPT !.cfg = [header EXCEPT !.catno = 0, !.lineno = 0]]
       [] ~acc.done /\ line.kind = "category" -> [next EXCEPT !.cfg.catno = @ + 1]
       [] ~acc.done /\ line.kind = "comment" -> next
       [] ~acc.done /\ line.kind = "end" -> [next EXCEPT !.done = TRUE]
       [] ~acc.done /\ line.kind = "junk" -> [next EXCEPT !.ret = -1]
       [] ~acc.done /\ line.kind = "pair" -> [found EXCEPT !.pair = cfg.pos]

(* esl_config_next_pair: the end of the file forgets a complaint.          *)
NextPair(file, cfg) ==
  LET n == Len(file) - cfg.pos
      after[i \in 0 .. n] ==
        IF i = 0 THEN [cfg |-> cfg, ret |-> 0, done |-> FALSE, pair |-> 0]
        ELSE Taken(after[i - 1], file[cfg.pos + i])
      r == after[n]
  IN IF r.done THEN r ELSE [r EXCEPT !.ret = 0, !.cfg.lineno = @ + 1]

(* A caller that reads on while the result is one of more, and keeps the   *)
(* assignments that it gets.                                               *)
ReadOn(file, more, acc) ==
  LET r == NextPair(file, acc.cfg)
  IN CASE acc.over -> acc
       [] ~acc.over /\ r.ret \notin more -> [acc EXCEPT !.over = TRUE]
       [] OTHER -> [cfg |-> r.cfg, over |-> FALSE,
                    got |-> IF r.pair = 0 THEN acc.got ELSE Append(acc.got, r.pair)]

(* What it gets.  Every call but the last takes a line.                    *)
Readings(file, cfg, more) ==
  LET n == Len(file) + 1
      after[i \in 0 .. n] ==
        IF i = 0 THEN [cfg |-> cfg, over |-> FALSE, got |-> <<>>]
        ELSE ReadOn(file, more, after[i - 1])
  IN after[n].got

(* One turn of the loop of esl_config_open_file over the common file,      *)
(* which looks for a section with the name of the file that is not there.  *)
SearchOn(file, name, acc) ==
  LET r == NextPair(file, acc.cfg)
  IN CASE acc.over -> acc
       [] ~acc.over /\ r.ret = 0 -> [acc EXCEPT !.over = TRUE]
       [] OTHER -> IF r.cfg.section = name
                   THEN [cfg |-> [r.cfg EXCEPT !.lockto = r.cfg.sectno], over |-> TRUE, open |-> TRUE]
                   ELSE [acc EXCEPT !.cfg = r.cfg]

(* esl_config_open_file with a name that is no path, when only the common  *)
(* file exists.                                                            *)
OpenedShared(file, name) ==
  LET n == Len(file) + 1
      after[i \in 0 .. n] ==
        IF i = 0 THEN [cfg |-> NewConfig, over |-> FALSE, open |-> FALSE]
        ELSE SearchOn(file, name, after[i - 1])
  IN after[n]

-----------------------------------------------------------------------------
(* The characters of one line.                                             *)
Blank(ch) == ch = " "
LineFeed == "\n"
Return == "\r"

FirstOf(line, ch) ==
  IF \E i \in DOMAIN line : line[i] = ch
  THEN CHOOSE i \in DOMAIN line : line[i] = ch /\ \A j \in 1 .. i - 1 : line[j] # ch
  ELSE 0

(* Where the text of a line stops and the pointer end of the code, which   *)
(* is null on a last line without a line feed.                             *)
TextOf(line) ==
  LET semi == FirstOf(line, ";")
      lf == FirstOf(line, LineFeed)
      stop == IF lf > 1 /\ line[lf - 1] = Return THEN lf - 1 ELSE lf
  IN IF semi > 0 /\ semi < Len(line) /\ line[semi + 1] = ";"
     THEN [text |-> SubSeq(line, 1, semi - 1), end |-> semi - 1]
     ELSE IF lf > 0 THEN [text |-> SubSeq(line, 1, stop - 1), end |-> stop]
     ELSE [text |-> line, end |-> 0]

(* The first place from p on that is no blank, or end.                     *)
PastBlanks(text, p, end) ==
  CHOOSE q \in p .. Len(text) + 1 :
    /\ \A i \in p .. q - 1 : Blank(text[i]) /\ i # end
    /\ q > Len(text) \/ ~Blank(text[q]) \/ q = end

(* Bug: the blanks in front of the equals sign stay with the name.         *)
UntrimmedRight(text) == text

TrimmedRight(text) ==
  LET kept == {i \in DOMAIN text : ~Blank(text[i])}
  IN SubSeq(text, 1, IF kept = {} THEN 0 ELSE CHOOSE i \in kept : \A j \in kept : j <= i)

(* The assignment in a line: name and value, or FALSE when there is none.  *)
Pair(line) ==
  LET t == TextOf(line)
      v == PastBlanks(t.text, 1, t.end)
      rest == SubSeq(t.text, v, Len(t.text))
      eq == v - 1 + FirstOf(rest, "=")
      arrow == eq < Len(t.text) /\ t.text[eq + 1] = ">"
      p == PastBlanks(t.text, IF arrow THEN eq + 2 ELSE eq + 1, t.end)
  IN IF FirstOf(rest, "=") = 0 THEN [ok |-> FALSE]
     ELSE [ok |-> TRUE, var |-> TrimmedRight(SubSeq(t.text, v, eq - 1)),
           val |-> SubSeq(t.text, p, Len(t.text))]

(* Bug: the first character is the lowest bit.                             *)
WeightReversed(i) == <<1, 2, 4, 8>>[i]

(* bit, which starts as 0x8 and is shifted to the right.                   *)
Weight(i) == <<8, 4, 2, 1>>[i]

(* esl_config_get_cas_bits: the four characters behind the first colon as  *)
(* bits, -1 for anything else.                                             *)
CasBits(s) ==
  LET colon == FirstOf(s, ":")
      bit(i) == s[colon + i]
      value(i) == IF bit(i) = "1" THEN Weight(i) ELSE 0
  IN IF colon = 0 \/ colon + 4 > Len(s) \/ \E i \in 1 .. 4 : bit(i) \notin {"0", "1"}
     THEN -1
     ELSE value(1) + value(2) + value(3) + value(4)
=============================================================================
