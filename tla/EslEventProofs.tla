--------------------------- MODULE EslEventProofs ---------------------------
(***************************************************************************)
(* Proofs about the events of EslEvent, for any names, values and numbers  *)
(* of headers.                                                             *)
(***************************************************************************)
EXTENDS EslEvent, EslPacketsProofs, SequenceTheorems

-----------------------------------------------------------------------------
(* Sequences, and the items that Only picks from one.                      *)

(* The items in S of the first k items of s are p[k].                      *)
Picks(s, S, p) ==
  /\ p[0] = <<>>
  /\ \A i \in 1 .. Len(s) :
       p[i] = IF s[i] \in S THEN Append(p[i - 1], s[i]) ELSE p[i - 1]

(* There is only one such p.                                               *)
LEMMA PicksOnce ==
  ASSUME NEW n \in Nat, NEW s, NEW t, n <= Len(s), n <= Len(t),
         Len(s) \in Nat, Len(t) \in Nat, NEW S, NEW p, NEW q,
         Picks(s, S, p), Picks(t, S, q),
         \A i \in 1 .. n : s[i] = t[i] \/ (s[i] \notin S /\ t[i] \notin S)
  PROVE  p[n] = q[n]
<1> DEFINE G == {i \in 0 .. n : p[i] = q[i]}
<1>1. 0 \in G
  BY DEF Picks
<1>2. ASSUME NEW i \in 1 .. n, i - 1 \in G PROVE i \in G
  <2>1. i \in 1 .. Len(s) /\ i \in 1 .. Len(t) /\ i \in 0 .. n
    OBVIOUS
  <2>2. p[i - 1] = q[i - 1]
    BY <1>2
  <2>3. p[i] = IF s[i] \in S THEN Append(p[i - 1], s[i]) ELSE p[i - 1]
    BY <2>1 DEF Picks
  <2>4. q[i] = IF t[i] \in S THEN Append(q[i - 1], t[i]) ELSE q[i - 1]
    BY <2>1 DEF Picks
  <2>5. s[i] = t[i] \/ (s[i] \notin S /\ t[i] \notin S)
    OBVIOUS
  <2>6. p[i] = q[i]
    <3>1. CASE s[i] \notin S /\ t[i] \notin S
      BY <2>2, <2>3, <2>4, <3>1
    <3>2. CASE s[i] = t[i]
      BY <2>2, <2>3, <2>4, <3>2, Zenon
    <3> QED BY <2>5, <3>1, <3>2
  <2> QED BY <2>1, <2>6
<1>3. G = 0 .. n
  <2>1. G \in SUBSET (0 .. n)
    OBVIOUS
  <2> HIDE DEF G
  <2> QED BY <1>1, <1>2, <2>1, Inductive
<1>4. n \in G
  BY <1>3
<1> QED BY <1>4

LEMMA OnlyBy ==
  ASSUME NEW T, NEW s \in Seq(T), NEW S
  PROVE  \E p : /\ Picks(s, S, p) /\ Only(s, S) = p[Len(s)]
                /\ \A i \in 0 .. Len(s) : p[i] \in Seq(T) /\ Len(p[i]) <= i
<1> DEFINE n == Len(s)
           Step(i, x) == IF s[i] \in S THEN Append(x, s[i]) ELSE x
           Item(f, i) == IF i = 0 THEN <<>>
                         ELSE IF s[i] \in S THEN Append(f[i - 1], s[i]) ELSE f[i - 1]
           Raw(f) == [i \in 0 .. n |-> Item(f, i)]
           H == [i \in 1 .. n |-> [x \in Seq(T) |-> Step(i, x)]]
           p == CHOOSE f : f = Raw(f)
<1>1. Only(s, S) = p[n]
  BY Zenon DEF Only
<1>2. n \in Nat
  OBVIOUS
<1>3. \A i \in 1 .. n : s[i] \in T
  OBVIOUS
<1>4. ASSUME NEW i \in 1 .. n, NEW x \in Seq(T)
      PROVE  Step(i, x) \in Seq(T) /\ Len(Step(i, x)) <= Len(x) + 1
  BY <1>3
<1>5. \A f : Item(f, 0) = <<>>
  OBVIOUS
<1>6. ASSUME NEW f, NEW i \in 1 .. n PROVE Item(f, i) = Step(i, f[i - 1])
  BY i # 0
<1>7. \A f : \A i \in 0 .. n : Raw(f)[i] = Item(f, i)
  BY Zenon
<1> HIDE DEF Step, Item, n
<1>8. \A i \in 1 .. n : \A x \in Seq(T) : H[i][x] = Step(i, x)
  BY Zenon
<1>9. H \in [1 .. n -> [Seq(T) -> Seq(T)]]
  BY <1>4
<1>10. <<>> \in Seq(T)
  OBVIOUS
<1> DEFINE o == <<>>
           U == Seq(T)
<1> HIDE DEF H, o, U
<1>11. PICK f \in [0 .. n -> U] : f[0] = o /\ \A i \in 1 .. n : f[i] = H[i][f[i - 1]]
  <2>1. o \in U /\ Steps(n, U, H)
    BY <1>9, <1>10 DEF o, U, Steps
  <2>2. PICK f : Runs(f, n, U, o, H)
    BY <1>2, <2>1, Iterates
  <2> QED BY <2>2 DEF Runs
<1>12. f = Raw(f)
  <2>1. ASSUME NEW i \in 0 .. n PROVE f[i] = Item(f, i)
    <3>1. CASE i = 0
      BY <1>5, <1>11, <3>1 DEF o
    <3>2. CASE i # 0
      <4>1. i \in 1 .. n /\ i - 1 \in 0 .. n
        BY <1>2, <3>2
      <4>2. f[i - 1] \in Seq(T)
        BY <1>11, <4>1 DEF U
      <4>3. f[i] = Step(i, f[i - 1])
        BY <1>8, <1>11, <4>1, <4>2
      <4> QED BY <1>6, <4>1, <4>3
    <3> QED BY <3>1, <3>2
  <2>2. f = [i \in 0 .. n |-> f[i]]
    BY <1>11
  <2> QED BY <2>1, <2>2
<1>13. p = Raw(p)
  <2> HIDE DEF Raw
  <2> QED BY <1>12
<1> HIDE DEF p, Raw
<1>14. p[0] = <<>>
  <2>1. 0 \in 0 .. n
    BY <1>2
  <2> QED BY <1>5, <1>7, <1>13, <2>1
<1>15. ASSUME NEW i \in 1 .. n PROVE p[i] = Step(i, p[i - 1])
  <2>1. i \in 0 .. n
    BY <1>2
  <2> QED BY <1>6, <1>7, <1>13, <2>1
<1>16. Picks(s, S, p)
  BY <1>14, <1>15 DEF Picks, n, Step
<1>17. \A i \in 0 .. n : p[i] \in Seq(T) /\ Len(p[i]) <= i
  <2> DEFINE G == {i \in 0 .. n : p[i] \in Seq(T) /\ Len(p[i]) <= i}
  <2>1. 0 \in G
    <3>1. 0 \in 0 .. n /\ <<>> \in Seq(T) /\ Len(<<>>) <= 0
      BY <1>2
    <3> QED BY <1>14, <3>1
  <2>2. ASSUME NEW i \in 1 .. n, i - 1 \in G PROVE i \in G
    <3>1. p[i - 1] \in Seq(T) /\ Len(p[i - 1]) <= i - 1 /\ i \in 0 .. n
      BY <1>2, <2>2
    <3>2. p[i] \in Seq(T) /\ Len(p[i]) <= Len(p[i - 1]) + 1
      BY <1>4, <1>15, <3>1
    <3>3. Len(p[i]) \in Nat /\ Len(p[i - 1]) \in Nat
      BY <3>1, <3>2
    <3>4. Len(p[i]) <= i
      BY <1>2, <3>1, <3>2, <3>3
    <3> QED BY <3>1, <3>2, <3>4
  <2>3. G = 0 .. n
    <3>1. G \in SUBSET (0 .. n)
      OBVIOUS
    <3> HIDE DEF G
    <3> QED BY <1>2, <2>1, <2>2, <3>1, Inductive
  <2> QED BY <2>3
<1> QED BY <1>1, <1>16, <1>17 DEF n

(* One is the other unless they differ in items that are not in S.         *)
LEMMA OnlySame ==
  ASSUME NEW T, NEW s \in Seq(T), NEW t \in Seq(T), Len(s) = Len(t), NEW S,
         \A i \in 1 .. Len(s) : s[i] = t[i] \/ (s[i] \notin S /\ t[i] \notin S)
  PROVE  Only(s, S) = Only(t, S)
<1>1. PICK p : Picks(s, S, p) /\ Only(s, S) = p[Len(s)]
  BY OnlyBy
<1>2. PICK q : Picks(t, S, q) /\ Only(t, S) = q[Len(t)]
  BY OnlyBy
<1>3. Len(s) \in Nat /\ Len(t) \in Nat
  OBVIOUS
<1>4. p[Len(s)] = q[Len(s)]
  BY <1>1, <1>2, <1>3, PicksOnce
<1> QED BY <1>1, <1>2, <1>4

LEMMA OnlyType ==
  ASSUME NEW T, NEW s \in Seq(T), NEW S
  PROVE  Only(s, S) \in Seq(T) /\ Len(Only(s, S)) <= Len(s)
<1>1. PICK p : Only(s, S) = p[Len(s)] /\ \A i \in 0 .. Len(s) : p[i] \in Seq(T) /\ Len(p[i]) <= i
  BY OnlyBy
<1>2. Len(s) \in 0 .. Len(s)
  OBVIOUS
<1> QED BY <1>1, <1>2

LEMMA OnlyEmpty ==
  ASSUME NEW S
  PROVE  Only(<<>>, S) = <<>>
<1>1. <<>> \in Seq({})
  OBVIOUS
<1>2. PICK p : Picks(<<>>, S, p) /\ Only(<<>>, S) = p[Len(<<>>)]
  BY <1>1, OnlyBy
<1>3. Len(<<>>) = 0
  OBVIOUS
<1> QED BY <1>2, <1>3 DEF Picks

LEMMA OnlyAppend ==
  ASSUME NEW T, NEW s \in Seq(T), NEW x \in T, NEW S
  PROVE  Only(Append(s, x), S) = IF x \in S THEN Append(Only(s, S), x) ELSE Only(s, S)
<1> DEFINE t == Append(s, x)
           n == Len(s)
<1>1. t \in Seq(T) /\ Len(t) = n + 1 /\ t[n + 1] = x /\ n \in Nat
  OBVIOUS
<1>2. \A i \in 1 .. n : t[i] = s[i]
  OBVIOUS
<1> HIDE DEF t
<1>3. PICK p : Picks(s, S, p) /\ Only(s, S) = p[n]
  BY OnlyBy
<1>4. PICK q : Picks(t, S, q) /\ Only(t, S) = q[Len(t)]
  BY <1>1, OnlyBy
<1>5. p[n] = q[n]
  <2>1. n <= Len(s) /\ n <= Len(t) /\ Len(s) \in Nat /\ Len(t) \in Nat
    BY <1>1
  <2>2. \A i \in 1 .. n : s[i] = t[i] \/ (s[i] \notin S /\ t[i] \notin S)
    BY <1>2
  <2> HIDE DEF n
  <2> QED BY <1>1, <1>3, <1>4, <2>1, <2>2, PicksOnce
<1>6. q[n + 1] = IF t[n + 1] \in S THEN Append(q[n], t[n + 1]) ELSE q[n]
  <2>1. n + 1 \in 1 .. Len(t) /\ (n + 1) - 1 = n
    BY <1>1
  <2> QED BY <1>4, <2>1 DEF Picks
<1>7. Only(t, S) = IF x \in S THEN Append(Only(s, S), x) ELSE Only(s, S)
  BY <1>1, <1>3, <1>4, <1>5, <1>6
<1> QED BY <1>7 DEF t

(* A sequence grows item by item.                                          *)
LEMMA Grows ==
  ASSUME NEW T, NEW t \in Seq(T), NEW i \in 1 .. Len(t)
  PROVE  /\ SubSeq(t, 1, i - 1) \in Seq(T) /\ t[i] \in T
         /\ SubSeq(t, 1, i) = Append(SubSeq(t, 1, i - 1), t[i])
  OBVIOUS

LEMMA AppendEnds ==
  ASSUME NEW T, NEW s \in Seq(T), NEW x
  PROVE  /\ Len(Append(s, x)) = Len(s) + 1 /\ Append(s, x)[Len(s) + 1] = x
         /\ \A i \in 1 .. Len(s) : Append(s, x)[i] = s[i]
  OBVIOUS

LEMMA AppendedBehind ==
  ASSUME NEW T, NEW s \in Seq(T), NEW t \in Seq(T), NEW x \in T
  PROVE  s \o Append(t, x) = Append(s \o t, x)
  OBVIOUS

LEMMA OnlyConcat ==
  ASSUME NEW T, NEW s \in Seq(T), NEW t \in Seq(T), NEW S
  PROVE  Only(s \o t, S) = Only(s, S) \o Only(t, S)
<1> DEFINE n == Len(t)
           u(i) == SubSeq(t, 1, i)
           G == {i \in 0 .. n : Only(s \o u(i), S) = Only(s, S) \o Only(u(i), S)}
<1>0. n \in Nat
  OBVIOUS
<1>1. 0 \in G
  <2>1. u(0) = <<>> /\ s \o <<>> = s
    OBVIOUS
  <2>2. Only(s, S) \in Seq(T)
    BY OnlyType
  <2>3. Only(s, S) \o <<>> = Only(s, S)
    BY <2>2
  <2>4. Only(s \o u(0), S) = Only(s, S) \o Only(u(0), S)
    BY <2>1, <2>3, OnlyEmpty, Zenon
  <2> HIDE DEF u
  <2> QED BY <1>0, <2>4
<1>2. ASSUME NEW i \in 1 .. n, i - 1 \in G PROVE i \in G
  <2> DEFINE v == u(i - 1)
             x == t[i]
  <2>1. v \in Seq(T) /\ x \in T /\ u(i) = Append(v, x)
    BY Grows
  <2>2. Only(s \o v, S) = Only(s, S) \o Only(v, S)
    BY <1>2
  <2> HIDE DEF u, v, x
  <2>3. s \o u(i) = Append(s \o v, x) /\ s \o v \in Seq(T)
    BY <2>1
  <2>4. Only(s \o u(i), S) = IF x \in S THEN Append(Only(s \o v, S), x) ELSE Only(s \o v, S)
    BY <2>1, <2>3, OnlyAppend
  <2>5. Only(u(i), S) = IF x \in S THEN Append(Only(v, S), x) ELSE Only(v, S)
    BY <2>1, OnlyAppend
  <2>6. Only(s, S) \in Seq(T) /\ Only(v, S) \in Seq(T)
    BY <2>1, OnlyType
  <2>7. Only(s, S) \o Append(Only(v, S), x) = Append(Only(s, S) \o Only(v, S), x)
    <3> DEFINE a == Only(s, S)
               c == Only(v, S)
    <3>1. a \in Seq(T) /\ c \in Seq(T) /\ x \in T
      BY <2>1, <2>6
    <3> HIDE DEF a, c
    <3>2. a \o Append(c, x) = Append(a \o c, x)
      BY <3>1, AppendedBehind
    <3> QED BY <3>2 DEF a, c
  <2>8. Only(s \o u(i), S) = Only(s, S) \o Only(u(i), S)
    BY <2>2, <2>4, <2>5, <2>7
  <2>9. i \in 0 .. n
    BY <1>0
  <2> QED BY <2>8, <2>9
<1>3. G = 0 .. n
  <2>1. G \in SUBSET (0 .. n)
    OBVIOUS
  <2> HIDE DEF G
  <2> QED BY <1>0, <1>1, <1>2, <2>1, Inductive
<1>4. n \in G /\ u(n) = t
  BY <1>0, <1>3
<1> QED BY <1>4

(* A single item, and one in front of others.                              *)
LEMMA OnlyOne ==
  ASSUME NEW T, NEW x \in T, NEW S
  PROVE  Only(<<x>>, S) = IF x \in S THEN <<x>> ELSE <<>>
<1> DEFINE o == <<>>
<1>1. o \in Seq(T) /\ <<x>> = Append(o, x)
  OBVIOUS
<1>2. Only(o, S) = o
  BY OnlyEmpty
<1> HIDE DEF o
<1>3. Only(Append(o, x), S) = IF x \in S THEN Append(Only(o, S), x) ELSE Only(o, S)
  BY <1>1, OnlyAppend
<1> QED BY <1>1, <1>2, <1>3 DEF o

LEMMA OnlyInFront ==
  ASSUME NEW T, NEW s \in Seq(T), NEW x \in T, NEW S
  PROVE  Only(<<x>> \o s, S) = IF x \in S THEN <<x>> \o Only(s, S) ELSE Only(s, S)
<1> DEFINE o == <<x>>
<1>1. o \in Seq(T)
  OBVIOUS
<1> HIDE DEF o
<1>2. Only(o \o s, S) = Only(o, S) \o Only(s, S)
  BY <1>1, OnlyConcat
<1> USE DEF o
<1>3. Only(s, S) \in Seq(T)
  BY OnlyType
<1>4. <<>> \o Only(s, S) = Only(s, S)
  BY <1>3
<1>5. Only(<<x>>, S) = IF x \in S THEN <<x>> ELSE <<>>
  BY OnlyOne
<1> QED BY <1>2, <1>4, <1>5

(* What is left when some items not in S have gone, has all those in S.    *)
LEMMA OnlyAfter ==
  ASSUME NEW T, NEW s \in Seq(T), NEW K, NEW S, S \subseteq K
  PROVE  Only(Only(s, K), S) = Only(s, S)
<1> DEFINE n == Len(s)
           u(i) == SubSeq(s, 1, i)
           G == {i \in 0 .. n : Only(Only(u(i), K), S) = Only(u(i), S)}
<1>0. n \in Nat
  OBVIOUS
<1>1. 0 \in G
  <2>1. u(0) = <<>>
    OBVIOUS
  <2>2. Only(Only(u(0), K), S) = Only(u(0), S)
    BY <2>1, OnlyEmpty, Zenon
  <2> HIDE DEF u
  <2> QED BY <1>0, <2>2
<1>2. ASSUME NEW i \in 1 .. n, i - 1 \in G PROVE i \in G
  <2> DEFINE v == u(i - 1)
             x == s[i]
  <2>1. v \in Seq(T) /\ x \in T /\ u(i) = Append(v, x)
    BY Grows
  <2>2. Only(Only(v, K), S) = Only(v, S)
    BY <1>2
  <2> HIDE DEF u, v, x
  <2>3. Only(u(i), K) = IF x \in K THEN Append(Only(v, K), x) ELSE Only(v, K)
    BY <2>1, OnlyAppend
  <2>4. Only(u(i), S) = IF x \in S THEN Append(Only(v, S), x) ELSE Only(v, S)
    BY <2>1, OnlyAppend
  <2>5. Only(v, K) \in Seq(T)
    BY <2>1, OnlyType
  <2>6. Only(Append(Only(v, K), x), S)
          = IF x \in S THEN Append(Only(Only(v, K), S), x) ELSE Only(Only(v, K), S)
    BY <2>1, <2>5, OnlyAppend
  <2>7. Only(Only(u(i), K), S) = Only(u(i), S)
    BY <2>2, <2>3, <2>4, <2>6
  <2>8. i \in 0 .. n
    BY <1>0
  <2> QED BY <2>7, <2>8
<1>3. G = 0 .. n
  <2>1. G \in SUBSET (0 .. n)
    OBVIOUS
  <2> HIDE DEF G
  <2> QED BY <1>0, <1>1, <1>2, <2>1, Inductive
<1>4. n \in G /\ u(n) = s
  BY <1>0, <1>3
<1> QED BY <1>4

(* Every item that is left is an item of s that is in S.                   *)
LEMMA OnlyFrom ==
  ASSUME NEW T, NEW s \in Seq(T), NEW S, NEW j \in 1 .. Len(Only(s, S))
  PROVE  Only(s, S)[j] \in S /\ \E i \in 1 .. Len(s) : Only(s, S)[j] = s[i]
<1> DEFINE n == Len(s)
           Fine(i) == \A k \in 1 .. Len(Only(SubSeq(s, 1, i), S)) :
                        /\ Only(SubSeq(s, 1, i), S)[k] \in S
                        /\ \E l \in 1 .. n : Only(SubSeq(s, 1, i), S)[k] = s[l]
           G == {i \in 0 .. n : Fine(i)}
<1>0. n \in Nat
  OBVIOUS
<1>1. 0 \in G
  <2>1. SubSeq(s, 1, 0) = <<>>
    OBVIOUS
  <2>2. Only(SubSeq(s, 1, 0), S) = <<>>
    BY <2>1, OnlyEmpty
  <2>3. 1 .. Len(<<>>) = {}
    OBVIOUS
  <2> QED BY <1>0, <2>2, <2>3
<1>2. ASSUME NEW i \in 1 .. n, i - 1 \in G PROVE i \in G
  <2> DEFINE v == SubSeq(s, 1, i - 1)
             x == s[i]
             o == Only(v, S)
             w == SubSeq(s, 1, i)
             q == Only(w, S)
  <2>1. v \in Seq(T) /\ x \in T /\ w = Append(v, x)
    BY Grows
  <2>2. \A k \in 1 .. Len(o) : o[k] \in S /\ \E l \in 1 .. n : o[k] = s[l]
    BY <1>2
  <2> HIDE DEF v, w, x
  <2>3. q = IF x \in S THEN Append(o, x) ELSE o
    BY <2>1, OnlyAppend
  <2>4. o \in Seq(T)
    BY <2>1, OnlyType
  <2> HIDE DEF o, q
  <2>5. ASSUME NEW k \in 1 .. Len(q) PROVE q[k] \in S /\ \E l \in 1 .. n : q[k] = s[l]
    <3>1. CASE x \notin S
      BY <2>2, <2>3, <3>1
    <3>2. CASE x \in S
      <4>1. q = Append(o, x)
        BY <2>3, <3>2
      <4>2. (k \in 1 .. Len(o) /\ q[k] = o[k]) \/ q[k] = x
        BY <2>1, <2>4, <4>1
      <4> QED BY <2>2, <3>2, <4>2 DEF x
    <3> QED BY <3>1, <3>2
  <2>6. Fine(i)
    BY <2>5 DEF q, w
  <2>7. i \in 0 .. n
    BY <1>0
  <2> HIDE DEF Fine
  <2> QED BY <2>6, <2>7
<1>3. G = 0 .. n
  <2>1. G \in SUBSET (0 .. n)
    OBVIOUS
  <2> HIDE DEF G
  <2> QED BY <1>0, <1>1, <1>2, <2>1, Inductive
<1>4. n \in G /\ SubSeq(s, 1, n) = s
  BY <1>0, <1>3
<1> QED BY <1>4

-----------------------------------------------------------------------------
(* Values: elements put together, and a value cut at its separators.       *)

LEMMA TextFacts ==
  /\ ARRAY \in String /\ SEP \in String
  /\ <<>> \in Text
  /\ \A x \in String : <<x>> \in Text
  /\ \A s, t \in Text : s \o t \in Text
<1>1. ARRAY \in String /\ SEP \in String
  BY EventAssumption DEF ARRAY, SEP
<1> QED BY <1>1 DEF Text

(* The first i elements in one string are d[i].                            *)
Glue(i) == IF i = 1 THEN <<>> ELSE <<SEP>>

Joins(d, items) ==
  /\ d[0] = <<ARRAY>>
  /\ \A i \in 1 .. Len(items) : d[i] = d[i - 1] \o Glue(i) \o items[i]
  /\ \A i \in 0 .. Len(items) : d[i] \in Text
  /\ Together(items) = d[Len(items)]

LEMMA TogetherBy ==
  ASSUME NEW items \in Seq(Text)
  PROVE  \E d : Joins(d, items)
<1> DEFINE n == Len(items)
           o == <<ARRAY>>
           Step(i, x) == x \o Glue(i) \o items[i]
           Item(f, i) == IF i = 0 THEN o ELSE Step(i, f[i - 1])
           Raw(f) == [i \in 0 .. n |-> Item(f, i)]
           H == [i \in 1 .. n |-> [x \in Text |-> Step(i, x)]]
           d == CHOOSE f : f = Raw(f)
<1>1. Together(items) = d[n]
  BY Zenon DEF Together, Glue
<1>2. n \in Nat
  OBVIOUS
<1>3. o \in Text
  BY TextFacts
<1>4. ASSUME NEW i \in 1 .. n, NEW x \in Text PROVE Step(i, x) \in Text
  <2>1. items[i] \in Text
    OBVIOUS
  <2>2. Glue(i) \in Text
    BY TextFacts DEF Glue
  <2> QED BY <2>1, <2>2, TextFacts
<1>5. \A f : \A i \in 0 .. n : Raw(f)[i] = Item(f, i)
  BY Zenon
<1>6. ASSUME NEW f, NEW i \in 1 .. n PROVE Item(f, i) = Step(i, f[i - 1])
  BY i # 0
<1>7. \A f : Item(f, 0) = o
  OBVIOUS
<1> HIDE DEF Step, Item, n, o
<1>8. \A i \in 1 .. n : \A x \in Text : H[i][x] = Step(i, x)
  BY Zenon
<1>9. Steps(n, Text, H)
  BY <1>4 DEF Steps
<1> HIDE DEF H
<1>10. PICK f : Runs(f, n, Text, o, H)
  BY <1>2, <1>3, <1>9, Iterates
<1>11. f \in [0 .. n -> Text] /\ f[0] = o /\ \A i \in 1 .. n : f[i] = H[i][f[i - 1]]
  BY <1>10 DEF Runs
<1>12. f = Raw(f)
  <2>1. ASSUME NEW i \in 0 .. n PROVE f[i] = Item(f, i)
    <3>1. CASE i = 0
      BY <1>7, <1>11, <3>1
    <3>2. CASE i # 0
      <4>1. i \in 1 .. n /\ i - 1 \in 0 .. n
        BY <1>2, <3>2
      <4>2. f[i - 1] \in Text
        BY <1>11, <4>1
      <4>3. f[i] = Step(i, f[i - 1])
        BY <1>8, <1>11, <4>1, <4>2
      <4> QED BY <1>6, <4>1, <4>3
    <3> QED BY <3>1, <3>2
  <2>2. f = [i \in 0 .. n |-> f[i]]
    BY <1>11
  <2> QED BY <2>1, <2>2
<1>13. d = Raw(d)
  <2> HIDE DEF Raw
  <2> QED BY <1>12
<1> HIDE DEF d, Raw
<1>14. \A i \in 0 .. n : d[i] = Item(d, i)
  BY <1>5, <1>13
<1> DEFINE G == {i \in 0 .. n : d[i] \in Text}
<1>15. 0 \in G
  <2>1. 0 \in 0 .. n
    BY <1>2
  <2> QED BY <1>3, <1>7, <1>14, <2>1
<1>16. ASSUME NEW i \in 1 .. n, i - 1 \in G PROVE i \in G
  <2>1. i \in 0 .. n
    BY <1>2
  <2>2. d[i] = Step(i, d[i - 1])
    BY <1>6, <1>14, <2>1
  <2> QED BY <1>4, <1>16, <2>1, <2>2
<1>17. G = 0 .. n
  <2>1. G \in SUBSET (0 .. n)
    OBVIOUS
  <2> HIDE DEF G
  <2> QED BY <1>2, <1>15, <1>16, <2>1, Inductive
<1>18. d[0] = <<ARRAY>>
  <2>1. 0 \in 0 .. n
    BY <1>2
  <2> QED BY <1>7, <1>14, <2>1 DEF o
<1>19. \A i \in 1 .. n : d[i] = d[i - 1] \o Glue(i) \o items[i]
  <2>1. \A i \in 1 .. n : i \in 0 .. n
    BY <1>2
  <2> QED BY <1>6, <1>14, <2>1 DEF Step
<1> HIDE DEF G
<1>20. \A i \in 0 .. n : d[i] \in Text
  BY <1>17 DEF G
<1>21. Joins(d, items)
  BY <1>1, <1>18, <1>19, <1>20 DEF Joins, n
<1> QED BY <1>21

LEMMA TogetherType ==
  ASSUME NEW items \in Seq(Text)
  PROVE  Together(items) \in Text
<1>1. PICK d : Joins(d, items)
  BY TogetherBy
<1>2. Len(items) \in 0 .. Len(items)
  OBVIOUS
<1> QED BY <1>1, <1>2 DEF Joins

(* t from place p on.                                                      *)
Rest(t, p) == SubSeq(t, p, Len(t))

(* A separator leaves a text in front of it and a place behind it.         *)
LEMMA PlaceFacts ==
  ASSUME NEW t \in Text, NEW z \in Text, z # <<>>, NEW p \in 1 .. Len(t) + 1,
         FirstPlace(Rest(t, p), z) # 0
  PROVE  LET i == FirstPlace(Rest(t, p), z)
         IN /\ Behind(p + i - 1, z) \in 1 .. Len(t) + 1
            /\ SubSeq(Rest(t, p), 1, i - 1) \in Text
<1> DEFINE u == Rest(t, p)
           i == FirstPlace(u, z)
           n == Len(u) - Len(z) + 1
           places == {k \in 1 .. n : SubSeq(u, k, k + Len(z) - 1) = z}
<1>1. /\ u \in Seq(String) /\ Len(u) = Len(t) - p + 1 /\ Len(t) \in Nat
      /\ Len(u) \in Nat /\ Len(z) \in Nat
  BY DEF Rest, Text
<1> HIDE DEF u
<1>2. i = IF places = {} THEN 0 ELSE CHOOSE k \in places : \A j \in places : k <= j
  BY DEF FirstPlace
<1>3. places \in SUBSET Nat /\ \A k \in places : k \in 1 .. n
  BY <1>1
<1>4. i # 0
  BY DEF u
<1> HIDE DEF places, i
<1>5. places # {}
  BY <1>2, <1>4
<1>6. \E k \in places : \A j \in places : k <= j
  BY <1>3, <1>5, LeastNatural
<1>7. i \in 1 .. n
  BY <1>2, <1>3, <1>5, <1>6
<1>8. Behind(p + i - 1, z) \in 1 .. Len(t) + 1 /\ SubSeq(u, 1, i - 1) \in Text
  BY <1>1, <1>7 DEF Behind, Text
<1> QED BY <1>8 DEF i, u

(* t from place p on, cut into n pieces at most, is d[n][p].               *)
Cuts(d, t, z, m) ==
  /\ \A n \in 1 .. m : \A p \in 1 .. Len(t) + 1 :
       d[n][p] =
         LET i == FirstPlace(Rest(t, p), z)
         IN IF n = 1 \/ i = 0 THEN <<Rest(t, p)>>
            ELSE <<SubSeq(Rest(t, p), 1, i - 1)>> \o d[n - 1][Behind(p + i - 1, z)]
  /\ d[m][1] \in Seq(Text)
  /\ Separated(t, z, m) = d[m][1]

LEMMA SeparatedBy ==
  ASSUME NEW t \in Text, NEW z \in Text, z # <<>>, NEW m \in Nat, m # 0
  PROVE  \E d : Cuts(d, t, z, m)
<1> DEFINE Q == 1 .. Len(t) + 1
           T == [Q -> Seq(Text)]
           Cut(n, f, p) ==
             IF n = 1 \/ FirstPlace(Rest(t, p), z) = 0 THEN <<Rest(t, p)>>
             ELSE <<SubSeq(Rest(t, p), 1, FirstPlace(Rest(t, p), z) - 1)>>
                    \o f[n - 1][Behind(p + FirstPlace(Rest(t, p), z) - 1, z)]
           Step(n, f) == [p \in Q |-> Cut(n, f, p)]
           Raw(f) == [n \in 1 .. m |-> Step(n, f)]
           H == [n \in 1 .. m |-> [f \in [1 .. m -> T] |-> Step(n, f)]]
           d == CHOOSE f : f = Raw(f)
<1>1. Separated(t, z, m) = d[m][1]
  BY Zenon DEF Separated, Rest
<1>2. ASSUME NEW n \in 1 .. m, NEW f, n # 1 => f[n - 1] \in T, NEW p \in Q
      PROVE  Cut(n, f, p) \in Seq(Text)
  <2>1. Rest(t, p) \in Text
    BY DEF Rest, Text
  <2>2. CASE n = 1 \/ FirstPlace(Rest(t, p), z) = 0
    <3> DEFINE u == Rest(t, p)
    <3>1. Cut(n, f, p) = <<u>>
      BY <2>2
    <3> HIDE DEF u
    <3>2. <<u>> \in Seq(Text)
      BY <2>1 DEF u
    <3> HIDE DEF Cut
    <3> QED BY <3>1, <3>2
  <2>3. CASE ~(n = 1 \/ FirstPlace(Rest(t, p), z) = 0)
    <3> DEFINE v == SubSeq(Rest(t, p), 1, FirstPlace(Rest(t, p), z) - 1)
               q == Behind(p + FirstPlace(Rest(t, p), z) - 1, z)
               r == f[n - 1][q]
    <3>1. v \in Text /\ q \in Q
      BY <2>3, PlaceFacts
    <3>2. Cut(n, f, p) = <<v>> \o r
      BY <2>3
    <3> HIDE DEF v, q
    <3>3. r \in Seq(Text) /\ <<v>> \in Seq(Text)
      <4>1. f[n - 1] \in T
        BY <1>2, <2>3
      <4> HIDE DEF Q
      <4> QED BY <3>1, <4>1
    <3> HIDE DEF r, Cut
    <3> QED BY <3>2, <3>3, ConcatProperties
  <2> QED BY <2>2, <2>3
<1>3. ASSUME NEW n \in 1 .. m, NEW f, NEW g, \A j \in 1 .. n - 1 : f[j] = g[j]
      PROVE  Step(n, f) = Step(n, g)
  <2>1. CASE n = 1
    BY <2>1, Zenon
  <2>2. CASE n # 1
    <3>1. f[n - 1] = g[n - 1]
      <4>1. n - 1 \in 1 .. n - 1
        BY <2>2
      <4> QED BY <1>3, <4>1
    <3> QED BY <3>1, Zenon
  <2> QED BY <2>1, <2>2
<1>4. ASSUME NEW n \in 1 .. m, NEW f, n # 1 => f[n - 1] \in T PROVE Step(n, f) \in T
  <2> HIDE DEF Cut
  <2> QED BY <1>2, <1>4
<1>5. \A n \in 1 .. m : \A f : Raw(f)[n] = Step(n, f)
  BY Zenon
<1>17. \A f : \A n \in 1 .. m : \A p \in Q : Step(n, f)[p] = Cut(n, f, p)
  BY Zenon
<1> HIDE DEF Step
<1>6. \A n \in 1 .. m : \A f \in [1 .. m -> T] : H[n][f] = Step(n, f)
  BY Zenon
<1>7. ASSUME NEW n \in 1 .. m, NEW f \in [1 .. m -> T] PROVE Step(n, f) \in T
  <2>1. n # 1 => n - 1 \in 1 .. m
    OBVIOUS
  <2> HIDE DEF T
  <2>2. n # 1 => f[n - 1] \in T
    BY <2>1
  <2> QED BY <1>4, <2>2
<1>8. \E f : f = Raw(f)
  <2>1. Equation(1, m, T, H)
    <3>1. H \in [1 .. m -> [[1 .. m -> T] -> T]]
      <4> HIDE DEF T
      <4> QED BY <1>7
    <3> QED BY <3>1 DEF Equation
  <2>2. UsesBefore(1, m, T, H)
    <3> HIDE DEF H, T
    <3>1. ASSUME NEW i \in 1 .. m, NEW f \in [1 .. m -> T], NEW g \in [1 .. m -> T],
                 \A j \in 1 .. i - 1 : f[j] = g[j]
          PROVE  H[i][f] = H[i][g]
      <4>1. Step(i, f) = Step(i, g)
        BY <1>3, <3>1
      <4> QED BY <1>6, <4>1
    <3> QED BY <3>1 DEF UsesBefore
  <2>3. m \in Nat /\ 1 \in Nat
    OBVIOUS
  <2> DEFINE o == [p \in Q |-> <<>>]
  <2>4. o \in T
    OBVIOUS
  <2> HIDE DEF H, T, o
  <2>5. PICK f : Solves(f, 1, m, T, H)
    BY <2>1, <2>2, <2>3, <2>4, Upward
  <2>6. f \in [1 .. m -> T] /\ \A i \in 1 .. m : f[i] = Step(i, f)
    BY <1>6, <2>5 DEF Solves
  <2>7. f = [i \in 1 .. m |-> f[i]]
    BY <2>6
  <2>8. f = Raw(f)
    BY <2>6, <2>7
  <2> QED BY <2>8
<1>9. d = Raw(d)
  <2> HIDE DEF Raw
  <2> QED BY <1>8
<1> HIDE DEF d, H, Raw
<1>10. \A n \in 1 .. m : d[n] = Step(n, d)
  BY <1>5, <1>9
<1> DEFINE G == {n \in 0 .. m : n # 0 => d[n] \in T}
<1>11. 0 \in G
  BY 0 \in 0 .. m
<1>12. ASSUME NEW n \in 1 .. m, n - 1 \in G PROVE n \in G
  <2>1. n # 1 => n - 1 # 0
    OBVIOUS
  <2> HIDE DEF T
  <2>2. n # 1 => d[n - 1] \in T
    BY <1>12, <2>1
  <2>3. d[n] \in T
    BY <1>4, <1>10, <2>2
  <2>4. n \in 0 .. m
    OBVIOUS
  <2> QED BY <2>3, <2>4
<1>13. G = 0 .. m
  <2>1. G \in SUBSET (0 .. m)
    OBVIOUS
  <2> HIDE DEF G
  <2> QED BY <1>11, <1>12, <2>1, Inductive
<1>14. d[m] \in T
  <2>1. m \in 0 .. m
    OBVIOUS
  <2> HIDE DEF T
  <2> QED BY <1>13, <2>1
<1>15. 1 \in Q
  BY DEF Text
<1>16. d[m][1] \in Seq(Text)
  <2> HIDE DEF Q, d
  <2> QED BY <1>14, <1>15
<1>18. \A n \in 1 .. m : \A p \in Q : d[n][p] = Cut(n, d, p)
  <2> HIDE DEF Q, Cut
  <2> QED BY <1>10, <1>17
<1>19. Cuts(d, t, z, m)
  <2> HIDE DEF d
  <2> QED BY <1>1, <1>16, <1>18, Zenon DEF Cuts
<1> QED BY <1>19

LEMMA SeparatedType ==
  ASSUME NEW t \in Text, NEW z \in Text, z # <<>>, NEW m \in Nat, m # 0
  PROVE  Separated(t, z, m) \in Seq(Text)
<1>1. PICK d : Cuts(d, t, z, m)
  BY SeparatedBy
<1> QED BY <1>1 DEF Cuts

(* The pieces of a value that is cut.                                      *)
LEMMA PiecesType ==
  ASSUME NEW val \in Text, Len(val) > 1
  PROVE  Pieces(val) \in Seq(Text)
<1>1. Tail(val) \in Text /\ Len(val) \in Nat /\ Len(val) # 0
  BY DEF Text
<1>2. <<SEP>> \in Text
  BY TextFacts
<1>3. <<SEP>> # <<>>
  OBVIOUS
<1> DEFINE t == Tail(val)
           z == <<SEP>>
           m == Len(val)
<1> HIDE DEF t, z, m
<1>4. Separated(t, z, m) \in Seq(Text)
  BY <1>1, <1>2, <1>3, SeparatedType DEF t, z, m
<1> QED BY <1>4 DEF Pieces, t, z, m

-----------------------------------------------------------------------------
(* Headers.                                                                *)

(* A header in a list has a value or elements.                             *)
Solid(h) == h.value # NULL \/ h.array # <<>>

LEMMA NullIsNoText == NULL \notin Text
BY EventAssumption

LEMMA HeaderFacts ==
  ASSUME NEW h \in Header
  PROVE  /\ h.name \in String /\ h.value \in Text \cup {NULL} /\ h.array \in Seq(Text)
         /\ \A v \in Text \cup {NULL} :
              /\ [h EXCEPT !.value = v] \in Header
              /\ [h EXCEPT !.value = v].name = h.name
              /\ [h EXCEPT !.value = v].value = v
              /\ [h EXCEPT !.value = v].array = h.array
         /\ \A a \in Seq(Text) :
              /\ [h EXCEPT !.array = a] \in Header
              /\ [h EXCEPT !.array = a].name = h.name
              /\ [h EXCEPT !.array = a].value = h.value
              /\ [h EXCEPT !.array = a].array = a
BY DEF Header

LEMMA NewHeaderFacts ==
  ASSUME NEW name \in String
  PROVE  /\ NewHeader(name) \in Header /\ NewHeader(name).name = name
         /\ NewHeader(name).value = NULL /\ NewHeader(name).array = <<>>
BY DEF NewHeader, Header

(* The value of an array header follows its elements.                      *)
LEMMA RedrawnFacts ==
  ASSUME NEW h \in Header, h.array # <<>>
  PROVE  /\ Redrawn(h) \in Header /\ Redrawn(h).name = h.name
         /\ Redrawn(h).array = h.array /\ Redrawn(h).value \in Text
         /\ InStep(Redrawn(h)) /\ Solid(Redrawn(h))
<1> DEFINE v == IF Len(h.array) = 1 THEN h.array[1] ELSE Together(h.array)
           g == [h EXCEPT !.value = v]
<1>1. h.array \in Seq(Text)
  BY HeaderFacts
<1>2. v \in Text
  <2>1. Together(h.array) \in Text
    BY <1>1, TogetherType
  <2>2. h.array[1] \in Text
    BY <1>1
  <2> QED BY <2>1, <2>2
<1>3. Redrawn(h) = g
  BY DEF Redrawn
<1>4. g.array = h.array => Redrawn(g) = [g EXCEPT !.value = v]
  BY DEF Redrawn
<1> HIDE DEF v
<1>5. g \in Header /\ g.name = h.name /\ g.array = h.array /\ g.value = v
  BY <1>2, HeaderFacts
<1>6. [g EXCEPT !.value = v] = g
  BY <1>5 DEF Header
<1> HIDE DEF g
<1> QED BY <1>2, <1>3, <1>4, <1>5, <1>6 DEF InStep, Solid

(* What has become of a header when its array grows: r is the header and   *)
(* whether that was done.                                                  *)
Grown(h, r, fault) ==
  /\ r.h \in Header /\ r.ok \in BOOLEAN /\ r.h.name = h.name
  /\ Solid(h) \/ r.ok => Solid(r.h)
  /\ r.ok => InStep(r.h)
  /\ fault = "none" => r.ok

LEMMA DrawnFacts ==
  ASSUME NEW h \in Header, h.array # <<>>, NEW fault
  PROVE  /\ Grown(h, Drawn(h, fault), fault)
         /\ Drawn(h, fault).h.array = h.array
<1>1. CASE fault = "draw"
  BY <1>1 DEF Drawn, Grown, Solid
<1>2. CASE fault # "draw"
  <2>1. Drawn(h, fault).h = Redrawn(h) /\ Drawn(h, fault).ok = TRUE
    BY <1>2 DEF Drawn
  <2> QED BY <2>1, RedrawnFacts DEF Grown
<1> QED BY <1>1, <1>2

LEMMA MovedFacts ==
  ASSUME NEW h \in Header
  PROVE  /\ Moved(h) \in Header /\ Moved(h).name = h.name
         /\ Solid(h) => Moved(h).array # <<>> /\ Moved(h).array = Items(h)
         /\ Moved(h).array = <<>> => h.array = <<>> /\ h.value = NULL
<1>1. CASE h.value # NULL /\ h.array = <<>>
  <2>1. h.value \in Text /\ <<h.value>> \in Seq(Text)
    BY <1>1, HeaderFacts
  <2>2. Moved(h) = [h EXCEPT !.array = <<h.value>>, !.value = NULL]
    BY <1>1 DEF Moved
  <2>3. /\ Moved(h) \in Header /\ Moved(h).name = h.name
        /\ Moved(h).array = <<h.value>>
    BY <2>1, <2>2 DEF Header
  <2>4. <<h.value>> # <<>>
    OBVIOUS
  <2> QED BY <1>1, <2>3, <2>4 DEF Items
<1>2. CASE ~(h.value # NULL /\ h.array = <<>>)
  BY <1>2 DEF Moved, Solid, Items
<1> QED BY <1>1, <1>2

LEMMA PushedFacts ==
  ASSUME NEW h \in Header, NEW data \in Text, NEW fault
  PROVE  LET r == Pushed(h, data, fault)
         IN /\ Grown(h, r, fault)
            /\ Solid(h) => \/ Items(r.h) = Append(Items(h), data)
                           \/ ~r.ok /\ Items(r.h) = Items(h)
<1> DEFINE r == Pushed(h, data, fault)
           m == Moved(h)
           a == Append(m.array, data)
           g == [m EXCEPT !.array = a]
<1>1. CASE fault = "move" /\ h.value # NULL /\ h.array = <<>>
  <2>1. r.h = h /\ r.ok = FALSE
    BY <1>1 DEF Pushed
  <2> QED BY <1>1, <2>1 DEF Grown
<1>2. CASE fault = "grow"
  <2>1. r.h = m /\ r.ok = FALSE
    BY <1>2 DEF Pushed
  <2>2. Solid(h) => Solid(m) /\ Items(m) = Items(h)
    BY MovedFacts DEF Solid, Items
  <2> QED BY <1>2, <2>1, <2>2, MovedFacts DEF Grown
<1>3. CASE /\ ~(fault = "move" /\ h.value # NULL /\ h.array = <<>>)
           /\ fault # "grow"
  <2>1. r = Drawn(g, fault)
    BY <1>3 DEF Pushed
  <2>2. m \in Header /\ m.name = h.name /\ m.array \in Seq(Text)
    BY MovedFacts, HeaderFacts
  <2>3. Solid(h) => m.array = Items(h)
    BY MovedFacts
  <2> HIDE DEF m
  <2>4. a \in Seq(Text) /\ a # <<>>
    BY <2>2
  <2> HIDE DEF a
  <2>5. g \in Header /\ g.name = h.name /\ g.array = a
    BY <2>2, <2>4, HeaderFacts
  <2> HIDE DEF g
  <2>6. Grown(g, Drawn(g, fault), fault) /\ Drawn(g, fault).h.array = a
    BY <2>4, <2>5, DrawnFacts
  <2>7. Solid(g)
    BY <2>4, <2>5 DEF Solid
  <2> HIDE DEF r
  <2>8. Grown(h, r, fault)
    BY <2>1, <2>5, <2>6, <2>7 DEF Grown
  <2>9. Items(r.h) = a
    BY <2>1, <2>4, <2>6 DEF Items
  <2> QED BY <2>3, <2>8, <2>9 DEF a, r
<1> QED BY <1>1, <1>2, <1>3

LEMMA FilledFacts ==
  ASSUME NEW h \in Header, NEW index \in Nat, NEW data \in Text, NEW fault,
         Len(h.array) <= index
  PROVE  Grown(h, Filled(h, index, data, fault), fault)
<1> DEFINE r == Filled(h, index, data, fault)
           pad == [i \in 1 .. index - Len(h.array) |-> <<>>]
           a == h.array \o pad \o <<data>>
           g == [h EXCEPT !.array = a]
<1>1. CASE fault = "grow"
  <2>1. r.h = h /\ r.ok = FALSE
    BY <1>1 DEF Filled
  <2> QED BY <1>1, <2>1 DEF Grown
<1>2. CASE fault # "grow"
  <2>1. r = Drawn(g, fault)
    BY <1>2 DEF Filled
  <2>2. h.array \in Seq(Text) /\ <<>> \in Text /\ Len(h.array) \in Nat
    BY HeaderFacts, TextFacts
  <2>3. index - Len(h.array) \in Nat
    BY <2>2
  <2>4. pad \in Seq(Text)
    BY <2>2, <2>3
  <2>5. <<data>> \in Seq(Text) /\ Len(<<data>>) = 1
    OBVIOUS
  <2> HIDE DEF pad
  <2>6. h.array \o pad \in Seq(Text)
    BY <2>2, <2>4
  <2>7. a \in Seq(Text) /\ Len(a) = Len(h.array \o pad) + 1
    BY <2>5, <2>6
  <2>8. a # <<>>
    BY <2>6, <2>7
  <2> HIDE DEF a
  <2>9. g \in Header /\ g.name = h.name /\ g.array = a
    BY <2>7, HeaderFacts
  <2> HIDE DEF g
  <2>10. Grown(g, Drawn(g, fault), fault)
    BY <2>8, <2>9, DrawnFacts
  <2>11. Solid(g)
    BY <2>8, <2>9 DEF Solid
  <2> HIDE DEF r
  <2> QED BY <2>1, <2>9, <2>10, <2>11 DEF Grown, r
<1> QED BY <1>1, <1>2

-----------------------------------------------------------------------------
(* Events.                                                                 *)

AllSolid(hs) == \A i \in DOMAIN hs : Solid(hs[i])

(* last_header is the last header of the list, and no header is empty.     *)
Sound(e) == e \in Event /\ e.last = Len(e.headers) /\ AllSolid(e.headers)

(* What r has made of e: an event in order that has all headers of other   *)
(* names as they were, and values in step unless it failed with fault.     *)
Spares(e, r, name) ==
  /\ Sound(r.ev) /\ r.ok \in BOOLEAN
  /\ Others(r.ev, name) = Others(e, name)

InStepAfter(e, r, fault) ==
  AllInStep(e) /\ (r.ok \/ fault = "none") => AllInStep(r.ev)

(* The headers of other names.                                             *)
OtherHeaders(name) == {h \in Header : ~Same(h.name, name)}

LEMMA OthersFacts ==
  ASSUME NEW e, NEW name
  PROVE  Others(e, name) = Only(e.headers, OtherHeaders(name))
BY DEF Others, OtherHeaders

LEMMA EventFacts ==
  ASSUME NEW e \in Event
  PROVE  /\ e.headers \in Seq(Header) /\ e.last \in Nat /\ e.uniq \in BOOLEAN
         /\ e.id \in EventType /\ e.subclass \in Text \cup {NULL}
         /\ e.body \in Text \cup {NULL} /\ e.priority \in String
         /\ Len(e.headers) \in Nat /\ DOMAIN e.headers = 1 .. Len(e.headers)
         /\ \A i \in DOMAIN e.headers : e.headers[i] \in Header
BY DEF Event

(* Another list of headers, whose end last_header is set to.               *)
Listed(e, hs) == [e EXCEPT !.headers = hs, !.last = Len(hs)]

LEMMA WithHeaders ==
  ASSUME NEW e, Sound(e), NEW hs \in Seq(Header), AllSolid(hs), NEW f, f = Listed(e, hs)
  PROVE  /\ Sound(f) /\ f.headers = hs /\ f.id = e.id /\ f.uniq = e.uniq
         /\ f.subclass = e.subclass /\ f.body = e.body
<1>1. e \in Event /\ Len(hs) \in Nat
  BY DEF Sound
<1>2. f \in Event /\ f.headers = hs /\ f.last = Len(hs) /\ f.id = e.id /\ f.uniq = e.uniq
      /\ f.subclass = e.subclass /\ f.body = e.body
  BY <1>1 DEF Event, Listed
<1>3. Sound(f)
  BY <1>2 DEF Sound
<1> QED BY <1>2, <1>3

(* One header replaced by another one of the same name.                    *)
WithHeader(e, i, h) == [e EXCEPT !.headers[i] = h]

LEMMA Replaced ==
  ASSUME NEW e, Sound(e), NEW i \in DOMAIN e.headers, NEW h \in Header, Solid(h),
         h.name = e.headers[i].name
  PROVE  LET f == WithHeader(e, i, h)
         IN /\ Sound(f) /\ Len(f.headers) = Len(e.headers) /\ f.headers[i] = h
            /\ \A j \in DOMAIN e.headers : j # i => f.headers[j] = e.headers[j]
            /\ \A name : Same(h.name, name) => Others(f, name) = Others(e, name)
            /\ AllInStep(e) /\ InStep(h) => AllInStep(f)
<1> DEFINE hs == [e.headers EXCEPT ![i] = h]
           f == WithHeader(e, i, h)
<1>1. e \in Event /\ e.last = Len(e.headers) /\ AllSolid(e.headers)
  BY DEF Sound
<1>2. e.headers \in Seq(Header) /\ DOMAIN e.headers = 1 .. Len(e.headers)
  BY <1>1, EventFacts
<1>3. /\ hs \in Seq(Header) /\ Len(hs) = Len(e.headers) /\ hs[i] = h
      /\ DOMAIN hs = DOMAIN e.headers
      /\ \A j \in DOMAIN e.headers : j # i => hs[j] = e.headers[j]
  BY <1>2
<1>4. f \in Event /\ f.headers = hs /\ f.last = e.last
  BY <1>1, <1>3 DEF Event, WithHeader
<1> HIDE DEF hs, f
<1>5. AllSolid(hs)
  BY <1>1, <1>3 DEF AllSolid
<1>6. Sound(f)
  BY <1>1, <1>3, <1>4, <1>5 DEF Sound
<1>7. ASSUME NEW name, Same(h.name, name) PROVE Others(f, name) = Others(e, name)
  <2> DEFINE S == OtherHeaders(name)
  <2>1. h \notin S /\ e.headers[i] \notin S
    BY <1>7 DEF OtherHeaders
  <2> HIDE DEF S
  <2>2. \A j \in 1 .. Len(hs) : hs[j] = e.headers[j] \/ (hs[j] \notin S /\ e.headers[j] \notin S)
    BY <1>2, <1>3, <2>1
  <2>3. Only(hs, S) = Only(e.headers, S)
    BY <1>2, <1>3, <2>2, OnlySame
  <2> QED BY <1>4, <2>3, OthersFacts DEF S
<1>8. AllInStep(e) /\ InStep(h) => AllInStep(f)
  BY <1>3, <1>4 DEF AllInStep
<1> QED BY <1>3, <1>4, <1>6, <1>7, <1>8 DEF f

(* A new header at either end of the list.                                 *)
LEMMA InsertedFacts ==
  ASSUME NEW e, Sound(e), NEW stack, NEW h \in Header, Solid(h)
  PROVE  LET f == Inserted(e, stack, h)
         IN /\ Sound(f)
            /\ \A name : Same(h.name, name) => Others(f, name) = Others(e, name)
            /\ AllInStep(e) /\ InStep(h) => AllInStep(f)
            /\ f.headers = IF HasTop(stack) THEN <<h>> \o e.headers ELSE Append(e.headers, h)
            /\ f.id = e.id /\ f.uniq = e.uniq /\ f.subclass = e.subclass /\ f.body = e.body
<1> DEFINE s == e.headers
           hs == IF HasTop(stack) THEN <<h>> \o s ELSE Append(s, h)
           f == Inserted(e, stack, h)
<1>1. e \in Event /\ e.last = Len(s) /\ AllSolid(s) /\ s \in Seq(Header) /\ Len(s) \in Nat
  BY EventFacts DEF Sound
<1>2. SubSeq(s, 1, e.last) = s
  BY <1>1
<1>3. f = [e EXCEPT !.headers = hs, !.last = e.last + 1]
  BY <1>2 DEF Inserted
<1>4. /\ hs \in Seq(Header) /\ Len(hs) = e.last + 1
      /\ \A j \in DOMAIN hs : hs[j] = h \/ \E k \in DOMAIN s : hs[j] = s[k]
  BY <1>1
<1>5. AllSolid(hs)
  BY <1>1, <1>4 DEF AllSolid
<1>6. ASSUME NEW name, Same(h.name, name)
      PROVE  Only(hs, OtherHeaders(name)) = Only(s, OtherHeaders(name))
  <2>1. h \notin OtherHeaders(name)
    BY <1>6 DEF OtherHeaders
  <2>2. Only(<<h>> \o s, OtherHeaders(name)) = Only(s, OtherHeaders(name))
    BY <1>1, <2>1, OnlyInFront
  <2>3. Only(Append(s, h), OtherHeaders(name)) = Only(s, OtherHeaders(name))
    BY <1>1, <2>1, OnlyAppend
  <2> QED BY <2>2, <2>3
<1>7. (\A k \in DOMAIN s : InStep(s[k])) /\ InStep(h) => \A j \in DOMAIN hs : InStep(hs[j])
  BY <1>4
<1>8. hs = IF HasTop(stack) THEN <<h>> \o e.headers ELSE Append(e.headers, h)
  OBVIOUS
<1> HIDE DEF hs, f
<1>9. Sound(f) /\ f.headers = hs /\ f.id = e.id /\ f.uniq = e.uniq
      /\ f.subclass = e.subclass /\ f.body = e.body
  <2>1. f = Listed(e, hs)
    BY <1>1, <1>3, <1>4 DEF Listed
  <2> QED BY <1>4, <1>5, <2>1, WithHeaders
<1>10. ASSUME NEW name, Same(h.name, name) PROVE Others(f, name) = Others(e, name)
  BY <1>6, <1>9, <1>10, OthersFacts
<1>11. AllInStep(e) /\ InStep(h) => AllInStep(f)
  BY <1>7, <1>9 DEF AllInStep
<1> QED BY <1>8, <1>9, <1>10, <1>11 DEF f

(* Headers of one name that go.                                            *)
LEMMA DeletedFacts ==
  ASSUME NEW e, Sound(e), NEW name, NEW val
  PROVE  LET f == Deleted(e, name, val)
         IN /\ Sound(f)
            /\ Others(f, name) = Others(e, name)
            /\ AllInStep(e) => AllInStep(f)
            /\ f.id = e.id /\ f.uniq = e.uniq /\ f.subclass = e.subclass /\ f.body = e.body
<1> DEFINE s == e.headers
           n == Len(s)
           gone(h) == Same(h.name, name) /\ (val = <<>> \/ h.value = val)
           K == {h \in Header : ~gone(h)}
           hs == Only(s, K)
           f == Deleted(e, name, val)
<1>1. e \in Event /\ e.last = n /\ AllSolid(s) /\ s \in Seq(Header) /\ n \in Nat
  BY EventFacts DEF Sound
<1>2. SubSeq(s, 1, n) = s
  BY <1>1
<1>3. (IF n > 0 /\ gone(s[n]) THEN n ELSE e.last) = n
  BY <1>1
<1>4. f = Listed(e, hs)
  BY <1>2, <1>3 DEF Deleted, Listed
<1>5. OtherHeaders(name) \subseteq K
  BY DEF OtherHeaders
<1> HIDE DEF K
<1>6. hs \in Seq(Header)
  BY <1>1, OnlyType
<1>7. \A j \in 1 .. Len(hs) : \E k \in 1 .. Len(s) : hs[j] = s[k]
  BY <1>1, OnlyFrom
<1>8. Only(hs, OtherHeaders(name)) = Only(s, OtherHeaders(name))
  BY <1>1, <1>5, OnlyAfter
<1> HIDE DEF hs, f
<1>9. DOMAIN hs = 1 .. Len(hs) /\ DOMAIN s = 1 .. Len(s)
  BY <1>1, <1>6
<1>10. AllSolid(hs)
  BY <1>1, <1>7, <1>9 DEF AllSolid
<1>11. Sound(f) /\ f.headers = hs /\ f.id = e.id /\ f.uniq = e.uniq
       /\ f.subclass = e.subclass /\ f.body = e.body
  BY <1>4, <1>6, <1>10, WithHeaders
<1>12. Others(f, name) = Others(e, name)
  BY <1>8, <1>11, OthersFacts
<1>13. AllInStep(e) => AllInStep(f)
  BY <1>7, <1>9, <1>11 DEF AllInStep
<1> QED BY <1>11, <1>12, <1>13 DEF f

LEMMA ClearedFacts ==
  ASSUME NEW e, Sound(e), NEW name
  PROVE  LET f == Cleared(e, name)
         IN /\ Sound(f)
            /\ Others(f, name) = Others(e, name)
            /\ AllInStep(e) => AllInStep(f)
            /\ f.id = e.id /\ f.uniq = e.uniq /\ f.subclass = e.subclass /\ f.body = e.body
<1>1. CASE e.uniq
  <2>1. Cleared(e, name) = Deleted(e, name, <<>>)
    BY <1>1 DEF Cleared
  <2> QED BY <2>1, DeletedFacts
<1>2. CASE ~e.uniq
  BY <1>2 DEF Cleared
<1> QED BY <1>1, <1>2

(* The first header of a name.                                             *)
LEMMA FindFacts ==
  ASSUME NEW e, Sound(e), NEW name
  PROVE  /\ Find(e, name) \in Nat
         /\ Find(e, name) # 0 => /\ Find(e, name) \in DOMAIN e.headers
                                 /\ Same(e.headers[Find(e, name)].name, name)
         /\ Find(e, name) = 0 => \A i \in DOMAIN e.headers : ~Same(e.headers[i].name, name)
<1> DEFINE named == {i \in DOMAIN e.headers : Same(e.headers[i].name, name)}
<1>1. DOMAIN e.headers = 1 .. Len(e.headers) /\ Len(e.headers) \in Nat
  BY EventFacts DEF Sound
<1>2. named \in SUBSET Nat /\ \A i \in named : i # 0
  BY <1>1
<1>3. Find(e, name) = IF named = {} THEN 0 ELSE CHOOSE i \in named : \A j \in named : i <= j
  BY DEF Find
<1>4. \A i : i \in named <=> i \in DOMAIN e.headers /\ Same(e.headers[i].name, name)
  OBVIOUS
<1> HIDE DEF named
<1>5. CASE named = {}
  BY <1>3, <1>4, <1>5
<1>6. CASE named # {}
  <2>1. \E i \in named : \A j \in named : i <= j
    BY <1>2, <1>6, LeastNatural
  <2>2. Find(e, name) \in named
    BY <1>3, <1>6, <2>1
  <2> QED BY <1>2, <1>4, <2>2
<1> QED BY <1>5, <1>6

(* The body, and what else is no header.                                   *)
LEMMA WithBodyFacts ==
  ASSUME NEW e, Sound(e), NEW body \in Text, NEW fault
  PROVE  LET r == WithBody(e, body, fault)
         IN Sound(r.ev) /\ r.ok \in BOOLEAN /\ r.ev.headers = e.headers
<1>1. \A b \in Text \cup {NULL} : Sound([e EXCEPT !.body = b]) /\ [e EXCEPT !.body = b].headers = e.headers
  BY DEF Sound, Event
<1> QED BY <1>1 DEF WithBody, Failed, Done

LEMMA SameHeadersFacts ==
  ASSUME NEW e, NEW f, f.headers = e.headers
  PROVE  /\ \A name : Others(f, name) = Others(e, name)
         /\ AllInStep(f) <=> AllInStep(e)
BY DEF Others, AllInStep

-----------------------------------------------------------------------------
(* The calls that add to an event.                                         *)

LEMMA FailedFacts ==
  ASSUME NEW e, Sound(e), NEW name, NEW fault
  PROVE  Spares(e, Failed(e), name) /\ InStepAfter(e, Failed(e), fault)
BY DEF Failed, Spares, InStepAfter

(* A header of the list that has grown.                                    *)
LEMMA KeptFacts ==
  ASSUME NEW e, Sound(e), NEW i \in DOMAIN e.headers, NEW fault, NEW r,
         Grown(e.headers[i], r, fault), NEW name, Same(e.headers[i].name, name)
  PROVE  /\ Spares(e, Kept(e, i, r), name) /\ InStepAfter(e, Kept(e, i, r), fault)
         /\ Kept(e, i, r).ev.headers[i] = r.h /\ Kept(e, i, r).ok = r.ok
<1> DEFINE h == r.h
           f == WithHeader(e, i, h)
<1>1. Solid(e.headers[i])
  BY DEF Sound, AllSolid
<1>2. /\ r.h \in Header /\ Solid(r.h) /\ r.h.name = e.headers[i].name /\ r.ok \in BOOLEAN
      /\ r.ok \/ fault = "none" => InStep(r.h)
  BY <1>1 DEF Grown
<1>3. Kept(e, i, r) = [ev |-> f, ok |-> r.ok]
  BY Zenon DEF Kept, WithHeader
<1>4. h \in Header /\ Solid(h) /\ h.name = e.headers[i].name
  BY <1>2
<1> HIDE DEF h
<1>5. /\ Sound(f) /\ f.headers[i] = h
      /\ Same(h.name, name) => Others(f, name) = Others(e, name)
      /\ AllInStep(e) /\ InStep(h) => AllInStep(f)
  BY <1>4, Replaced
<1> HIDE DEF f
<1> QED BY <1>2, <1>3, <1>4, <1>5 DEF Spares, InStepAfter, h

(* A new header that joins the list unless it failed.                      *)
LEMMA AcceptedFacts ==
  ASSUME NEW e, Sound(e), NEW stack, NEW name \in String, NEW fault, NEW r,
         Grown(NewHeader(name), r, fault)
  PROVE  /\ Spares(e, Accepted(e, stack, r), name)
         /\ InStepAfter(e, Accepted(e, stack, r), fault)
<1>1. /\ r.h \in Header /\ r.h.name = name /\ r.ok \in BOOLEAN
      /\ r.ok => Solid(r.h) /\ InStep(r.h)
  BY NewHeaderFacts DEF Grown
<1>2. CASE r.ok
  <2> DEFINE h == r.h
             f == Inserted(e, stack, h)
  <2>1. Accepted(e, stack, r) = [ev |-> f, ok |-> TRUE]
    BY <1>2 DEF Accepted, Done
  <2>2. h \in Header /\ Solid(h) /\ InStep(h) /\ Same(h.name, name)
    BY <1>1, <1>2 DEF Same
  <2> HIDE DEF h
  <2>3. /\ Sound(f)
        /\ Same(h.name, name) => Others(f, name) = Others(e, name)
        /\ AllInStep(e) /\ InStep(h) => AllInStep(f)
    BY <2>2, InsertedFacts
  <2> HIDE DEF f
  <2> QED BY <1>1, <1>2, <2>1, <2>2, <2>3 DEF Spares, InStepAfter
<1>3. CASE ~r.ok
  <2>1. Accepted(e, stack, r) = Failed(e)
    BY <1>3 DEF Accepted
  <2> QED BY <2>1, FailedFacts
<1> QED BY <1>1, <1>2, <1>3

(* An existing header is extended, or loses its value to TOP.              *)
LEMMA ExtendedFacts ==
  ASSUME NEW e, Sound(e), NEW i \in DOMAIN e.headers, NEW name, Same(e.headers[i].name, name),
         NEW stack \in Stack, NEW data \in Text, NEW fault
  PROVE  LET r == Extended(e, i, stack, data, fault)
         IN /\ Spares(e, r, name)
            /\ HasPush(stack) => InStepAfter(e, r, fault)
<1> DEFINE h == e.headers[i]
<1>1. h \in Header
  BY EventFacts DEF Sound
<1>2. HasPush(WithoutTop(stack)) <=> HasPush(stack)
  <2>1. CASE stack \in {"BOTTOM", "TOP"}
    BY <2>1 DEF HasPush, WithoutTop
  <2>2. CASE stack \in {"PUSH", "UNSHIFT"}
    BY <2>2 DEF HasPush, WithoutTop
  <2> QED BY <2>1, <2>2 DEF Stack
<1>3. CASE HasPush(stack)
  <2>1. Extended(e, i, stack, data, fault) = Kept(e, i, Pushed(h, data, fault))
    BY <1>2, <1>3 DEF Extended
  <2> DEFINE g == Pushed(h, data, fault)
  <2>2. Grown(e.headers[i], g, fault)
    <3> HIDE DEF h
    <3>1. Grown(h, g, fault)
      BY <1>1, PushedFacts
    <3> QED BY <3>1 DEF h
  <2> HIDE DEF g
  <2>3. Spares(e, Kept(e, i, g), name) /\ InStepAfter(e, Kept(e, i, g), fault)
    BY <2>2, KeptFacts
  <2> QED BY <2>1, <2>3 DEF g
<1>4. CASE ~HasPush(stack)
  <2> DEFINE g == [h EXCEPT !.value = data]
             f == WithHeader(e, i, g)
  <2>1. /\ g \in Header /\ g.name = e.headers[i].name /\ g.value = data /\ data # NULL
    BY <1>1, NullIsNoText, HeaderFacts
  <2>2. Extended(e, i, stack, data, fault) = [ev |-> f, ok |-> TRUE]
    <3>1. Extended(e, i, stack, data, fault) = Done([e EXCEPT !.headers[i].value = data])
      BY <1>2, <1>4 DEF Extended
    <3>2. [e EXCEPT !.headers[i].value = data] = f
      BY Zenon DEF WithHeader
    <3> QED BY <3>1, <3>2 DEF Done
  <2>3. Solid(g) /\ Same(g.name, name)
    BY <2>1 DEF Solid
  <2> HIDE DEF g
  <2>4. Sound(f) /\ (Same(g.name, name) => Others(f, name) = Others(e, name))
    BY <2>1, <2>3, Replaced
  <2> HIDE DEF f
  <2> QED BY <1>4, <2>2, <2>3, <2>4 DEF Spares
<1> QED BY <1>3, <1>4

LEMMA JoinedFacts ==
  ASSUME NEW e, Sound(e), NEW stack, NEW name \in String, NEW data \in Text, NEW fault
  PROVE  LET r == Joined(e, stack, name, data, fault)
         IN Spares(e, r, name) /\ InStepAfter(e, r, fault)
<1>1. NewHeader(name) \in Header
  BY NewHeaderFacts
<1>2. CASE fault = "new"
  <2>1. Joined(e, stack, name, data, fault) = Failed(e)
    BY <1>2 DEF Joined
  <2> QED BY <2>1, FailedFacts
<1>3. CASE fault # "new" /\ HasPushOrUnshift(stack)
  <2> DEFINE g == Pushed(NewHeader(name), data, fault)
  <2>1. Joined(e, stack, name, data, fault) = Accepted(e, stack, g)
    BY <1>3 DEF Joined
  <2>2. Grown(NewHeader(name), g, fault)
    BY <1>1, PushedFacts
  <2> HIDE DEF g
  <2> QED BY <2>1, <2>2, AcceptedFacts
<1>4. CASE fault # "new" /\ ~HasPushOrUnshift(stack)
  <2> DEFINE g == [NewHeader(name) EXCEPT !.value = data]
             f == Inserted(e, stack, g)
  <2>1. Joined(e, stack, name, data, fault) = [ev |-> f, ok |-> TRUE]
    BY <1>4 DEF Joined, Done
  <2>2. /\ g \in Header /\ g.name = NewHeader(name).name /\ g.value = data
        /\ g.array = NewHeader(name).array
    BY <1>1, HeaderFacts
  <2>3. g.name = name /\ g.array = <<>> /\ data # NULL
    BY <2>2, NewHeaderFacts, NullIsNoText
  <2>4. Solid(g) /\ InStep(g) /\ Same(g.name, name)
    BY <2>2, <2>3 DEF Solid, InStep, Same
  <2> HIDE DEF g
  <2>5. /\ Sound(f) /\ (Same(g.name, name) => Others(f, name) = Others(e, name))
        /\ AllInStep(e) /\ InStep(g) => AllInStep(f)
    BY <2>2, <2>4, InsertedFacts
  <2> HIDE DEF f
  <2> QED BY <2>1, <2>4, <2>5 DEF Spares, InStepAfter
<1> QED BY <1>2, <1>3, <1>4

(* esl_event_base_add_header where it does not cut the value.              *)
LEMMA AddedWholeFacts ==
  ASSUME NEW e, Sound(e), NEW stack \in Stack, NEW name \in String, NEW data \in Text, NEW fault
  PROVE  LET r == AddedWhole(e, stack, name, data, fault)
         IN /\ Spares(e, r, name)
            /\ stack # "TOP" => InStepAfter(e, r, fault)
<1> DEFINE r == AddedWhole(e, stack, name, data, fault)
<1>1. CASE fault = "copy"
  <2>1. r = Failed(e)
    BY <1>1 DEF AddedWhole
  <2> QED BY <2>1, FailedFacts
<1>2. CASE fault # "copy" /\ name = "_body"
  <2> DEFINE w == WithBody(e, data, IF fault = "new" THEN "copy" ELSE "none")
  <2>1. r = w
    BY <1>2 DEF AddedWhole
  <2>2. Sound(w.ev) /\ w.ok \in BOOLEAN /\ w.ev.headers = e.headers
    BY WithBodyFacts
  <2> HIDE DEF w
  <2>3. Spares(e, w, name) /\ InStepAfter(e, w, fault)
    BY <2>2, SameHeadersFacts DEF Spares, InStepAfter
  <2> QED BY <2>1, <2>3
<1>3. CASE fault # "copy" /\ name # "_body" /\ Extends(e, stack, name)
  <2> DEFINE i == Find(e, name)
  <2>1. r = Extended(e, i, stack, data, fault)
    BY <1>3 DEF AddedWhole
  <2>2. i \in DOMAIN e.headers /\ Same(e.headers[i].name, name)
    BY <1>3, FindFacts DEF Extends
  <2>3. stack # "TOP" => HasPush(stack)
    BY <1>3 DEF Extends, HasPush, HasPushOrUnshift
  <2> HIDE DEF i
  <2>4. /\ Spares(e, Extended(e, i, stack, data, fault), name)
        /\ HasPush(stack) => InStepAfter(e, Extended(e, i, stack, data, fault), fault)
    BY <2>2, ExtendedFacts
  <2> QED BY <2>1, <2>3, <2>4
<1>4. CASE fault # "copy" /\ name # "_body" /\ ~Extends(e, stack, name) /\ data = <<>>
  <2> DEFINE f == Deleted(e, name, <<>>)
  <2>1. r = [ev |-> f, ok |-> TRUE]
    BY <1>4 DEF AddedWhole, Done
  <2>2. Sound(f) /\ Others(f, name) = Others(e, name) /\ (AllInStep(e) => AllInStep(f))
    BY DeletedFacts
  <2> HIDE DEF f
  <2> QED BY <2>1, <2>2 DEF Spares, InStepAfter
<1>5. CASE fault # "copy" /\ name # "_body" /\ ~Extends(e, stack, name) /\ data # <<>>
  <2> DEFINE f == Cleared(e, name)
             g == Joined(f, stack, name, data, fault)
  <2>1. r = g
    BY <1>5 DEF AddedWhole
  <2>2. Sound(f) /\ Others(f, name) = Others(e, name) /\ (AllInStep(e) => AllInStep(f))
    BY ClearedFacts
  <2> HIDE DEF f
  <2>3. Spares(f, g, name) /\ InStepAfter(f, g, fault)
    BY <2>2, JoinedFacts
  <2> HIDE DEF g
  <2> QED BY <2>1, <2>2, <2>3 DEF Spares, InStepAfter
<1> QED BY <1>1, <1>2, <1>3, <1>4, <1>5

(* A number of turns, one at least for each item.                          *)
LEMMA EnoughType ==
  ASSUME NEW items \in Seq(Text)
  PROVE  Enough(items) \in Nat /\ Enough(items) >= Len(items)
<1> DEFINE n == Len(items)
           Step(i, x) == x + 2 * Len(items[i]) + 1
           Item(f, i) == IF i = 0 THEN 0 ELSE Step(i, f[i - 1])
           Raw(f) == [i \in 0 .. n |-> Item(f, i)]
           H == [i \in 1 .. n |-> [x \in Nat |-> Step(i, x)]]
           d == CHOOSE f : f = Raw(f)
<1>1. Enough(items) = d[n]
  BY Zenon DEF Enough
<1>2. n \in Nat
  OBVIOUS
<1>3. ASSUME NEW i \in 1 .. n, NEW x \in Nat PROVE Step(i, x) \in Nat /\ Step(i, x) >= x + 1
  <2>1. Len(items[i]) \in Nat
    BY DEF Text
  <2> QED BY <2>1
<1>4. \A f : \A i \in 0 .. n : Raw(f)[i] = Item(f, i)
  BY Zenon
<1>5. ASSUME NEW f, NEW i \in 1 .. n PROVE Item(f, i) = Step(i, f[i - 1])
  BY i # 0
<1>6. \A f : Item(f, 0) = 0
  OBVIOUS
<1> HIDE DEF Step, Item, n
<1>7. \A i \in 1 .. n : \A x \in Nat : H[i][x] = Step(i, x)
  BY Zenon
<1>8. Steps(n, Nat, H)
  BY <1>3 DEF Steps
<1> HIDE DEF H
<1>9. PICK f : Runs(f, n, Nat, 0, H)
  BY <1>2, <1>8, Iterates
<1>10. f \in [0 .. n -> Nat] /\ f[0] = 0 /\ \A i \in 1 .. n : f[i] = H[i][f[i - 1]]
  BY <1>9 DEF Runs
<1>11. f = Raw(f)
  <2>1. ASSUME NEW i \in 0 .. n PROVE f[i] = Item(f, i)
    <3>1. CASE i = 0
      BY <1>6, <1>10, <3>1
    <3>2. CASE i # 0
      <4>1. i \in 1 .. n /\ i - 1 \in 0 .. n
        BY <1>2, <3>2
      <4>2. f[i] = Step(i, f[i - 1])
        BY <1>7, <1>10, <4>1
      <4> QED BY <1>5, <4>1, <4>2
    <3> QED BY <3>1, <3>2
  <2>2. f = [i \in 0 .. n |-> f[i]]
    BY <1>10
  <2> QED BY <2>1, <2>2
<1>12. d = Raw(d)
  <2> HIDE DEF Raw
  <2> QED BY <1>11
<1> HIDE DEF d, Raw
<1>13. \A i \in 0 .. n : d[i] = Item(d, i)
  BY <1>4, <1>12
<1> DEFINE G == {i \in 0 .. n : d[i] \in Nat /\ d[i] >= i}
<1>14. 0 \in G
  <2>1. 0 \in 0 .. n
    BY <1>2
  <2> QED BY <1>6, <1>13, <2>1
<1>15. ASSUME NEW i \in 1 .. n, i - 1 \in G PROVE i \in G
  <2>1. i \in 0 .. n
    BY <1>2
  <2>2. d[i] = Step(i, d[i - 1])
    BY <1>5, <1>13, <2>1
  <2>3. Step(i, d[i - 1]) \in Nat /\ Step(i, d[i - 1]) >= d[i - 1] + 1
    BY <1>3, <1>15
  <2>4. d[i - 1] \in Nat /\ d[i - 1] >= i - 1
    BY <1>15
  <2> QED BY <1>2, <2>1, <2>2, <2>3, <2>4
<1>16. G = 0 .. n
  <2>1. G \in SUBSET (0 .. n)
    OBVIOUS
  <2> HIDE DEF G
  <2> QED BY <1>2, <1>14, <1>15, <2>1, Inductive
<1>17. n \in 0 .. n
  BY <1>2
<1> QED BY <1>1, <1>16, <1>17 DEF n

(* Turn after turn, within any set T that a turn does not leave.           *)
Begun(e, items) == [ev |-> e, ok |-> TRUE, todo |-> items]

Pushes(d, e, name, items, fault, T) ==
  /\ d[0] = Begun(e, items)
  /\ \A i \in 1 .. Enough(items) : d[i] = Turn(d[i - 1], name, fault)
  /\ \A i \in 0 .. Enough(items) : d[i] \in T
  /\ AllPushed(e, name, items, fault)
       = [ev |-> d[Enough(items)].ev, ok |-> d[Enough(items)].ok]

LEMMA AllPushedBy ==
  ASSUME NEW e, NEW name, NEW items \in Seq(Text), NEW fault, NEW T,
         Begun(e, items) \in T, \A r \in T : Turn(r, name, fault) \in T
  PROVE  \E d : Pushes(d, e, name, items, fault, T)
<1> DEFINE n == Enough(items)
           o == Begun(e, items)
           Step(x) == Turn(x, name, fault)
           Item(f, i) == IF i = 0 THEN o ELSE Step(f[i - 1])
           Raw(f) == [i \in 0 .. n |-> Item(f, i)]
           H == [i \in 1 .. n |-> [x \in T |-> Step(x)]]
           d == CHOOSE f : f = Raw(f)
<1>1. AllPushed(e, name, items, fault) = [ev |-> d[n].ev, ok |-> d[n].ok]
  BY Zenon DEF AllPushed, Begun
<1>2. n \in Nat
  BY EnoughType
<1>3. o \in T /\ \A x \in T : Step(x) \in T
  OBVIOUS
<1>4. \A f : \A i \in 0 .. n : Raw(f)[i] = Item(f, i)
  BY Zenon
<1>5. ASSUME NEW f, NEW i \in 1 .. n PROVE Item(f, i) = Step(f[i - 1])
  <2>1. i # 0
    BY <1>2
  <2> QED BY <2>1, Zenon
<1>6. \A f : Item(f, 0) = o
  OBVIOUS
<1> HIDE DEF Step, Item, n, o
<1>7. \A i \in 1 .. n : \A x \in T : H[i][x] = Step(x)
  BY Zenon
<1>8. Steps(n, T, H)
  BY <1>3 DEF Steps
<1> HIDE DEF H
<1>9. PICK f : Runs(f, n, T, o, H)
  BY <1>2, <1>3, <1>8, Iterates
<1>10. f \in [0 .. n -> T] /\ f[0] = o /\ \A i \in 1 .. n : f[i] = H[i][f[i - 1]]
  BY <1>9 DEF Runs
<1>11. f = Raw(f)
  <2>1. ASSUME NEW i \in 0 .. n PROVE f[i] = Item(f, i)
    <3>1. CASE i = 0
      BY <1>6, <1>10, <3>1
    <3>2. CASE i # 0
      <4>1. i \in 1 .. n /\ i - 1 \in 0 .. n
        BY <1>2, <3>2
      <4>2. f[i] = Step(f[i - 1])
        BY <1>7, <1>10, <4>1
      <4> QED BY <1>5, <4>1, <4>2
    <3> QED BY <3>1, <3>2
  <2>2. f = [i \in 0 .. n |-> f[i]]
    BY <1>10
  <2> QED BY <2>1, <2>2
<1>12. d = Raw(d)
  <2> HIDE DEF Raw
  <2> QED BY <1>11
<1> HIDE DEF d, Raw
<1>13. d[0] = o
  <2>1. 0 \in 0 .. n
    BY <1>2
  <2>2. d[0] = Item(d, 0)
    BY <1>4, <1>12, <2>1
  <2> QED BY <1>6, <2>2
<1>14. ASSUME NEW i \in 1 .. n PROVE d[i] = Step(d[i - 1])
  <2>1. i \in 0 .. n
    BY <1>2
  <2> QED BY <1>4, <1>5, <1>12, <2>1
<1> DEFINE G == {i \in 0 .. n : d[i] \in T}
<1>15. 0 \in G
  <2>1. 0 \in 0 .. n
    BY <1>2
  <2> QED BY <1>3, <1>13, <2>1
<1>16. ASSUME NEW i \in 1 .. n, i - 1 \in G PROVE i \in G
  <2>1. i \in 0 .. n
    BY <1>2
  <2> QED BY <1>3, <1>14, <1>16, <2>1
<1>17. G = 0 .. n
  <2>1. G \in SUBSET (0 .. n)
    OBVIOUS
  <2> HIDE DEF G
  <2> QED BY <1>2, <1>15, <1>16, <2>1, Inductive
<1>18. \A i \in 0 .. n : d[i] \in T
  BY <1>17
<1> QED BY <1>1, <1>13, <1>14, <1>18 DEF n, o, Step, Pushes

(* The states between the items of an array.                               *)
PushTurns(e, name, fault) ==
  {r \in [ev : Event, ok : BOOLEAN, todo : Seq(Text)] :
     Spares(e, r, name) /\ InStepAfter(e, r, fault)}

LEMMA TurnFacts ==
  ASSUME NEW e, Sound(e), NEW name \in String, NEW fault, NEW r \in PushTurns(e, name, fault)
  PROVE  Turn(r, name, fault) \in PushTurns(e, name, fault)
<1> DEFINE data == Head(r.todo)
           f == IF Len(r.todo) = 1 THEN fault ELSE "none"
           whole == AddedWhole(r.ev, "PUSH", name, data, f)
           clear == Cleared(r.ev, name)
<1>1. /\ r.ok \in BOOLEAN /\ r.todo \in Seq(Text) /\ Sound(r.ev)
      /\ Others(r.ev, name) = Others(e, name)
      /\ AllInStep(e) /\ (r.ok \/ fault = "none") => AllInStep(r.ev)
  BY DEF PushTurns, Spares, InStepAfter
<1>2. CASE ~r.ok \/ r.todo = <<>>
  BY <1>2 DEF Turn
<1>3. CASE r.ok /\ r.todo # <<>> /\ IsCut(r.ev, "PUSH", name, data, f)
  <2> DEFINE todo == IF Len(data) > 1 THEN Pieces(data) \o Tail(r.todo) ELSE <<>>
             ok == Len(data) > 1
  <2>1. Turn(r, name, fault) = [ev |-> clear, ok |-> ok, todo |-> todo]
    BY <1>3 DEF Turn
  <2>2. data \in Text /\ Tail(r.todo) \in Seq(Text) /\ ok \in BOOLEAN
    BY <1>1, <1>3
  <2>3. todo \in Seq(Text)
    <3>1. CASE ok
      <4> HIDE DEF data
      <4>1. Pieces(data) \in Seq(Text)
        BY <2>2, <3>1, PiecesType
      <4> QED BY <2>2, <3>1, <4>1, ConcatProperties
    <3>2. CASE ~ok
      BY <3>2
    <3> QED BY <3>1, <3>2
  <2>4. Sound(clear) /\ Others(clear, name) = Others(r.ev, name)
        /\ (AllInStep(r.ev) => AllInStep(clear))
    <3> DEFINE g == r.ev
    <3>1. Sound(g)
      BY <1>1
    <3> HIDE DEF g
    <3>2. Sound(Cleared(g, name)) /\ Others(Cleared(g, name), name) = Others(g, name)
          /\ (AllInStep(g) => AllInStep(Cleared(g, name)))
      BY <3>1, ClearedFacts
    <3> QED BY <3>2 DEF g
  <2> HIDE DEF todo, ok, clear
  <2>5. [ev |-> clear, ok |-> ok, todo |-> todo] \in PushTurns(e, name, fault)
    BY <1>1, <1>3, <2>2, <2>3, <2>4 DEF PushTurns, Spares, InStepAfter, Sound
  <2> QED BY <2>1, <2>5
<1>4. CASE r.ok /\ r.todo # <<>> /\ ~IsCut(r.ev, "PUSH", name, data, f)
  <2> DEFINE rest == Tail(r.todo)
  <2>1. Turn(r, name, fault) = [ev |-> whole.ev, ok |-> whole.ok, todo |-> rest]
    BY <1>4 DEF Turn
  <2>2. data \in Text /\ rest \in Seq(Text) /\ "PUSH" \in Stack /\ "PUSH" # "TOP"
    BY <1>1, <1>4 DEF Stack
  <2>3. Spares(r.ev, whole, name) /\ InStepAfter(r.ev, whole, f)
    <3> DEFINE g == r.ev
               s == "PUSH"
    <3>1. Sound(g) /\ s \in Stack /\ s # "TOP"
      BY <1>1, <2>2
    <3> HIDE DEF g, data, f, s
    <3>2. /\ Spares(g, AddedWhole(g, s, name, data, f), name)
          /\ InStepAfter(g, AddedWhole(g, s, name, data, f), f)
      BY <2>2, <3>1, AddedWholeFacts
    <3> QED BY <3>2 DEF g, s
  <2>4. fault = "none" => f = "none"
    OBVIOUS
  <2> HIDE DEF whole, rest, f, data
  <2>5. [ev |-> whole.ev, ok |-> whole.ok, todo |-> rest] \in PushTurns(e, name, fault)
    BY <1>1, <1>4, <2>2, <2>3, <2>4 DEF PushTurns, Spares, InStepAfter, Sound
  <2> QED BY <2>1, <2>5
<1> QED BY <1>2, <1>3, <1>4

LEMMA AllPushedFacts ==
  ASSUME NEW e, Sound(e), NEW name \in String, NEW items \in Seq(Text), NEW fault
  PROVE  LET r == AllPushed(e, name, items, fault)
         IN Spares(e, r, name) /\ InStepAfter(e, r, fault)
<1> DEFINE T == PushTurns(e, name, fault)
           n == Enough(items)
<1>1. Begun(e, items) \in T
  BY DEF Begun, PushTurns, Spares, InStepAfter, Sound
<1>2. \A r \in T : Turn(r, name, fault) \in T
  BY TurnFacts
<1> HIDE DEF T
<1>3. PICK d : Pushes(d, e, name, items, fault, T)
  BY <1>1, <1>2, AllPushedBy
<1>4. n \in 0 .. n
  BY EnoughType
<1> HIDE DEF n
<1>5. d[n] \in T /\ AllPushed(e, name, items, fault) = [ev |-> d[n].ev, ok |-> d[n].ok]
  BY <1>3, <1>4 DEF Pushes, n
<1>6. Spares(e, d[n], name) /\ InStepAfter(e, d[n], fault)
  BY <1>5 DEF T, PushTurns
<1> QED BY <1>5, <1>6 DEF Spares, InStepAfter

LEMMA ArrayAddedFacts ==
  ASSUME NEW e, Sound(e), NEW name \in String, NEW val \in Text, NEW fault
  PROVE  LET r == ArrayAdded(e, name, val, fault)
         IN Spares(e, r, name) /\ InStepAfter(e, r, fault)
<1>1. CASE Len(val) < 2
  <2>1. ArrayAdded(e, name, val, fault) = Failed(e)
    BY <1>1 DEF ArrayAdded
  <2> QED BY <2>1, FailedFacts
<1>2. CASE ~(Len(val) < 2)
  <2> DEFINE items == Pieces(val)
  <2>1. ArrayAdded(e, name, val, fault) = AllPushed(e, name, items, fault)
    BY <1>2 DEF ArrayAdded
  <2>2. Len(val) > 1
    BY <1>2 DEF Text
  <2>3. items \in Seq(Text)
    BY <2>2, PiecesType
  <2> HIDE DEF items
  <2> QED BY <2>1, <2>3, AllPushedFacts
<1> QED BY <1>1, <1>2

(* esl_event_base_add_header.                                              *)
LEMMA AddedFacts ==
  ASSUME NEW e, Sound(e), NEW stack \in Stack, NEW name \in String, NEW data \in Text, NEW fault
  PROVE  LET r == Added(e, stack, name, data, fault)
         IN /\ Spares(e, r, name)
            /\ stack # "TOP" => InStepAfter(e, r, fault)
<1>1. CASE IsCut(e, stack, name, data, fault)
  <2> DEFINE f == Cleared(e, name)
             r == ArrayAdded(f, name, data, fault)
  <2>1. Added(e, stack, name, data, fault) = r
    BY <1>1 DEF Added
  <2>2. Sound(f) /\ Others(f, name) = Others(e, name) /\ (AllInStep(e) => AllInStep(f))
    BY ClearedFacts
  <2> HIDE DEF f
  <2>3. Spares(f, r, name) /\ InStepAfter(f, r, fault)
    BY <2>2, ArrayAddedFacts
  <2> HIDE DEF r
  <2> QED BY <2>1, <2>2, <2>3 DEF Spares, InStepAfter
<1>2. CASE ~IsCut(e, stack, name, data, fault)
  <2>1. Added(e, stack, name, data, fault) = AddedWhole(e, stack, name, data, fault)
    BY <1>2 DEF Added
  <2> QED BY <2>1, AddedWholeFacts
<1> QED BY <1>1, <1>2

(* The same for name[index].                                               *)
LEMMA AddedAtFacts ==
  ASSUME NEW e, Sound(e), NEW stack, NEW name \in String, NEW index \in Nat,
         NEW data \in Text, NEW fault
  PROVE  Spares(e, AddedAt(e, stack, name, index, data, fault), name)
<1> DEFINE i == Find(e, name)
           h == IF i = 0 THEN NewHeader(name) ELSE e.headers[i]
           r == IndexAdded(e, stack, i, h, index, data, fault)
           g == Filled(h, index, data, fault)
<1>1. AddedAt(e, stack, name, index, data, fault) = r
  BY DEF AddedAt
<1>2. i # 0 => i \in DOMAIN e.headers /\ Same(e.headers[i].name, name) /\ h = e.headers[i]
  BY FindFacts
<1>3. i = 0 => h = NewHeader(name)
  OBVIOUS
<1>4. h \in Header
  <2>1. i # 0 => e.headers[i] \in Header
    BY <1>2, EventFacts DEF Sound
  <2> HIDE DEF i
  <2> QED BY <2>1, NewHeaderFacts
<1> HIDE DEF i, h
<1>5. CASE fault = "copy" \/ (fault = "new" /\ i = 0)
  <2>1. i = 0 => ~(index < Len(h.array))
    BY <1>3, NewHeaderFacts
  <2>2. r = Failed(e)
    BY <1>5, <2>1 DEF IndexAdded
  <2> QED BY <1>1, <2>2, FailedFacts
<1>6. CASE ~(fault = "copy" \/ (fault = "new" /\ i = 0)) /\ index < Len(h.array)
  <2>1. CASE fault = "grow"
    <3>1. r = Failed(e)
      BY <1>6, <2>1 DEF IndexAdded
    <3> QED BY <1>1, <3>1, FailedFacts
  <2>2. CASE fault # "grow"
    <3> DEFINE a == [h.array EXCEPT ![index + 1] = data]
               k == [h EXCEPT !.array = a]
               f == WithHeader(e, i, k)
    <3>1. h.array # <<>> /\ h.array \in Seq(Text) /\ index + 1 \in DOMAIN h.array
      BY <1>4, <1>6, HeaderFacts
    <3>2. i # 0
      BY <1>3, <3>1, NewHeaderFacts
    <3>3. a \in Seq(Text) /\ a # <<>>
      BY <3>1
    <3>4. r = [ev |-> f, ok |-> TRUE]
      <4>1. r = Done([e EXCEPT !.headers[i].array[index + 1] = data])
        BY <1>6, <2>2 DEF IndexAdded
      <4>2. h = e.headers[i]
        BY <1>2, <3>2
      <4>3. [e EXCEPT !.headers[i].array[index + 1] = data] = f
        BY <4>2, Zenon DEF WithHeader
      <4> QED BY <4>1, <4>3 DEF Done
    <3> HIDE DEF a
    <3>5. k \in Header /\ k.name = h.name /\ k.array = a
      BY <1>4, <3>3, HeaderFacts
    <3>6. Solid(k) /\ k.name = e.headers[i].name /\ Same(k.name, name)
      BY <1>2, <3>2, <3>3, <3>5 DEF Solid
    <3> HIDE DEF k
    <3>7. i \in DOMAIN e.headers
      BY <1>2, <3>2
    <3>8. Sound(f) /\ (Same(k.name, name) => Others(f, name) = Others(e, name))
      BY <3>5, <3>6, <3>7, Replaced
    <3> HIDE DEF f
    <3> QED BY <1>1, <3>4, <3>6, <3>8 DEF Spares
  <2> QED BY <2>1, <2>2
<1>7. CASE ~(fault = "copy" \/ (fault = "new" /\ i = 0)) /\ ~(index < Len(h.array))
  <2>1. Len(h.array) <= index
    <3>1. Len(h.array) \in Nat
      BY <1>4, HeaderFacts
    <3> QED BY <1>7, <3>1
  <2>2. Grown(h, g, fault)
    BY <1>4, <2>1, FilledFacts
  <2>3. r = IF i # 0 THEN Kept(e, i, g) ELSE Accepted(e, stack, g)
    BY <1>7 DEF IndexAdded
  <2> HIDE DEF g
  <2>4. CASE i # 0
    <3>1. Grown(e.headers[i], g, fault)
      BY <1>2, <2>2, <2>4
    <3> QED BY <1>1, <1>2, <2>3, <2>4, <3>1, KeptFacts
  <2>5. CASE i = 0
    <3>1. Grown(NewHeader(name), g, fault)
      BY <1>3, <2>2, <2>5
    <3> QED BY <1>1, <2>3, <2>5, <3>1, AcceptedFacts
  <2> QED BY <2>4, <2>5
<1> QED BY <1>5, <1>6, <1>7

-----------------------------------------------------------------------------
(* Events made from events.                                                *)

(* Every call reports the event it leaves and whether it succeeded.        *)
Shape(r) == r = [ev |-> r.ev, ok |-> r.ok]

LEMMA ShapeFacts ==
  ASSUME NEW e, NEW stack, NEW name, NEW data, NEW fault
  PROVE  /\ Shape(Done(e)) /\ Shape(Failed(e))
         /\ Shape(AllPushed(e, name, data, fault))
         /\ Shape(ArrayAdded(e, name, data, fault))
         /\ Shape(Added(e, stack, name, data, fault))
<1>1. \A f, ok : Shape([ev |-> f, ok |-> ok])
  BY DEF Shape
<1>2. \A f : Shape(Done(f)) /\ Shape(Failed(f))
  BY <1>1 DEF Done, Failed
<1>3. \A f, items : Shape(AllPushed(f, name, items, fault))
  BY <1>1 DEF AllPushed
<1>4. \A f : Shape(ArrayAdded(f, name, data, fault))
  BY <1>2, <1>3 DEF ArrayAdded
<1>5. \A f, b, g : Shape(WithBody(f, b, g))
  BY <1>2 DEF WithBody
<1>6. \A f, i, r : Shape(Kept(f, i, r)) /\ Shape(Accepted(f, stack, r))
  <2>1. \A f, i, r : Shape(Kept(f, i, r))
    BY <1>1, Zenon DEF Kept
  <2>2. \A f, r : Shape(Accepted(f, stack, r))
    BY <1>2 DEF Accepted
  <2> QED BY <2>1, <2>2
<1>7. \A f, i : Shape(Extended(f, i, stack, data, fault))
  <2>1. ASSUME NEW f, NEW i, HasPush(WithoutTop(stack))
        PROVE  Shape(Extended(f, i, stack, data, fault))
    BY <1>6, <2>1 DEF Extended
  <2>2. ASSUME NEW f, NEW i, ~HasPush(WithoutTop(stack))
        PROVE  Shape(Extended(f, i, stack, data, fault))
    <3> DEFINE g == [f EXCEPT !.headers[i].value = data]
    <3>1. Extended(f, i, stack, data, fault) = Done(g)
      BY <2>2, Zenon DEF Extended
    <3> HIDE DEF g
    <3> QED BY <1>2, <3>1
  <2> QED BY <2>1, <2>2
<1>8. \A f : Shape(Joined(f, stack, name, data, fault))
  BY <1>2, <1>6 DEF Joined
<1>9. Shape(AddedWhole(e, stack, name, data, fault))
  BY <1>2, <1>5, <1>7, <1>8 DEF AddedWhole
<1>10. Shape(Added(e, stack, name, data, fault))
  BY <1>4, <1>9 DEF Added
<1> QED BY <1>2, <1>3, <1>4, <1>10

(* f is an event in order, and in step if e is.                            *)
Follows(e, f) == Sound(f) /\ (AllInStep(e) => AllInStep(f))

LEMMA AddedFollows ==
  ASSUME NEW e, Sound(e), NEW name \in String, NEW data \in Text
  PROVE  /\ Follows(e, Added(e, "BOTTOM", name, data, "none").ev)
         /\ Added(e, "BOTTOM", name, data, "none").ok \in BOOLEAN
<1> DEFINE s == "BOTTOM"
           f == "none"
<1>1. s \in Stack /\ s # "TOP" /\ f = "none"
  BY DEF Stack
<1> HIDE DEF s, f
<1>2. Spares(e, Added(e, s, name, data, f), name) /\ InStepAfter(e, Added(e, s, name, data, f), f)
  BY <1>1, AddedFacts
<1>3. Follows(e, Added(e, s, name, data, f).ev) /\ Added(e, s, name, data, f).ok \in BOOLEAN
  BY <1>1, <1>2 DEF Spares, InStepAfter, Follows
<1> QED BY <1>3 DEF s, f

LEMMA PushFollows ==
  ASSUME NEW e, Sound(e), NEW name \in String, NEW data \in Text
  PROVE  /\ Follows(e, Added(e, "PUSH", name, data, "none").ev)
         /\ Added(e, "PUSH", name, data, "none").ok \in BOOLEAN
<1> DEFINE s == "PUSH"
           f == "none"
<1>1. s \in Stack /\ s # "TOP" /\ f = "none"
  BY DEF Stack
<1> HIDE DEF s, f
<1>2. Spares(e, Added(e, s, name, data, f), name) /\ InStepAfter(e, Added(e, s, name, data, f), f)
  BY <1>1, AddedFacts
<1>3. Follows(e, Added(e, s, name, data, f).ev) /\ Added(e, s, name, data, f).ok \in BOOLEAN
  BY <1>1, <1>2 DEF Spares, InStepAfter, Follows
<1> QED BY <1>3 DEF s, f

LEMMA PushedFollows ==
  ASSUME NEW e, Sound(e), NEW name \in String, NEW items \in Seq(Text)
  PROVE  /\ Follows(e, AllPushed(e, name, items, "none").ev)
         /\ AllPushed(e, name, items, "none").ok \in BOOLEAN
<1> DEFINE f == "none"
<1>1. f = "none"
  OBVIOUS
<1> HIDE DEF f
<1>2. Spares(e, AllPushed(e, name, items, f), name)
      /\ InStepAfter(e, AllPushed(e, name, items, f), f)
  BY AllPushedFacts
<1>3. Follows(e, AllPushed(e, name, items, f).ev) /\ AllPushed(e, name, items, f).ok \in BOOLEAN
  BY <1>1, <1>2 DEF Spares, InStepAfter, Follows
<1> QED BY <1>3 DEF f

LEMMA CutFollows ==
  ASSUME NEW e, Sound(e), NEW name \in String, NEW val \in Text
  PROVE  /\ Follows(e, ArrayAdded(e, name, val, "none").ev)
         /\ ArrayAdded(e, name, val, "none").ok \in BOOLEAN
<1> DEFINE f == "none"
<1>1. f = "none"
  OBVIOUS
<1> HIDE DEF f
<1>2. Spares(e, ArrayAdded(e, name, val, f), name) /\ InStepAfter(e, ArrayAdded(e, name, val, f), f)
  BY ArrayAddedFacts
<1>3. Follows(e, ArrayAdded(e, name, val, f).ev) /\ ArrayAdded(e, name, val, f).ok \in BOOLEAN
  BY <1>1, <1>2 DEF Spares, InStepAfter, Follows
<1> QED BY <1>3 DEF f

LEMMA TransferredFacts ==
  ASSUME NEW acc, Sound(acc.ev), acc.ok \in BOOLEAN, NEW h \in Header
  PROVE  Follows(acc.ev, Transferred(acc, h).ev) /\ Transferred(acc, h).ok \in BOOLEAN
<1>1. h.name \in String /\ h.array \in Seq(Text) /\ h.value \in Text \cup {NULL}
  BY HeaderFacts
<1> DEFINE e == acc.ev
<1>2. CASE ~acc.ok
  <2>1. Transferred(acc, h) = acc
    BY <1>2 DEF Transferred
  <2> QED BY <2>1 DEF Follows
<1>3. CASE acc.ok /\ h.array # <<>>
  <2> DEFINE name == h.name
             items == h.array
  <2>1. Transferred(acc, h) = AllPushed(e, name, items, "none")
    BY <1>3 DEF Transferred
  <2>2. Sound(e) /\ name \in String /\ items \in Seq(Text)
    BY <1>1
  <2> HIDE DEF e, name, items
  <2> QED BY <2>1, <2>2, PushedFollows DEF e
<1>4. CASE acc.ok /\ h.array = <<>> /\ h.value = NULL
  <2>1. Transferred(acc, h) = Failed(e)
    BY <1>4 DEF Transferred
  <2> QED BY <2>1 DEF Failed, Follows
<1>5. CASE acc.ok /\ h.array = <<>> /\ h.value # NULL
  <2> DEFINE name == h.name
             data == h.value
  <2>1. Transferred(acc, h) = Added(e, "BOTTOM", name, data, "none")
    BY <1>5 DEF Transferred
  <2>2. Sound(e) /\ name \in String /\ data \in Text
    BY <1>1, <1>5
  <2> HIDE DEF e, name, data
  <2> QED BY <2>1, <2>2, AddedFollows DEF e
<1> QED BY <1>2, <1>3, <1>4, <1>5

TriesAll(d, e, name, items, T) ==
  /\ d[0] = e
  /\ \A i \in 1 .. Len(items) :
       d[i] = Added(d[i - 1], "PUSH", name, items[i], "none").ev
  /\ \A i \in 0 .. Len(items) : d[i] \in T
  /\ EachPushed(e, name, items) = d[Len(items)]

(* Element after element, within any set T that an element does not leave. *)
LEMMA EachPushedBy ==
  ASSUME NEW e, NEW name, NEW items, Len(items) \in Nat, NEW T, e \in T,
         \A i \in 1 .. Len(items) : \A x \in T :
           Added(x, "PUSH", name, items[i], "none").ev \in T
  PROVE  \E d : TriesAll(d, e, name, items, T)
<1> DEFINE n == Len(items)
           o == e
           Step(i, x) == Added(x, "PUSH", name, items[i], "none").ev
           Item(f, i) == IF i = 0 THEN o ELSE Step(i, f[i - 1])
           Raw(f) == [i \in 0 .. n |-> Item(f, i)]
           H == [i \in 1 .. n |-> [x \in T |-> Step(i, x)]]
           d == CHOOSE f : f = Raw(f)
<1>1. EachPushed(e, name, items) = d[n]
  BY Zenon DEF EachPushed
<1>2. n \in Nat
  OBVIOUS
<1>3. o \in T /\ \A i \in 1 .. n : \A x \in T : Step(i, x) \in T
  OBVIOUS
<1>4. \A f : \A i \in 0 .. n : Raw(f)[i] = Item(f, i)
  BY Zenon
<1>5. ASSUME NEW f, NEW i \in 1 .. n PROVE Item(f, i) = Step(i, f[i - 1])
  <2>1. i # 0
    BY <1>2
  <2> QED BY <2>1, Zenon
<1>6. \A f : Item(f, 0) = o
  OBVIOUS
<1> HIDE DEF Step, Item, n, o
<1>7. \A i \in 1 .. n : \A x \in T : H[i][x] = Step(i, x)
  BY Zenon
<1>8. Steps(n, T, H)
  BY <1>3 DEF Steps
<1> HIDE DEF H
<1>9. PICK f : Runs(f, n, T, o, H)
  BY <1>2, <1>3, <1>8, Iterates
<1>10. f \in [0 .. n -> T] /\ f[0] = o /\ \A i \in 1 .. n : f[i] = H[i][f[i - 1]]
  BY <1>9 DEF Runs
<1>11. f = Raw(f)
  <2>1. ASSUME NEW i \in 0 .. n PROVE f[i] = Item(f, i)
    <3>1. CASE i = 0
      BY <1>6, <1>10, <3>1
    <3>2. CASE i # 0
      <4>1. i \in 1 .. n /\ i - 1 \in 0 .. n
        BY <1>2, <3>2
      <4>2. f[i - 1] \in T
        BY <1>10, <4>1
      <4>3. f[i] = Step(i, f[i - 1])
        BY <1>7, <1>10, <4>1, <4>2
      <4> QED BY <1>5, <4>1, <4>3
    <3> QED BY <3>1, <3>2
  <2>2. f = [i \in 0 .. n |-> f[i]]
    BY <1>10
  <2> QED BY <2>1, <2>2
<1>12. d = Raw(d)
  <2> HIDE DEF Raw
  <2> QED BY <1>11
<1> HIDE DEF d, Raw
<1>13. d[0] = o
  <2>1. 0 \in 0 .. n
    BY <1>2
  <2>2. d[0] = Item(d, 0)
    BY <1>4, <1>12, <2>1
  <2> QED BY <1>6, <2>2
<1>14. ASSUME NEW i \in 1 .. n PROVE d[i] = Step(i, d[i - 1])
  <2>1. i \in 0 .. n
    BY <1>2
  <2> QED BY <1>4, <1>5, <1>12, <2>1
<1> DEFINE G == {i \in 0 .. n : d[i] \in T}
<1>15. 0 \in G
  <2>1. 0 \in 0 .. n
    BY <1>2
  <2> QED BY <1>3, <1>13, <2>1
<1>16. ASSUME NEW i \in 1 .. n, i - 1 \in G PROVE i \in G
  <2>1. i \in 0 .. n
    BY <1>2
  <2> QED BY <1>3, <1>14, <1>16, <2>1
<1>17. G = 0 .. n
  <2>1. G \in SUBSET (0 .. n)
    OBVIOUS
  <2> HIDE DEF G
  <2> QED BY <1>2, <1>15, <1>16, <2>1, Inductive
<1>18. \A i \in 0 .. n : d[i] \in T
  BY <1>17
<1> QED BY <1>1, <1>13, <1>14, <1>18 DEF n, o, Step, TriesAll

(* The elements of an array are pushed one by one, whether one fails or    *)
(* not.                                                                    *)
LEMMA EachPushedFacts ==
  ASSUME NEW e, Sound(e), NEW name \in String, NEW items \in Seq(Text)
  PROVE  Follows(e, EachPushed(e, name, items))
<1> DEFINE T == {f \in Event : Follows(e, f)}
           n == Len(items)
           push == "PUSH"
<1>1. e \in T
  BY DEF Follows, Sound
<1>2. n \in Nat /\ (\A i \in 1 .. n : items[i] \in Text) /\ push \in Stack
  BY DEF Stack
<1>3. ASSUME NEW i \in 1 .. n, NEW x \in T
      PROVE  Added(x, push, name, items[i], "none").ev \in T
  <2> DEFINE data == items[i]
             r == Added(x, push, name, data, "none")
  <2>1. Sound(x) /\ data \in Text /\ Follows(e, x)
    BY <1>2 DEF Follows
  <2> HIDE DEF data, T, push
  <2>2. Follows(x, r.ev)
    BY <1>2, <2>1, PushFollows DEF push
  <2>3. r.ev \in Event /\ Follows(e, r.ev)
    BY <2>1, <2>2 DEF Follows, Sound
  <2> QED BY <2>3 DEF T, data
<1> HIDE DEF T
<1>4. PICK d : TriesAll(d, e, name, items, T)
  BY <1>1, <1>2, <1>3, EachPushedBy
<1>5. EachPushed(e, name, items) \in T
  BY <1>2, <1>4 DEF TriesAll
<1> QED BY <1>5 DEF T

LEMMA TakenFacts ==
  ASSUME NEW e, Sound(e), NEW h \in Header
  PROVE  Follows(e, Taken(e, h))
<1> DEFINE acc == Done(e)
           f == EachPushed(e, h.name, h.array)
           g == Transferred(acc, h).ev
<1>1. h.name \in String /\ h.array \in Seq(Text)
  BY HeaderFacts
<1>2. acc.ev = e /\ acc.ok = TRUE
  BY DEF Done
<1>3. Follows(e, f)
  BY <1>1, EachPushedFacts
<1> HIDE DEF acc
<1>4. Follows(e, g)
  BY <1>2, TransferredFacts
<1>5. Taken(e, h) = IF h.array # <<>> THEN f ELSE g
  BY DEF Taken, acc
<1> QED BY <1>3, <1>4, <1>5

Merges(d, e, other, T) ==
  /\ d[0] = e
  /\ \A i \in 1 .. Len(other.headers) :
       d[i] = Taken(d[i - 1], other.headers[i])
  /\ \A i \in 0 .. Len(other.headers) : d[i] \in T
  /\ Merged(e, other) = d[Len(other.headers)]

(* Header after header, within any set T that a header does not leave.     *)
LEMMA MergedBy ==
  ASSUME NEW e, NEW other, Len(other.headers) \in Nat, NEW T, e \in T,
         \A i \in 1 .. Len(other.headers) : \A x \in T :
           Taken(x, other.headers[i]) \in T
  PROVE  \E d : Merges(d, e, other, T)
<1> DEFINE n == Len(other.headers)
           o == e
           Step(i, x) == Taken(x, other.headers[i])
           Item(f, i) == IF i = 0 THEN o ELSE Step(i, f[i - 1])
           Raw(f) == [i \in 0 .. n |-> Item(f, i)]
           H == [i \in 1 .. n |-> [x \in T |-> Step(i, x)]]
           d == CHOOSE f : f = Raw(f)
<1>1. Merged(e, other) = d[n]
  BY Zenon DEF Merged
<1>2. n \in Nat
  OBVIOUS
<1>3. o \in T /\ \A i \in 1 .. n : \A x \in T : Step(i, x) \in T
  OBVIOUS
<1>4. \A f : \A i \in 0 .. n : Raw(f)[i] = Item(f, i)
  BY Zenon
<1>5. ASSUME NEW f, NEW i \in 1 .. n PROVE Item(f, i) = Step(i, f[i - 1])
  <2>1. i # 0
    BY <1>2
  <2> QED BY <2>1, Zenon
<1>6. \A f : Item(f, 0) = o
  OBVIOUS
<1> HIDE DEF Step, Item, n, o
<1>7. \A i \in 1 .. n : \A x \in T : H[i][x] = Step(i, x)
  BY Zenon
<1>8. Steps(n, T, H)
  BY <1>3 DEF Steps
<1> HIDE DEF H
<1>9. PICK f : Runs(f, n, T, o, H)
  BY <1>2, <1>3, <1>8, Iterates
<1>10. f \in [0 .. n -> T] /\ f[0] = o /\ \A i \in 1 .. n : f[i] = H[i][f[i - 1]]
  BY <1>9 DEF Runs
<1>11. f = Raw(f)
  <2>1. ASSUME NEW i \in 0 .. n PROVE f[i] = Item(f, i)
    <3>1. CASE i = 0
      BY <1>6, <1>10, <3>1
    <3>2. CASE i # 0
      <4>1. i \in 1 .. n /\ i - 1 \in 0 .. n
        BY <1>2, <3>2
      <4>2. f[i - 1] \in T
        BY <1>10, <4>1
      <4>3. f[i] = Step(i, f[i - 1])
        BY <1>7, <1>10, <4>1, <4>2
      <4> QED BY <1>5, <4>1, <4>3
    <3> QED BY <3>1, <3>2
  <2>2. f = [i \in 0 .. n |-> f[i]]
    BY <1>10
  <2> QED BY <2>1, <2>2
<1>12. d = Raw(d)
  <2> HIDE DEF Raw
  <2> QED BY <1>11
<1> HIDE DEF d, Raw
<1>13. d[0] = o
  <2>1. 0 \in 0 .. n
    BY <1>2
  <2>2. d[0] = Item(d, 0)
    BY <1>4, <1>12, <2>1
  <2> QED BY <1>6, <2>2
<1>14. ASSUME NEW i \in 1 .. n PROVE d[i] = Step(i, d[i - 1])
  <2>1. i \in 0 .. n
    BY <1>2
  <2> QED BY <1>4, <1>5, <1>12, <2>1
<1> DEFINE G == {i \in 0 .. n : d[i] \in T}
<1>15. 0 \in G
  <2>1. 0 \in 0 .. n
    BY <1>2
  <2> QED BY <1>3, <1>13, <2>1
<1>16. ASSUME NEW i \in 1 .. n, i - 1 \in G PROVE i \in G
  <2>1. i \in 0 .. n
    BY <1>2
  <2> QED BY <1>3, <1>14, <1>16, <2>1
<1>17. G = 0 .. n
  <2>1. G \in SUBSET (0 .. n)
    OBVIOUS
  <2> HIDE DEF G
  <2> QED BY <1>2, <1>15, <1>16, <2>1, Inductive
<1>18. \A i \in 0 .. n : d[i] \in T
  BY <1>17
<1> QED BY <1>1, <1>13, <1>14, <1>18 DEF n, o, Step, Merges

LEMMA MergedFacts ==
  ASSUME NEW e, Sound(e), NEW other, Sound(other)
  PROVE  Follows(e, Merged(e, other))
<1> DEFINE T == {f \in Event : Follows(e, f)}
           n == Len(other.headers)
<1>1. e \in T
  BY DEF Follows, Sound
<1>2. n \in Nat /\ \A i \in 1 .. n : other.headers[i] \in Header
  BY EventFacts DEF Sound
<1>3. ASSUME NEW i \in 1 .. n, NEW x \in T
      PROVE  Taken(x, other.headers[i]) \in T
  <2> DEFINE h == other.headers[i]
             f == Taken(x, h)
  <2>1. Sound(x) /\ h \in Header /\ Follows(e, x)
    BY <1>2 DEF Follows
  <2> HIDE DEF h, T
  <2>2. Follows(x, f)
    BY <2>1, TakenFacts
  <2>3. f \in Event /\ Follows(e, f)
    BY <2>1, <2>2 DEF Follows, Sound
  <2> QED BY <2>3 DEF T, h
<1> HIDE DEF T
<1>4. PICK d : Merges(d, e, other, T)
  BY <1>1, <1>2, <1>3, MergedBy
<1>5. Merged(e, other) \in T
  BY <1>2, <1>4 DEF Merges
<1> QED BY <1>5 DEF T

Transfers(d, e, headers, T) ==
  /\ d[0] = Done(e)
  /\ \A i \in 1 .. Len(headers) : d[i] = Transferred(d[i - 1], headers[i])
  /\ \A i \in 0 .. Len(headers) : d[i] \in T
  /\ AllTransferred(e, headers) = d[Len(headers)]

(* The same for a new event.                                               *)
LEMMA AllTransferredBy ==
  ASSUME NEW e, NEW headers, Len(headers) \in Nat, NEW T, Done(e) \in T,
         \A i \in 1 .. Len(headers) : \A x \in T : Transferred(x, headers[i]) \in T
  PROVE  \E d : Transfers(d, e, headers, T)
<1> DEFINE n == Len(headers)
           o == Done(e)
           Step(i, x) == Transferred(x, headers[i])
           Item(f, i) == IF i = 0 THEN o ELSE Step(i, f[i - 1])
           Raw(f) == [i \in 0 .. n |-> Item(f, i)]
           H == [i \in 1 .. n |-> [x \in T |-> Step(i, x)]]
           d == CHOOSE f : f = Raw(f)
<1>1. AllTransferred(e, headers) = d[n]
  BY Zenon DEF AllTransferred
<1>2. n \in Nat
  OBVIOUS
<1>3. o \in T /\ \A i \in 1 .. n : \A x \in T : Step(i, x) \in T
  OBVIOUS
<1>4. \A f : \A i \in 0 .. n : Raw(f)[i] = Item(f, i)
  BY Zenon
<1>5. ASSUME NEW f, NEW i \in 1 .. n PROVE Item(f, i) = Step(i, f[i - 1])
  <2>1. i # 0
    BY <1>2
  <2> QED BY <2>1, Zenon
<1>6. \A f : Item(f, 0) = o
  OBVIOUS
<1> HIDE DEF Step, Item, n, o
<1>7. \A i \in 1 .. n : \A x \in T : H[i][x] = Step(i, x)
  BY Zenon
<1>8. Steps(n, T, H)
  BY <1>3 DEF Steps
<1> HIDE DEF H
<1>9. PICK f : Runs(f, n, T, o, H)
  BY <1>2, <1>3, <1>8, Iterates
<1>10. f \in [0 .. n -> T] /\ f[0] = o /\ \A i \in 1 .. n : f[i] = H[i][f[i - 1]]
  BY <1>9 DEF Runs
<1>11. f = Raw(f)
  <2>1. ASSUME NEW i \in 0 .. n PROVE f[i] = Item(f, i)
    <3>1. CASE i = 0
      BY <1>6, <1>10, <3>1
    <3>2. CASE i # 0
      <4>1. i \in 1 .. n /\ i - 1 \in 0 .. n
        BY <1>2, <3>2
      <4>2. f[i - 1] \in T
        BY <1>10, <4>1
      <4>3. f[i] = Step(i, f[i - 1])
        BY <1>7, <1>10, <4>1, <4>2
      <4> QED BY <1>5, <4>1, <4>3
    <3> QED BY <3>1, <3>2
  <2>2. f = [i \in 0 .. n |-> f[i]]
    BY <1>10
  <2> QED BY <2>1, <2>2
<1>12. d = Raw(d)
  <2> HIDE DEF Raw
  <2> QED BY <1>11
<1> HIDE DEF d, Raw
<1>13. d[0] = o
  <2>1. 0 \in 0 .. n
    BY <1>2
  <2>2. d[0] = Item(d, 0)
    BY <1>4, <1>12, <2>1
  <2> QED BY <1>6, <2>2
<1>14. ASSUME NEW i \in 1 .. n PROVE d[i] = Step(i, d[i - 1])
  <2>1. i \in 0 .. n
    BY <1>2
  <2> QED BY <1>4, <1>5, <1>12, <2>1
<1> DEFINE G == {i \in 0 .. n : d[i] \in T}
<1>15. 0 \in G
  <2>1. 0 \in 0 .. n
    BY <1>2
  <2> QED BY <1>3, <1>13, <2>1
<1>16. ASSUME NEW i \in 1 .. n, i - 1 \in G PROVE i \in G
  <2>1. i \in 0 .. n
    BY <1>2
  <2> QED BY <1>3, <1>14, <1>16, <2>1
<1>17. G = 0 .. n
  <2>1. G \in SUBSET (0 .. n)
    OBVIOUS
  <2> HIDE DEF G
  <2> QED BY <1>2, <1>15, <1>16, <2>1, Inductive
<1>18. \A i \in 0 .. n : d[i] \in T
  BY <1>17
<1> QED BY <1>1, <1>13, <1>14, <1>18 DEF n, o, Step, Transfers

(* A result on the way, in step if e is.                                   *)
OnTheWay(e) == {r \in [ev : Event, ok : BOOLEAN] : Follows(e, r.ev)}

LEMMA AllTransferredFacts ==
  ASSUME NEW e, Sound(e), NEW headers \in Seq(Header)
  PROVE  AllTransferred(e, headers) \in OnTheWay(e)
<1> DEFINE T == OnTheWay(e)
           n == Len(headers)
<1>1. Done(e) \in T
  BY DEF OnTheWay, Done, Follows, Sound
<1>2. n \in Nat /\ \A i \in 1 .. n : headers[i] \in Header
  OBVIOUS
<1>3. ASSUME NEW i \in 1 .. n, NEW x \in T PROVE Transferred(x, headers[i]) \in T
  <2> DEFINE h == headers[i]
             r == Transferred(x, h)
  <2>1. Sound(x.ev) /\ x.ok \in BOOLEAN /\ h \in Header /\ Follows(e, x.ev)
    BY <1>2 DEF OnTheWay, Follows
  <2> HIDE DEF h
  <2>2. Follows(x.ev, r.ev) /\ r.ok \in BOOLEAN
    BY <2>1, TransferredFacts
  <2>3. Shape(x)
    BY DEF Shape, OnTheWay
  <2>4. Shape(r)
    BY <2>3, ShapeFacts DEF Transferred
  <2> HIDE DEF r
  <2>5. r \in T
    BY <2>1, <2>2, <2>4 DEF OnTheWay, Follows, Sound, Shape
  <2> QED BY <2>5 DEF h, r
<1> HIDE DEF T
<1>4. PICK d : Transfers(d, e, headers, T)
  BY <1>1, <1>2, <1>3, AllTransferredBy
<1> QED BY <1>2, <1>4 DEF Transfers, T

(* An event in order whose values are in step.                             *)
Fresh(e) == Sound(e) /\ AllInStep(e)

LEMMA NewEventFacts ==
  ASSUME NEW id \in EventType
  PROVE  Fresh(NewEvent(id))
<1>1. "NORMAL" \in String
  BY EventAssumption
<1>2. <<>> \in Seq(Header) /\ Len(<<>>) = 0
  OBVIOUS
<1>3. NewEvent(id) \in Event
  BY <1>1, <1>2 DEF NewEvent, Event
<1>4. NewEvent(id).headers = <<>> /\ NewEvent(id).last = 0
  BY DEF NewEvent
<1> QED BY <1>2, <1>3, <1>4 DEF Fresh, Sound, AllSolid, AllInStep

LEMMA CreatedFacts ==
  ASSUME NEW id \in EventType, NEW subclass \in Text \cup {NULL}
  PROVE  Fresh(Created(id, subclass))
<1>1. ASSUME NEW e, Fresh(e) PROVE Fresh(OfSubclass(e, subclass))
  <2>1. CASE subclass = NULL
    BY <1>1, <2>1 DEF OfSubclass
  <2>2. CASE subclass # NULL
    <3> DEFINE f == [e EXCEPT !.subclass = subclass]
               name == "Event-Subclass"
    <3>1. f \in Event /\ f.headers = e.headers /\ f.last = e.last
      BY <1>1 DEF Fresh, Sound, Event
    <3>2. name \in String
      BY EventAssumption
    <3>3. OfSubclass(e, subclass) = Added(f, "BOTTOM", name, subclass, "none").ev
      BY <2>2 DEF OfSubclass
    <3> HIDE DEF f, name
    <3>4. Sound(f) /\ AllInStep(f)
      BY <1>1, <3>1 DEF Fresh, Sound, AllInStep
    <3>5. Follows(f, Added(f, "BOTTOM", name, subclass, "none").ev)
      BY <2>2, <3>2, <3>4, AddedFollows
    <3> QED BY <3>3, <3>4, <3>5 DEF Follows, Fresh
  <2> QED BY <2>1, <2>2
<1>2. CASE id = "CLONE"
  <2>1. Created(id, subclass) = OfSubclass(NewEvent(id), subclass)
    BY <1>2 DEF Created
  <2> QED BY <1>1, <2>1, NewEventFacts
<1>3. CASE id # "CLONE"
  <2> DEFINE e == NewEvent(id)
             name == "Event-Name"
             text == <<id>>
             f == Added(e, "BOTTOM", name, text, "none").ev
  <2>1. Created(id, subclass) = OfSubclass(f, subclass)
    BY <1>3 DEF Created
  <2>2. Fresh(e) /\ name \in String /\ text \in Text
    BY NewEventFacts, EventAssumption, TextFacts
  <2> HIDE DEF e, name, text
  <2>3. Follows(e, f)
    BY <2>2, AddedFollows DEF Fresh
  <2>4. Fresh(f)
    BY <2>2, <2>3 DEF Follows, Fresh
  <2> HIDE DEF f
  <2> QED BY <1>1, <2>1, <2>4
<1> QED BY <1>2, <1>3

LEMMA CloneIsEventType == "CLONE" \in EventType
BY EventAssumption

(* What a call that makes an event leaves: an event in order, or none.     *)
MadeOrNone(f) == f = NULL \/ Fresh(f)

LEMMA DuplicateFacts ==
  ASSUME NEW e, Sound(e)
  PROVE  MadeOrNone(Duplicate(e).ev)
<1> DEFINE c == Created("CLONE", e.subclass)
           f == [c EXCEPT !.id = e.id, !.uniq = e.uniq]
           hs == CopiedHeaders(e)
           r == AllTransferred(f, hs)
<1>1. /\ e.subclass \in Text \cup {NULL} /\ e.id \in EventType /\ e.uniq \in BOOLEAN
      /\ e.body \in Text \cup {NULL} /\ e.headers \in Seq(Header)
  BY EventFacts DEF Sound
<1>2. Fresh(c)
  BY <1>1, CloneIsEventType, CreatedFacts
<1>3. hs \in Seq(Header)
  BY <1>1, OnlyType DEF CopiedHeaders
<1>4. Duplicate(e) = Finished(r, e.body)
  BY DEF Duplicate
<1> HIDE DEF c, hs
<1>5. f \in Event /\ f.headers = c.headers /\ f.last = c.last
  BY <1>1, <1>2 DEF Fresh, Sound, Event
<1> HIDE DEF f
<1>6. Fresh(f)
  BY <1>2, <1>5 DEF Fresh, Sound, AllInStep
<1>7. r \in OnTheWay(f)
  BY <1>3, <1>6, AllTransferredFacts DEF Fresh
<1> HIDE DEF r
<1>8. Fresh(r.ev) /\ r.ok \in BOOLEAN
  BY <1>6, <1>7 DEF OnTheWay, Follows, Fresh
<1>9. CASE r.ok
  <2> DEFINE g == r.ev
             k == [g EXCEPT !.body = e.body]
  <2>1. Duplicate(e).ev = k
    BY <1>4, <1>9 DEF Finished, Done
  <2>2. Fresh(g)
    BY <1>8
  <2> HIDE DEF g
  <2>3. k \in Event /\ k.headers = g.headers /\ k.last = g.last
    BY <1>1, <2>2 DEF Fresh, Sound, Event
  <2> HIDE DEF k
  <2>4. Fresh(k)
    BY <2>2, <2>3 DEF Fresh, Sound, AllInStep
  <2> QED BY <2>1, <2>4 DEF MadeOrNone
<1>10. CASE ~r.ok
  <2>1. Duplicate(e).ev = NULL
    BY <1>4, <1>10 DEF Finished, Failed
  <2> QED BY <2>1 DEF MadeOrNone
<1> QED BY <1>8, <1>9, <1>10

-----------------------------------------------------------------------------
(* The serialized forms and their readers.                                 *)

LEMMA LengthIsText ==
  ASSUME NEW body
  PROVE  LengthOf(body) \in Text
<1>1. "length" \in String
  BY EventAssumption
<1> QED BY <1>1, TextFacts DEF LengthOf

(* A member of a JSON object has a text or at least one element.           *)
Member == {m \in [name : String, items : Seq(Text), array : BOOLEAN] : m.items # <<>>}

LEMMA MemberSetType ==
  ASSUME NEW members \in Seq(Member), NEW name \in String,
         NEW items \in Seq(Text), items # <<>>, NEW array \in BOOLEAN
  PROVE  MemberSet(members, name, items, array) \in Seq(Member)
<1> DEFINE m == [name |-> name, items |-> items, array |-> array]
<1>1. m \in Member
  BY DEF Member
<1>2. CASE \E i \in DOMAIN members : members[i].name = name
  <2> DEFINE t == [i \in DOMAIN members |-> IF members[i].name = name THEN m ELSE members[i]]
  <2>1. MemberSet(members, name, items, array) = t
    BY <1>2, Zenon DEF MemberSet
  <2> HIDE DEF m
  <2>2. DOMAIN members = 1 .. Len(members) /\ Len(members) \in Nat
    OBVIOUS
  <2>3. \A i \in 1 .. Len(members) : (IF members[i].name = name THEN m ELSE members[i]) \in Member
    BY <1>1
  <2>4. t \in Seq(Member)
    BY <2>2, <2>3
  <2> QED BY <2>1, <2>4
<1>3. CASE ~(\E i \in DOMAIN members : members[i].name = name)
  <2>1. MemberSet(members, name, items, array) = Append(members, m)
    BY <1>3 DEF MemberSet
  <2> HIDE DEF m
  <2> QED BY <1>1, <2>1
<1> QED BY <1>2, <1>3

SetStep(members, h) == MemberSet(members, h.name, Items(h), h.array # <<>>)

Sets(d, e, T) ==
  /\ d[0] = <<>>
  /\ \A i \in 1 .. Len(e.headers) : d[i] = SetStep(d[i - 1], e.headers[i])
  /\ \A i \in 0 .. Len(e.headers) : d[i] \in T
  /\ Json(e) = IF \E i \in DOMAIN e.headers : Items(e.headers[i]) = <<NULL>>
               THEN [ok |-> FALSE]
               ELSE [ok |-> TRUE, members |-> BodySet(d[Len(e.headers)], e.body)]

(* Member after member.                                                    *)
LEMMA JsonBy ==
  ASSUME NEW e, Len(e.headers) \in Nat, NEW T, <<>> \in T,
         \A i \in 1 .. Len(e.headers) : \A x \in T : SetStep(x, e.headers[i]) \in T
  PROVE  \E d : Sets(d, e, T)
<1> DEFINE n == Len(e.headers)
           o == <<>>
           Step(i, x) == SetStep(x, e.headers[i])
           Item(f, i) == IF i = 0 THEN o ELSE Step(i, f[i - 1])
           Raw(f) == [i \in 0 .. n |-> Item(f, i)]
           H == [i \in 1 .. n |-> [x \in T |-> Step(i, x)]]
           d == CHOOSE f : f = Raw(f)
<1>1. Json(e) = IF \E i \in DOMAIN e.headers : Items(e.headers[i]) = <<NULL>>
                THEN [ok |-> FALSE]
                ELSE [ok |-> TRUE, members |-> BodySet(d[n], e.body)]
  BY Zenon DEF Json, SetStep
<1>2. n \in Nat
  OBVIOUS
<1>3. o \in T /\ \A i \in 1 .. n : \A x \in T : Step(i, x) \in T
  OBVIOUS
<1>4. \A f : \A i \in 0 .. n : Raw(f)[i] = Item(f, i)
  BY Zenon
<1>5. ASSUME NEW f, NEW i \in 1 .. n PROVE Item(f, i) = Step(i, f[i - 1])
  <2>1. i # 0
    BY <1>2
  <2> QED BY <2>1, Zenon
<1>6. \A f : Item(f, 0) = o
  OBVIOUS
<1> HIDE DEF Step, Item, n, o
<1>7. \A i \in 1 .. n : \A x \in T : H[i][x] = Step(i, x)
  BY Zenon
<1>8. Steps(n, T, H)
  BY <1>3 DEF Steps
<1> HIDE DEF H
<1>9. PICK f : Runs(f, n, T, o, H)
  BY <1>2, <1>3, <1>8, Iterates
<1>10. f \in [0 .. n -> T] /\ f[0] = o /\ \A i \in 1 .. n : f[i] = H[i][f[i - 1]]
  BY <1>9 DEF Runs
<1>11. f = Raw(f)
  <2>1. ASSUME NEW i \in 0 .. n PROVE f[i] = Item(f, i)
    <3>1. CASE i = 0
      BY <1>6, <1>10, <3>1
    <3>2. CASE i # 0
      <4>1. i \in 1 .. n /\ i - 1 \in 0 .. n
        BY <1>2, <3>2
      <4>2. f[i - 1] \in T
        BY <1>10, <4>1
      <4>3. f[i] = Step(i, f[i - 1])
        BY <1>7, <1>10, <4>1, <4>2
      <4> QED BY <1>5, <4>1, <4>3
    <3> QED BY <3>1, <3>2
  <2>2. f = [i \in 0 .. n |-> f[i]]
    BY <1>10
  <2> QED BY <2>1, <2>2
<1>12. d = Raw(d)
  <2> HIDE DEF Raw
  <2> QED BY <1>11
<1> HIDE DEF d, Raw
<1>13. d[0] = o
  <2>1. 0 \in 0 .. n
    BY <1>2
  <2>2. d[0] = Item(d, 0)
    BY <1>4, <1>12, <2>1
  <2> QED BY <1>6, <2>2
<1>14. ASSUME NEW i \in 1 .. n PROVE d[i] = Step(i, d[i - 1])
  <2>1. i \in 0 .. n
    BY <1>2
  <2> QED BY <1>4, <1>5, <1>12, <2>1
<1> DEFINE G == {i \in 0 .. n : d[i] \in T}
<1>15. 0 \in G
  <2>1. 0 \in 0 .. n
    BY <1>2
  <2> QED BY <1>3, <1>13, <2>1
<1>16. ASSUME NEW i \in 1 .. n, i - 1 \in G PROVE i \in G
  <2>1. i \in 0 .. n
    BY <1>2
  <2> QED BY <1>3, <1>14, <1>16, <2>1
<1>17. G = 0 .. n
  <2>1. G \in SUBSET (0 .. n)
    OBVIOUS
  <2> HIDE DEF G
  <2> QED BY <1>2, <1>15, <1>16, <2>1, Inductive
<1>18. \A i \in 0 .. n : d[i] \in T
  BY <1>17
<1> QED BY <1>1, <1>13, <1>14, <1>18 DEF n, o, Step, Sets

(* The object for an event, if there is one.                               *)
LEMMA JsonType ==
  ASSUME NEW e, Sound(e), Json(e).ok
  PROVE  Json(e).members \in Seq(Member)
<1> DEFINE n == Len(e.headers)
           bad == \E i \in DOMAIN e.headers : Items(e.headers[i]) = <<NULL>>
           Good(h) == h \in Header /\ Items(h) \in Seq(Text) /\ Items(h) # <<>>
<1>1. ~bad
  <2>1. bad => Json(e) = [ok |-> FALSE]
    BY Zenon DEF Json
  <2> QED BY <2>1
<1>2. n \in Nat /\ DOMAIN e.headers = 1 .. n /\ e.body \in Text \cup {NULL}
      /\ \A i \in 1 .. n : e.headers[i] \in Header
  BY EventFacts DEF Sound
<1>3. ASSUME NEW i \in 1 .. n PROVE Good(e.headers[i])
  <2> DEFINE h == e.headers[i]
  <2>1. h \in Header /\ Items(h) # <<NULL>>
    BY <1>1, <1>2
  <2> HIDE DEF h
  <2>2. h.array \in Seq(Text) /\ h.value \in Text \cup {NULL}
    BY <2>1, HeaderFacts
  <2>3. CASE h.array = <<>>
    <3>1. Items(h) = <<h.value>> /\ h.value \in Text
      BY <2>1, <2>2, <2>3 DEF Items
    <3>2. <<h.value>> \in Seq(Text) /\ <<h.value>> # <<>>
      BY <3>1
    <3> QED BY <2>1, <3>1, <3>2 DEF h
  <2>4. CASE h.array # <<>>
    BY <2>1, <2>2, <2>4 DEF Items, h
  <2> QED BY <2>3, <2>4
<1> DEFINE U == Seq(Member)
<1>4. <<>> \in U
  OBVIOUS
<1>5. ASSUME NEW i \in 1 .. n, NEW x \in U PROVE SetStep(x, e.headers[i]) \in U
  <2> DEFINE name == e.headers[i].name
             items == Items(e.headers[i])
             array == e.headers[i].array # <<>>
  <2>1. /\ name \in String /\ items \in Seq(Text) /\ items # <<>> /\ array \in BOOLEAN
    BY <1>3, HeaderFacts
  <2>2. SetStep(x, e.headers[i]) = MemberSet(x, name, items, array)
    BY DEF SetStep
  <2> HIDE DEF name, items, array
  <2> QED BY <2>1, <2>2, MemberSetType
<1> HIDE DEF U
<1>6. PICK d : Sets(d, e, U)
  BY <1>2, <1>4, <1>5, JsonBy
<1>7. n \in 0 .. n
  BY <1>2
<1>8. d[n] \in U /\ Json(e) = [ok |-> TRUE, members |-> BodySet(d[n], e.body)]
  BY <1>1, <1>6, <1>7 DEF Sets
<1> DEFINE ms == d[n]
           body == e.body
<1>9. ms \in Seq(Member) /\ body \in Text \cup {NULL}
  BY <1>2, <1>8 DEF U
<1> HIDE DEF ms, body
<1>10. BodySet(ms, body) \in Seq(Member)
  <2>1. CASE body = NULL
    BY <1>9, <2>1 DEF BodySet
  <2>2. CASE body # NULL
    <3> DEFINE name == "Content-Length"
               b == "_body"
               len == <<LengthOf(body)>>
               text == <<body>>
               no == FALSE
    <3>1. name \in String /\ b \in String
      BY EventAssumption
    <3>2. len \in Seq(Text) /\ len # <<>>
      BY LengthIsText
    <3>3. text \in Seq(Text) /\ text # <<>> /\ no \in BOOLEAN
      BY <1>9, <2>2
    <3>4. BodySet(ms, body) = MemberSet(MemberSet(ms, name, len, no), b, text, no)
      BY <2>2 DEF BodySet
    <3> HIDE DEF name, b, len, text, no
    <3>5. MemberSet(ms, name, len, no) \in Seq(Member)
      BY <1>9, <3>1, <3>2, <3>3, MemberSetType
    <3> QED BY <3>1, <3>3, <3>4, <3>5, MemberSetType
  <2> QED BY <2>1, <2>2
<1>11. Json(e).members = BodySet(ms, body)
  BY <1>8 DEF ms, body
<1> QED BY <1>10, <1>11

LEMMA OnTheWayFacts ==
  ASSUME NEW e, NEW r, Shape(r), Follows(e, r.ev), r.ok \in BOOLEAN
  PROVE  r \in OnTheWay(e)
BY DEF OnTheWay, Follows, Sound, Shape

LEMMA OnTheWayGoesOn ==
  ASSUME NEW e, NEW x \in OnTheWay(e), NEW r \in OnTheWay(x.ev)
  PROVE  r \in OnTheWay(e)
BY DEF OnTheWay, Follows

(* An event takes its id from a header that it reads.                      *)
LEMMA IdentifiedFacts ==
  ASSUME NEW e, Sound(e), NEW name, NEW text \in Text
  PROVE  Identified(e, name, text) \in OnTheWay(e)
<1> DEFINE f == Deleted(e, "Event-Name", <<>>)
           id == NamedEvent(text)
           r == Identified(e, name, text)
<1>1. Follows(e, f)
  BY DeletedFacts DEF Follows
<1>2. id = NULL \/ id \in EventType
  <2>1. CASE \E k \in EventType : Names(text, k)
    <3>1. id = CHOOSE k \in EventType : Names(text, k)
      BY <2>1 DEF NamedEvent
    <3> QED BY <2>1, <3>1
  <2>2. CASE ~(\E k \in EventType : Names(text, k))
    BY <2>2 DEF NamedEvent
  <2> QED BY <2>1, <2>2
<1>3. r = IF Same(name, "Event-Name") THEN Renamed(f, id) ELSE Done(e)
  BY DEF Identified
<1> HIDE DEF f, id, r
<1>4. CASE ~Same(name, "Event-Name")
  <2>1. r.ev = e /\ r.ok = TRUE /\ Shape(r)
    BY <1>3, <1>4 DEF Done, Shape
  <2> QED BY <2>1, OnTheWayFacts DEF Follows, r
<1>5. CASE Same(name, "Event-Name") /\ id = NULL
  <2>1. r.ev = f /\ r.ok = FALSE /\ Shape(r)
    BY <1>3, <1>5 DEF Renamed, Failed, Shape
  <2> QED BY <1>1, <2>1, OnTheWayFacts DEF r
<1>6. CASE Same(name, "Event-Name") /\ id # NULL
  <2> DEFINE g == [f EXCEPT !.id = id]
  <2>1. g \in Event /\ g.headers = f.headers /\ g.last = f.last
    BY <1>1, <1>2, <1>6 DEF Follows, Sound, Event
  <2>2. r = Done(g)
    BY <1>3, <1>6 DEF Renamed
  <2> HIDE DEF g
  <2>3. r.ev = g /\ r.ok = TRUE /\ Shape(r)
    BY <2>2 DEF Done, Shape
  <2>4. Follows(e, g)
    BY <1>1, <2>1 DEF Follows, Sound, AllInStep
  <2> QED BY <2>3, <2>4, OnTheWayFacts DEF r
<1> QED BY <1>4, <1>5, <1>6

LEMMA NotedFacts ==
  ASSUME NEW e, NEW r \in OnTheWay(e), NEW name \in String, NEW value \in Text
  PROVE  Noted(r, name, value) \in OnTheWay(e)
<1>1. CASE ~r.ok
  BY <1>1 DEF Noted
<1>2. CASE r.ok
  <2> DEFINE f == r.ev
             g == Added(f, "BOTTOM", name, value, "none")
  <2>1. Noted(r, name, value) = g
    BY <1>2 DEF Noted
  <2>2. Sound(f)
    BY DEF OnTheWay, Follows
  <2>3. f = r.ev
    OBVIOUS
  <2> HIDE DEF f
  <2>4. Follows(f, g.ev) /\ g.ok \in BOOLEAN
    BY <2>2, AddedFollows
  <2>5. Shape(g)
    BY ShapeFacts
  <2> HIDE DEF g
  <2>6. g \in OnTheWay(f)
    BY <2>4, <2>5, OnTheWayFacts
  <2> QED BY <2>1, <2>3, <2>6, OnTheWayGoesOn
<1> QED BY <1>1, <1>2 DEF OnTheWay

LEMMA FailedOnTheWay ==
  ASSUME NEW e, Sound(e)
  PROVE  Failed(e) \in OnTheWay(e) /\ Done(e) \in OnTheWay(e)
BY DEF Failed, Done, OnTheWay, Follows, Sound

LEMMA WithBodyOnTheWay ==
  ASSUME NEW e, Sound(e), NEW body \in Text
  PROVE  WithBody(e, body, "none") \in OnTheWay(e)
<1> DEFINE f == "none"
           r == WithBody(e, body, f)
<1>1. Shape(r)
  BY ShapeFacts DEF WithBody
<1>2. Sound(r.ev) /\ r.ok \in BOOLEAN /\ r.ev.headers = e.headers
  BY WithBodyFacts
<1> HIDE DEF f, r
<1>3. r \in OnTheWay(e)
  BY <1>1, <1>2, OnTheWayFacts DEF Follows, AllInStep
<1> QED BY <1>3 DEF r, f

LEMMA FromMemberFacts ==
  ASSUME NEW e, NEW x \in OnTheWay(e), NEW m \in Member
  PROVE  FromMember(x, m) \in OnTheWay(e)
<1> DEFINE f == x.ev
           r == FromMember(x, m)
           name == m.name
           items == m.items
           text == m.items[1]
<1>1. /\ name \in String /\ items \in Seq(Text) /\ m.array \in BOOLEAN /\ text \in Text
  BY DEF Member
<1>2. Sound(f) /\ x.ok \in BOOLEAN
  BY DEF OnTheWay, Follows
<1>3. CASE ~x.ok
  <2>1. r = x
    BY <1>3 DEF FromMember
  <2> QED BY <2>1
<1>4. CASE x.ok /\ m.array /\ Len(items) > JsonMaxItems
  <2>1. r = Failed(f)
    BY <1>4 DEF FromMember
  <2>2. f = x.ev
    OBVIOUS
  <2> HIDE DEF f, r
  <2>3. r \in OnTheWay(f)
    BY <1>2, <2>1, FailedOnTheWay
  <2> QED BY <2>2, <2>3, OnTheWayGoesOn DEF r
<1>5. CASE x.ok /\ m.array /\ ~(Len(items) > JsonMaxItems)
  <2>1. r = AllPushed(f, name, items, "none")
    BY <1>5 DEF FromMember
  <2>2. f = x.ev
    OBVIOUS
  <2> HIDE DEF f, r, name, items, text
  <2>3. Follows(f, r.ev) /\ r.ok \in BOOLEAN /\ Shape(r)
    BY <1>1, <1>2, <2>1, PushedFollows, ShapeFacts
  <2>4. r \in OnTheWay(f)
    BY <2>3, OnTheWayFacts
  <2> QED BY <2>2, <2>4, OnTheWayGoesOn DEF r
<1>6. CASE x.ok /\ ~m.array /\ Same(m.name, "_body")
  <2>1. r = WithBody(f, text, "none")
    BY <1>6 DEF FromMember
  <2>2. f = x.ev
    OBVIOUS
  <2> HIDE DEF f, r, name, items, text
  <2>3. r \in OnTheWay(f)
    BY <1>1, <1>2, <2>1, WithBodyOnTheWay
  <2> QED BY <2>2, <2>3, OnTheWayGoesOn DEF r
<1>7. CASE x.ok /\ ~m.array /\ ~Same(m.name, "_body")
  <2>1. r = Noted(Identified(f, name, text), name, text)
    BY <1>7 DEF FromMember
  <2>2. f = x.ev
    OBVIOUS
  <2> HIDE DEF f, r, name, items, text
  <2>3. Identified(f, name, text) \in OnTheWay(f)
    BY <1>1, <1>2, IdentifiedFacts
  <2>4. r \in OnTheWay(f)
    BY <1>1, <2>1, <2>3, NotedFacts
  <2> QED BY <2>2, <2>4, OnTheWayGoesOn DEF r
<1> QED BY <1>1, <1>2, <1>3, <1>4, <1>5, <1>6, <1>7

Reads(d, json, T) ==
  /\ d[0] = Done(Created("CLONE", NULL))
  /\ \A i \in 1 .. Len(json.members) : d[i] = FromMember(d[i - 1], json.members[i])
  /\ \A i \in 0 .. Len(json.members) : d[i] \in T
  /\ FromJson(json) = IF ~json.ok \/ Len(json.members) > JsonMaxHeaders THEN Failed(NULL)
                      ELSE FromMembers(d[Len(json.members)])

(* Member after member, within any set T that a member does not leave.     *)
LEMMA FromJsonBy ==
  ASSUME NEW json, Len(json.members) \in Nat, NEW T, Done(Created("CLONE", NULL)) \in T,
         \A i \in 1 .. Len(json.members) : \A x \in T : FromMember(x, json.members[i]) \in T
  PROVE  \E d : Reads(d, json, T)
<1> DEFINE n == Len(json.members)
           o == Done(Created("CLONE", NULL))
           Step(i, x) == FromMember(x, json.members[i])
           Item(f, i) == IF i = 0 THEN o ELSE Step(i, f[i - 1])
           Raw(f) == [i \in 0 .. n |-> Item(f, i)]
           H == [i \in 1 .. n |-> [x \in T |-> Step(i, x)]]
           d == CHOOSE f : f = Raw(f)
<1>1. FromJson(json) = IF ~json.ok \/ Len(json.members) > JsonMaxHeaders THEN Failed(NULL)
                      ELSE FromMembers(d[n])
  BY Zenon DEF FromJson
<1>2. n \in Nat
  OBVIOUS
<1>3. o \in T /\ \A i \in 1 .. n : \A x \in T : Step(i, x) \in T
  OBVIOUS
<1>4. \A f : \A i \in 0 .. n : Raw(f)[i] = Item(f, i)
  BY Zenon
<1>5. ASSUME NEW f, NEW i \in 1 .. n PROVE Item(f, i) = Step(i, f[i - 1])
  <2>1. i # 0
    BY <1>2
  <2> QED BY <2>1, Zenon
<1>6. \A f : Item(f, 0) = o
  OBVIOUS
<1> HIDE DEF Step, Item, n, o
<1>7. \A i \in 1 .. n : \A x \in T : H[i][x] = Step(i, x)
  BY Zenon
<1>8. Steps(n, T, H)
  BY <1>3 DEF Steps
<1> HIDE DEF H
<1>9. PICK f : Runs(f, n, T, o, H)
  BY <1>2, <1>3, <1>8, Iterates
<1>10. f \in [0 .. n -> T] /\ f[0] = o /\ \A i \in 1 .. n : f[i] = H[i][f[i - 1]]
  BY <1>9 DEF Runs
<1>11. f = Raw(f)
  <2>1. ASSUME NEW i \in 0 .. n PROVE f[i] = Item(f, i)
    <3>1. CASE i = 0
      BY <1>6, <1>10, <3>1
    <3>2. CASE i # 0
      <4>1. i \in 1 .. n /\ i - 1 \in 0 .. n
        BY <1>2, <3>2
      <4>2. f[i - 1] \in T
        BY <1>10, <4>1
      <4>3. f[i] = Step(i, f[i - 1])
        BY <1>7, <1>10, <4>1, <4>2
      <4> QED BY <1>5, <4>1, <4>3
    <3> QED BY <3>1, <3>2
  <2>2. f = [i \in 0 .. n |-> f[i]]
    BY <1>10
  <2> QED BY <2>1, <2>2
<1>12. d = Raw(d)
  <2> HIDE DEF Raw
  <2> QED BY <1>11
<1> HIDE DEF d, Raw
<1>13. d[0] = o
  <2>1. 0 \in 0 .. n
    BY <1>2
  <2>2. d[0] = Item(d, 0)
    BY <1>4, <1>12, <2>1
  <2> QED BY <1>6, <2>2
<1>14. ASSUME NEW i \in 1 .. n PROVE d[i] = Step(i, d[i - 1])
  <2>1. i \in 0 .. n
    BY <1>2
  <2> QED BY <1>4, <1>5, <1>12, <2>1
<1> DEFINE G == {i \in 0 .. n : d[i] \in T}
<1>15. 0 \in G
  <2>1. 0 \in 0 .. n
    BY <1>2
  <2> QED BY <1>3, <1>13, <2>1
<1>16. ASSUME NEW i \in 1 .. n, i - 1 \in G PROVE i \in G
  <2>1. i \in 0 .. n
    BY <1>2
  <2> QED BY <1>3, <1>14, <1>16, <2>1
<1>17. G = 0 .. n
  <2>1. G \in SUBSET (0 .. n)
    OBVIOUS
  <2> HIDE DEF G
  <2> QED BY <1>2, <1>15, <1>16, <2>1, Inductive
<1>18. \A i \in 0 .. n : d[i] \in T
  BY <1>17
<1> QED BY <1>1, <1>13, <1>14, <1>18 DEF n, o, Step, Reads

(* A new event for a reader.                                               *)
LEMMA CloneFacts ==
  /\ Fresh(Created("CLONE", NULL))
  /\ Done(Created("CLONE", NULL)) \in OnTheWay(Created("CLONE", NULL))
<1> DEFINE c == Created("CLONE", NULL)
<1>1. Fresh(c)
  <2> DEFINE id == "CLONE"
             n == NULL
  <2>1. id \in EventType /\ n \in Text \cup {NULL}
    BY CloneIsEventType
  <2> HIDE DEF id, n
  <2>2. Fresh(Created(id, n))
    BY <2>1, CreatedFacts
  <2> QED BY <2>2 DEF id, n
<1> HIDE DEF c
<1>2. Done(c) \in OnTheWay(c)
  BY <1>1, FailedOnTheWay DEF Fresh
<1> QED BY <1>1, <1>2 DEF c

LEMMA FromJsonFacts ==
  ASSUME NEW json, json.ok => json.members \in Seq(Member)
  PROVE  MadeOrNone(FromJson(json).ev)
<1>1. CASE ~json.ok \/ Len(json.members) > JsonMaxHeaders
  <2>1. FromJson(json) = Failed(NULL)
    BY <1>1, Zenon DEF FromJson
  <2> QED BY <2>1 DEF Failed, MadeOrNone
<1>2. CASE ~(~json.ok \/ Len(json.members) > JsonMaxHeaders)
  <2> DEFINE c == Created("CLONE", NULL)
             T == OnTheWay(c)
             n == Len(json.members)
  <2>1. Fresh(c) /\ Done(Created("CLONE", NULL)) \in T
    BY CloneFacts
  <2>2. n \in Nat /\ \A i \in 1 .. n : json.members[i] \in Member
    BY <1>2
  <2>3. \A i \in 1 .. n : \A x \in T : FromMember(x, json.members[i]) \in T
    BY <2>2, FromMemberFacts
  <2> HIDE DEF T
  <2>4. PICK d : Reads(d, json, T)
    BY <2>1, <2>2, <2>3, FromJsonBy
  <2>5. n \in 0 .. n
    BY <2>2
  <2> DEFINE r == d[n]
  <2>6. r \in OnTheWay(c) /\ FromJson(json) = FromMembers(r)
    BY <1>2, <2>4, <2>5 DEF Reads, T
  <2> HIDE DEF r, c
  <2>7. Fresh(r.ev)
    BY <2>1, <2>6 DEF OnTheWay, Follows, Fresh
  <2>8. FromJson(json).ev = r.ev \/ FromJson(json).ev = NULL
    BY <2>6 DEF FromMembers, Failed
  <2> QED BY <2>7, <2>8 DEF MadeOrNone
<1> QED BY <1>1, <1>2

(* A line of the plain form.                                               *)
TextLine == [name : String, value : Text]

LEMMA PlainType ==
  ASSUME NEW e, Sound(e), Plain(e).ok
  PROVE  Plain(e).lines \in Seq(TextLine) /\ Plain(e).body \in Text
<1> DEFINE bad == \E i \in DOMAIN e.headers : e.headers[i].value = NULL
           n == Len(e.headers)
           line(h) == [name |-> h.name, value |-> Shown(h.value)]
           lines == [i \in DOMAIN e.headers |-> line(e.headers[i])]
           length == [name |-> "Content-Length", value |-> LengthOf(e.body)]
<1>1. ~bad
  <2>1. bad => Plain(e) = [ok |-> FALSE]
    BY Zenon DEF Plain
  <2> QED BY <2>1
<1>2. n \in Nat /\ DOMAIN e.headers = 1 .. n /\ e.body \in Text \cup {NULL}
      /\ \A i \in 1 .. n : e.headers[i] \in Header
  BY EventFacts DEF Sound
<1>3. ASSUME NEW v \in Text PROVE Shown(v) \in Text
  <2>1. "_undef_" \in String
    BY EventAssumption
  <2> QED BY <2>1, TextFacts DEF Shown
<1>4. ASSUME NEW i \in 1 .. n PROVE line(e.headers[i]) \in TextLine
  <2>1. e.headers[i] \in Header /\ e.headers[i].value # NULL
    BY <1>1, <1>2
  <2>2. e.headers[i].name \in String /\ e.headers[i].value \in Text
    BY <2>1, HeaderFacts
  <2> QED BY <1>3, <2>2 DEF TextLine
<1>5. lines \in Seq(TextLine)
  <2> HIDE DEF line
  <2> QED BY <1>2, <1>4
<1>6. length \in TextLine
  <2>1. "Content-Length" \in String
    BY EventAssumption
  <2> QED BY <2>1, LengthIsText DEF TextLine
<1>7. Plain(e) = IF e.body \in {NULL, <<>>} THEN [ok |-> TRUE, lines |-> lines, body |-> <<>>]
                 ELSE [ok |-> TRUE, body |-> e.body, lines |-> Append(lines, length)]
  <2> HIDE DEF lines, length
  <2>1. Plain(e) = IF bad THEN [ok |-> FALSE]
                   ELSE IF e.body \in {NULL, <<>>} THEN [ok |-> TRUE, lines |-> lines, body |-> <<>>]
                   ELSE [ok |-> TRUE, body |-> e.body, lines |-> Append(lines, length)]
    BY Zenon DEF Plain, lines, length
  <2> QED BY <1>1, <2>1
<1> HIDE DEF lines, length
<1>8. CASE e.body \in {NULL, <<>>}
  BY <1>5, <1>7, <1>8, TextFacts
<1>9. CASE e.body \notin {NULL, <<>>}
  <2>1. Append(lines, length) \in Seq(TextLine)
    BY <1>5, <1>6
  <2> QED BY <1>2, <1>7, <1>9, <2>1
<1> QED BY <1>8, <1>9

LEMMA FromLineFacts ==
  ASSUME NEW e, NEW x \in OnTheWay(e), NEW l \in TextLine
  PROVE  FromLine(x, l) \in OnTheWay(e)
<1> DEFINE f == x.ev
           r == FromLine(x, l)
           name == l.name
           text == l.value
           id == Identified(f, name, text)
           array == text # <<>> /\ text[1] = ARRAY
<1>1. name \in String /\ text \in Text
  BY DEF TextLine
<1>2. Sound(f) /\ x.ok \in BOOLEAN
  BY DEF OnTheWay, Follows
<1>3. CASE ~x.ok
  <2>1. r = x
    BY <1>3 DEF FromLine
  <2> QED BY <2>1
<1>4. CASE x.ok /\ Len(text) > PlainMaxLine
  <2>1. r = Failed(f)
    BY <1>4 DEF FromLine
  <2>2. f = x.ev
    OBVIOUS
  <2> HIDE DEF f, r
  <2>3. r \in OnTheWay(f)
    BY <1>2, <2>1, FailedOnTheWay
  <2> QED BY <2>2, <2>3, OnTheWayGoesOn DEF r
<1>5. CASE x.ok /\ ~(Len(text) > PlainMaxLine)
  <2>1. r = IF array /\ id.ok THEN ArrayAdded(id.ev, name, text, "none")
            ELSE Noted(id, name, text)
    BY <1>5 DEF FromLine
  <2>2. f = x.ev
    OBVIOUS
  <2> HIDE DEF f, r, name, text, array
  <2>3. id \in OnTheWay(f)
    BY <1>1, <1>2, IdentifiedFacts
  <2> DEFINE g == id.ev
  <2>4. g = id.ev /\ Sound(g)
    BY <2>3 DEF OnTheWay, Follows
  <2> HIDE DEF id
  <2>5. CASE array /\ id.ok
    <3>1. r = ArrayAdded(g, name, text, "none")
      BY <2>1, <2>5
    <3> HIDE DEF g
    <3>2. Follows(g, r.ev) /\ r.ok \in BOOLEAN /\ Shape(r)
      BY <1>1, <2>4, <3>1, CutFollows, ShapeFacts
    <3>3. r \in OnTheWay(g)
      BY <3>2, OnTheWayFacts
    <3>4. r \in OnTheWay(f)
      BY <2>3, <2>4, <3>3, OnTheWayGoesOn
    <3> QED BY <2>2, <3>4, OnTheWayGoesOn DEF r
  <2>6. CASE ~(array /\ id.ok)
    <3>1. r = Noted(id, name, text)
      BY <2>1, <2>6
    <3>2. r \in OnTheWay(f)
      BY <1>1, <2>3, <3>1, NotedFacts
    <3> QED BY <2>2, <3>2, OnTheWayGoesOn DEF r
  <2> QED BY <2>5, <2>6
<1> QED BY <1>2, <1>3, <1>4, <1>5

Parses(d, text, T) ==
  /\ d[0] = Done(Created("CLONE", NULL))
  /\ \A i \in 1 .. Len(text.lines) : d[i] = FromLine(d[i - 1], text.lines[i])
  /\ \A i \in 0 .. Len(text.lines) : d[i] \in T
  /\ FromPlain(text) = IF ~text.ok \/ Len(text.lines) > PlainMaxHeaders THEN Failed(NULL)
                       ELSE FromLines(d[Len(text.lines)], text.body)

(* Line after line, within any set T that a line does not leave.           *)
LEMMA FromPlainBy ==
  ASSUME NEW text, Len(text.lines) \in Nat, NEW T, Done(Created("CLONE", NULL)) \in T,
         \A i \in 1 .. Len(text.lines) : \A x \in T : FromLine(x, text.lines[i]) \in T
  PROVE  \E d : Parses(d, text, T)
<1> DEFINE n == Len(text.lines)
           o == Done(Created("CLONE", NULL))
           Step(i, x) == FromLine(x, text.lines[i])
           Item(f, i) == IF i = 0 THEN o ELSE Step(i, f[i - 1])
           Raw(f) == [i \in 0 .. n |-> Item(f, i)]
           H == [i \in 1 .. n |-> [x \in T |-> Step(i, x)]]
           d == CHOOSE f : f = Raw(f)
<1>1. FromPlain(text) = IF ~text.ok \/ Len(text.lines) > PlainMaxHeaders THEN Failed(NULL)
                       ELSE FromLines(d[n], text.body)
  BY Zenon DEF FromPlain
<1>2. n \in Nat
  OBVIOUS
<1>3. o \in T /\ \A i \in 1 .. n : \A x \in T : Step(i, x) \in T
  OBVIOUS
<1>4. \A f : \A i \in 0 .. n : Raw(f)[i] = Item(f, i)
  BY Zenon
<1>5. ASSUME NEW f, NEW i \in 1 .. n PROVE Item(f, i) = Step(i, f[i - 1])
  <2>1. i # 0
    BY <1>2
  <2> QED BY <2>1, Zenon
<1>6. \A f : Item(f, 0) = o
  OBVIOUS
<1> HIDE DEF Step, Item, n, o
<1>7. \A i \in 1 .. n : \A x \in T : H[i][x] = Step(i, x)
  BY Zenon
<1>8. Steps(n, T, H)
  BY <1>3 DEF Steps
<1> HIDE DEF H
<1>9. PICK f : Runs(f, n, T, o, H)
  BY <1>2, <1>3, <1>8, Iterates
<1>10. f \in [0 .. n -> T] /\ f[0] = o /\ \A i \in 1 .. n : f[i] = H[i][f[i - 1]]
  BY <1>9 DEF Runs
<1>11. f = Raw(f)
  <2>1. ASSUME NEW i \in 0 .. n PROVE f[i] = Item(f, i)
    <3>1. CASE i = 0
      BY <1>6, <1>10, <3>1
    <3>2. CASE i # 0
      <4>1. i \in 1 .. n /\ i - 1 \in 0 .. n
        BY <1>2, <3>2
      <4>2. f[i - 1] \in T
        BY <1>10, <4>1
      <4>3. f[i] = Step(i, f[i - 1])
        BY <1>7, <1>10, <4>1, <4>2
      <4> QED BY <1>5, <4>1, <4>3
    <3> QED BY <3>1, <3>2
  <2>2. f = [i \in 0 .. n |-> f[i]]
    BY <1>10
  <2> QED BY <2>1, <2>2
<1>12. d = Raw(d)
  <2> HIDE DEF Raw
  <2> QED BY <1>11
<1> HIDE DEF d, Raw
<1>13. d[0] = o
  <2>1. 0 \in 0 .. n
    BY <1>2
  <2>2. d[0] = Item(d, 0)
    BY <1>4, <1>12, <2>1
  <2> QED BY <1>6, <2>2
<1>14. ASSUME NEW i \in 1 .. n PROVE d[i] = Step(i, d[i - 1])
  <2>1. i \in 0 .. n
    BY <1>2
  <2> QED BY <1>4, <1>5, <1>12, <2>1
<1> DEFINE G == {i \in 0 .. n : d[i] \in T}
<1>15. 0 \in G
  <2>1. 0 \in 0 .. n
    BY <1>2
  <2> QED BY <1>3, <1>13, <2>1
<1>16. ASSUME NEW i \in 1 .. n, i - 1 \in G PROVE i \in G
  <2>1. i \in 0 .. n
    BY <1>2
  <2> QED BY <1>3, <1>14, <1>16, <2>1
<1>17. G = 0 .. n
  <2>1. G \in SUBSET (0 .. n)
    OBVIOUS
  <2> HIDE DEF G
  <2> QED BY <1>2, <1>15, <1>16, <2>1, Inductive
<1>18. \A i \in 0 .. n : d[i] \in T
  BY <1>17
<1> QED BY <1>1, <1>13, <1>14, <1>18 DEF n, o, Step, Parses

LEMMA FromPlainFacts ==
  ASSUME NEW text, text.ok => text.lines \in Seq(TextLine) /\ text.body \in Text
  PROVE  MadeOrNone(FromPlain(text).ev)
<1>1. CASE ~text.ok \/ Len(text.lines) > PlainMaxHeaders
  <2>1. FromPlain(text) = Failed(NULL)
    BY <1>1, Zenon DEF FromPlain
  <2> QED BY <2>1 DEF Failed, MadeOrNone
<1>2. CASE ~(~text.ok \/ Len(text.lines) > PlainMaxHeaders)
  <2> DEFINE c == Created("CLONE", NULL)
             T == OnTheWay(c)
             n == Len(text.lines)
             body == text.body
  <2>1. Fresh(c) /\ Done(Created("CLONE", NULL)) \in T
    BY CloneFacts
  <2>2. n \in Nat /\ body \in Text /\ \A i \in 1 .. n : text.lines[i] \in TextLine
    BY <1>2
  <2>3. \A i \in 1 .. n : \A x \in T : FromLine(x, text.lines[i]) \in T
    BY <2>2, FromLineFacts
  <2> HIDE DEF T
  <2>4. PICK d : Parses(d, text, T)
    BY <2>1, <2>2, <2>3, FromPlainBy
  <2>5. n \in 0 .. n
    BY <2>2
  <2> DEFINE r == d[n]
  <2>6. r \in OnTheWay(c) /\ FromPlain(text) = FromLines(r, body)
    BY <1>2, <2>4, <2>5 DEF Parses, T
  <2> HIDE DEF r, c, body
  <2>7. Fresh(r.ev) /\ r.ok \in BOOLEAN
    BY <2>1, <2>6 DEF OnTheWay, Follows, Fresh
  <2>8. CASE ~r.ok
    <3>1. FromPlain(text).ev = NULL
      BY <2>6, <2>8 DEF FromLines, Failed
    <3> QED BY <3>1 DEF MadeOrNone
  <2>9. CASE r.ok /\ Find(r.ev, "Content-Length") # 0
    <3> DEFINE g == r.ev
    <3>1. FromPlain(text) = WithBody(g, body, "none") /\ Fresh(g)
      BY <2>6, <2>7, <2>9 DEF FromLines
    <3> HIDE DEF g
    <3>2. WithBody(g, body, "none") \in OnTheWay(g)
      BY <2>2, <3>1, WithBodyOnTheWay DEF Fresh
    <3>3. Fresh(WithBody(g, body, "none").ev)
      BY <3>1, <3>2 DEF OnTheWay, Follows, Fresh
    <3> QED BY <3>1, <3>3 DEF MadeOrNone
  <2>10. CASE r.ok /\ Find(r.ev, "Content-Length") = 0
    <3>1. FromPlain(text) = r
      BY <2>6, <2>10 DEF FromLines
    <3> QED BY <2>7, <3>1 DEF MadeOrNone
  <2> QED BY <2>7, <2>8, <2>9, <2>10
<1> QED BY <1>1, <1>2

-----------------------------------------------------------------------------
(* The calls of the application.                                           *)

(* A push onto a header that is there.                                     *)
LEMMA PushedOnFacts ==
  ASSUME NEW e, Sound(e), NEW stack, stack \in {"PUSH", "UNSHIFT"}, NEW name, name # "_body",
         Find(e, name) # 0, NEW data \in Text, NEW fault
  PROVE  LET r == Added(e, stack, name, data, fault)
             i == Find(e, name)
         IN \/ Items(r.ev.headers[i]) = Append(Items(e.headers[i]), data)
            \/ ~r.ok /\ Items(r.ev.headers[i]) = Items(e.headers[i])
<1> DEFINE i == Find(e, name)
           r == Added(e, stack, name, data, fault)
<1>1. Extends(e, stack, name) /\ HasPush(WithoutTop(stack))
  BY DEF Extends, HasPushOrUnshift, HasPush, WithoutTop
<1>2. r = AddedWhole(e, stack, name, data, fault)
  BY <1>1 DEF Added, IsCut
<1>3. i \in DOMAIN e.headers /\ Same(e.headers[i].name, name)
  BY FindFacts
<1>4. CASE fault = "copy"
  <2>1. r = Failed(e)
    BY <1>2, <1>4 DEF AddedWhole
  <2> QED BY <2>1 DEF Failed
<1>5. CASE fault # "copy"
  <2> DEFINE h == e.headers[i]
             g == Pushed(h, data, fault)
  <2>1. r = Extended(e, i, stack, data, fault)
    BY <1>1, <1>2, <1>5 DEF AddedWhole
  <2>2. Extended(e, i, stack, data, fault) = Kept(e, i, g)
    BY <1>1 DEF Extended
  <2> HIDE DEF i, r
  <2>3. h \in Header /\ Solid(h)
    BY <1>3, EventFacts DEF Sound, AllSolid
  <2> HIDE DEF h
  <2>4. /\ Grown(h, g, fault)
        /\ \/ Items(g.h) = Append(Items(h), data)
           \/ ~g.ok /\ Items(g.h) = Items(h)
    BY <2>3, PushedFacts
  <2> HIDE DEF g
  <2>5. Grown(e.headers[i], g, fault)
    BY <2>4 DEF h
  <2>6. /\ Spares(e, Kept(e, i, g), name) /\ InStepAfter(e, Kept(e, i, g), fault)
        /\ Kept(e, i, g).ev.headers[i] = g.h /\ Kept(e, i, g).ok = g.ok
    BY <1>3, <2>5, KeptFacts, ZenonT(30)
  <2> DEFINE k == Kept(e, i, g)
  <2>7. r = k
    BY <2>1, <2>2
  <2> HIDE DEF r, k
  <2>8. r.ev.headers[i] = g.h /\ r.ok = g.ok
    BY <2>6, <2>7 DEF k
  <2> QED BY <2>4, <2>8 DEF i, r, h
<1> QED BY <1>4, <1>5

(* Every event that the application holds is in order: the inductive       *)
(* invariant.                                                              *)
InOrder ==
  /\ ev = NULL \/ Sound(ev)
  /\ copy = NULL \/ Sound(copy)

(* What a step leaves, and what the three action properties say of it.     *)
Observed ==
  /\ InOrder'
  /\ ev # NULL /\ call'.op \in {"add", "add at", "array", "delete", "priority"}
       => Others(ev', call'.name) = Others(ev, call'.name)
  /\ /\ ev # NULL /\ call'.op = "add" /\ call'.stack \in {"PUSH", "UNSHIFT"}
     /\ call'.name # "_body" /\ Find(ev, call'.name) # 0
     => LET i == Find(ev, call'.name)
            before == Items(ev.headers[i])
            after == Items(ev'.headers[i])
        IN \/ after = Append(before, call'.data)
           \/ ~call'.ok /\ after = before
  /\ /\ ev # NULL /\ ev' # NULL /\ AllInStep(ev) /\ call'.ok
     /\ ~(call'.op \in {"add", "priority"} /\ call'.stack = "TOP")
     /\ call'.op # "add at"
     => AllInStep(ev')

LEMMA InOrderInit == Init => InOrder
BY DEF Init, InOrder

(* A call on the headers of a name that leaves r.                          *)
LEMMA HeaderStep ==
  ASSUME InOrder, ev # NULL, NEW op, NEW name, NEW data, NEW stack, NEW r,
         CallsOn(op, name, data, stack, r), Spares(ev, r, name),
         ~(op \in {"add", "priority"} /\ stack = "TOP") /\ op # "add at"
           => (AllInStep(ev) /\ r.ok => AllInStep(r.ev)),
         /\ op = "add" /\ stack \in {"PUSH", "UNSHIFT"} /\ name # "_body" /\ Find(ev, name) # 0
         => LET i == Find(ev, name)
            IN \/ Items(r.ev.headers[i]) = Append(Items(ev.headers[i]), data)
               \/ ~r.ok /\ Items(r.ev.headers[i]) = Items(ev.headers[i])
  PROVE  Observed
<1>1. /\ ev' = r.ev /\ copy' = copy /\ call'.op = op /\ call'.name = name
      /\ call'.data = data /\ call'.stack = stack /\ call'.ok = r.ok
  BY DEF CallsOn
<1>2. Sound(ev') /\ Others(ev', name) = Others(ev, name)
  BY <1>1 DEF Spares
<1>3. InOrder'
  BY <1>1, <1>2 DEF InOrder
<1> QED BY <1>1, <1>2, <1>3 DEF Observed

(* Any other step.                                                         *)
LEMMA OtherStep ==
  ASSUME call'.op \notin {"add", "add at", "array", "delete", "priority"},
         ev' = NULL \/ Sound(ev'), copy' = NULL \/ Sound(copy'),
         ev # NULL /\ ev' # NULL /\ AllInStep(ev) => AllInStep(ev')
  PROVE  Observed
<1>1. InOrder'
  BY DEF InOrder
<1> QED BY <1>1 DEF Observed

(* A call that is not about a header and leaves r.                         *)
LEMMA CallStep ==
  ASSUME InOrder, NEW op, op \notin {"add", "add at", "array", "delete", "priority"}, NEW r,
         Calls(op, r) \/ \E name, data, stack : CallsOn(op, name, data, stack, r),
         r.ev = NULL \/ Sound(r.ev),
         ev # NULL /\ r.ev # NULL /\ AllInStep(ev) => AllInStep(r.ev)
  PROVE  Observed
<1>1. CASE Calls(op, r)
  <2>1. ev' = r.ev /\ copy' = copy /\ call'.op = op
    BY <1>1 DEF Calls, NoCall
  <2> QED BY <2>1, OtherStep DEF InOrder
<1>2. CASE \E name, data, stack : CallsOn(op, name, data, stack, r)
  <2>1. ev' = r.ev /\ copy' = copy /\ call'.op = op
    <3>1. PICK name, data, stack : CallsOn(op, name, data, stack, r)
      BY <1>2
    <3> QED BY <3>1 DEF CallsOn
  <2> QED BY <2>1, OtherStep DEF InOrder
<1> QED BY <1>1, <1>2

LEMMA AddHeaderStep == InOrder /\ AddHeader => Observed
<1> SUFFICES ASSUME InOrder, AddHeader PROVE Observed
  OBVIOUS
<1>1. PICK stack \in Stack, name \in Name, data \in Value, fault \in Fault :
        CallsOn("add", name, data, stack, Added(ev, stack, name, data, fault))
  BY DEF AddHeader
<1> DEFINE r == Added(ev, stack, name, data, fault)
           op == "add"
<1>2. ev # NULL /\ Sound(ev) /\ name \in String /\ data \in Text
  BY EventAssumption DEF AddHeader, InOrder
<1>3. Spares(ev, r, name) /\ (stack # "TOP" => InStepAfter(ev, r, fault))
  BY <1>2, AddedFacts
<1>4. stack \in {"PUSH", "UNSHIFT"} /\ name # "_body" /\ Find(ev, name) # 0
         => LET i == Find(ev, name)
            IN \/ Items(r.ev.headers[i]) = Append(Items(ev.headers[i]), data)
               \/ ~r.ok /\ Items(r.ev.headers[i]) = Items(ev.headers[i])
  BY <1>2, PushedOnFacts
<1>5. CallsOn(op, name, data, stack, r) /\ op = "add"
  BY <1>1
<1> HIDE DEF r, op
<1>6. ~(op \in {"add", "priority"} /\ stack = "TOP") /\ op # "add at"
        => (AllInStep(ev) /\ r.ok => AllInStep(r.ev))
  BY <1>3, <1>5 DEF InStepAfter
<1> QED BY <1>2, <1>3, <1>4, <1>5, <1>6, HeaderStep

LEMMA AddHeaderAtStep == InOrder /\ AddHeaderAt => Observed
<1> SUFFICES ASSUME InOrder, AddHeaderAt PROVE Observed
  OBVIOUS
<1>1. PICK stack \in {"BOTTOM", "TOP"}, name \in Name, data \in Value, index \in 0 .. MaxIndex,
           fault \in Fault :
        CallsOn("add at", name, data, stack, AddedAt(ev, stack, name, index, data, fault))
  BY DEF AddHeaderAt
<1> DEFINE r == AddedAt(ev, stack, name, index, data, fault)
           op == "add at"
<1>2. ev # NULL /\ Sound(ev) /\ name \in String /\ data \in Text /\ index \in Nat
  <2>1. ev # NULL /\ Sound(ev) /\ name \in String /\ data \in Text
    BY EventAssumption DEF AddHeaderAt, InOrder
  <2>2. MaxIndex \in Nat
    BY EventAssumption
  <2> QED BY <2>1, <2>2
<1>3. Spares(ev, r, name)
  BY <1>2, AddedAtFacts
<1>4. CallsOn(op, name, data, stack, r) /\ op = "add at"
  BY <1>1
<1> HIDE DEF r, op
<1> QED BY <1>2, <1>3, <1>4, HeaderStep

LEMMA AddArrayStep == InOrder /\ AddArray => Observed
<1> SUFFICES ASSUME InOrder, AddArray PROVE Observed
  OBVIOUS
<1>1. PICK name \in Name, data \in Value, fault \in Fault :
        CallsOn("array", name, data, "PUSH", ArrayAdded(ev, name, data, fault))
  BY DEF AddArray
<1> DEFINE r == ArrayAdded(ev, name, data, fault)
           op == "array"
           stack == "PUSH"
<1>2. ev # NULL /\ Sound(ev) /\ name \in String /\ data \in Text
  BY EventAssumption DEF AddArray, InOrder
<1>3. Spares(ev, r, name) /\ InStepAfter(ev, r, fault)
  BY <1>2, ArrayAddedFacts
<1>4. CallsOn(op, name, data, stack, r) /\ op = "array"
  BY <1>1
<1> HIDE DEF r, op, stack
<1>5. AllInStep(ev) /\ r.ok => AllInStep(r.ev)
  BY <1>3 DEF InStepAfter
<1> QED BY <1>2, <1>3, <1>4, <1>5, HeaderStep

LEMMA DelHeaderStep == InOrder /\ DelHeader => Observed
<1> SUFFICES ASSUME InOrder, DelHeader PROVE Observed
  OBVIOUS
<1>1. PICK name \in Name, val \in Value :
        CallsOn("delete", name, val, NULL, Done(Deleted(ev, name, val)))
  BY DEF DelHeader
<1> DEFINE f == Deleted(ev, name, val)
           r == Done(f)
           op == "delete"
<1>2. ev # NULL /\ Sound(ev)
  BY DEF DelHeader, InOrder
<1>3. Sound(f) /\ Others(f, name) = Others(ev, name) /\ (AllInStep(ev) => AllInStep(f))
  BY <1>2, DeletedFacts
<1>4. r.ev = f /\ r.ok = TRUE
  BY DEF Done
<1>5. CallsOn(op, name, val, NULL, r) /\ op = "delete"
  BY <1>1
<1> HIDE DEF r, op, f
<1>6. Spares(ev, r, name) /\ (AllInStep(ev) /\ r.ok => AllInStep(r.ev))
  BY <1>3, <1>4 DEF Spares
<1> QED BY <1>2, <1>5, <1>6, HeaderStep

LEMMA SetPriorityStep == InOrder /\ SetPriority => Observed
<1> SUFFICES ASSUME InOrder, SetPriority PROVE Observed
  OBVIOUS
<1>1. PICK p \in Priority, fault \in Fault :
        CallsOn("priority", "priority", <<p>>, "TOP",
                Added([ev EXCEPT !.priority = p], "TOP", "priority", <<p>>, fault))
  BY DEF SetPriority
<1> DEFINE f == [ev EXCEPT !.priority = p]
           op == "priority"
           name == "priority"
           data == <<p>>
           stack == "TOP"
           r == Added(f, stack, name, data, fault)
<1>2. ev # NULL /\ Sound(ev)
  BY DEF SetPriority, InOrder
<1>3. name \in String /\ p \in String
  BY EventAssumption
<1>4. data \in Text /\ stack \in Stack
  BY <1>3, TextFacts DEF Stack
<1>5. f \in Event /\ f.headers = ev.headers /\ f.last = ev.last
  BY <1>2, <1>3 DEF Sound, Event
<1>6. CallsOn(op, name, data, stack, r) /\ op = "priority" /\ stack = "TOP"
  BY <1>1
<1> HIDE DEF f, op, name, data, stack
<1>7. Sound(f) /\ Others(f, name) = Others(ev, name)
  BY <1>2, <1>5, SameHeadersFacts DEF Sound
<1>8. Spares(f, r, name)
  BY <1>3, <1>4, <1>7, AddedFacts
<1> HIDE DEF r
<1>9. Spares(ev, r, name)
  BY <1>7, <1>8 DEF Spares
<1> QED BY <1>2, <1>6, <1>9, HeaderStep

LEMMA SetBodyStep == InOrder /\ SetBody => Observed
<1> SUFFICES ASSUME InOrder, SetBody PROVE Observed
  OBVIOUS
<1>1. PICK body \in Body, fault \in {"none", "copy"} :
        \/ CallsOn("body", "_body", body, NULL, WithBody(ev, body, fault))
        \/ CallsOn("body", "_body", body, NULL, Added(ev, "BOTTOM", "_body", body, fault))
  BY DEF SetBody
<1> DEFINE op == "body"
           name == "_body"
           stack == "BOTTOM"
           w == WithBody(ev, body, fault)
           r == Added(ev, stack, name, body, fault)
<1>2. ev # NULL /\ Sound(ev) /\ body \in Text
  BY EventAssumption DEF SetBody, InOrder
<1>3. op \notin {"add", "add at", "array", "delete", "priority"}
  OBVIOUS
<1>4. w.ev = NULL \/ Sound(w.ev)
  BY <1>2, WithBodyFacts
<1>5. AllInStep(ev) => AllInStep(w.ev)
  BY <1>2, WithBodyFacts, SameHeadersFacts
<1>6. ~Extends(ev, stack, name) /\ ~IsCut(ev, stack, name, body, fault)
  BY DEF Extends, HasPushOrUnshift, IsCut
<1>7. r.ev.headers = ev.headers /\ Sound(r.ev)
  <2>1. CASE fault = "copy"
    <3>1. r = Failed(ev)
      BY <1>6, <2>1 DEF Added, AddedWhole
    <3> QED BY <1>2, <3>1 DEF Failed
  <2>2. CASE fault # "copy"
    <3> DEFINE g == IF fault = "new" THEN "copy" ELSE "none"
    <3>1. r = WithBody(ev, body, g)
      BY <1>6, <2>2 DEF Added, AddedWhole
    <3> HIDE DEF g
    <3> QED BY <1>2, <3>1, WithBodyFacts
  <2> QED BY <2>1, <2>2
<1>8. AllInStep(ev) => AllInStep(r.ev)
  BY <1>7, SameHeadersFacts
<1>9. CallsOn(op, name, body, NULL, w) \/ CallsOn(op, name, body, NULL, r)
  BY <1>1
<1> HIDE DEF op, name, stack, w, r
<1>10. CASE CallsOn(op, name, body, NULL, w)
  <2>1. \E n, d, s : CallsOn(op, n, d, s, w)
    BY <1>10
  <2> QED BY <1>3, <1>4, <1>5, <2>1, CallStep
<1>11. CASE CallsOn(op, name, body, NULL, r)
  <2>1. \E n, d, s : CallsOn(op, n, d, s, r)
    BY <1>11
  <2> QED BY <1>3, <1>7, <1>8, <2>1, CallStep
<1> QED BY <1>9, <1>10, <1>11

(* The calls that make an event, or put one in the place of another.       *)
LEMMA MadeStep ==
  ASSUME InOrder, NEW op, op \notin {"add", "add at", "array", "delete", "priority"}, NEW r,
         Calls(op, r), MadeOrNone(r.ev)
  PROVE  Observed
<1>1. (r.ev = NULL \/ Sound(r.ev)) /\ (r.ev # NULL => AllInStep(r.ev))
  BY DEF MadeOrNone, Fresh
<1> QED BY <1>1, CallStep

LEMMA MakingStep ==
  InOrder /\ (Create \/ OverJson \/ OverPlain \/ Destroy) => Observed
<1> SUFFICES ASSUME InOrder, Create \/ OverJson \/ OverPlain \/ Destroy PROVE Observed
  OBVIOUS
<1>1. CASE Create
  <2>1. PICK id \in EventType, subclass \in Subclass \cup {NULL} :
          Calls("create", Done(Created(id, subclass)))
    BY <1>1 DEF Create
  <2> DEFINE r == Done(Created(id, subclass))
             op == "create"
  <2>2. subclass \in Text \cup {NULL}
    BY EventAssumption
  <2>3. MadeOrNone(r.ev)
    BY <2>2, CreatedFacts DEF Done, MadeOrNone
  <2>4. Calls(op, r) /\ op \notin {"add", "add at", "array", "delete", "priority"}
    BY <2>1
  <2> HIDE DEF r, op
  <2> QED BY <2>3, <2>4, MadeStep
<1>2. CASE OverJson
  <2> DEFINE j == Json(ev)
             r == FromJson(j)
             op == "json"
  <2>1. Sound(ev) /\ j.ok /\ Calls(op, r) /\ op \notin {"add", "add at", "array", "delete", "priority"}
    BY <1>2 DEF OverJson, InOrder
  <2>2. j.members \in Seq(Member)
    BY <2>1, JsonType
  <2> HIDE DEF j, op
  <2>3. MadeOrNone(r.ev)
    BY <2>2, FromJsonFacts
  <2> HIDE DEF r
  <2> QED BY <2>1, <2>3, MadeStep
<1>3. CASE OverPlain
  <2> DEFINE t == Plain(ev)
             r == FromPlain(t)
             op == "plain"
  <2>1. Sound(ev) /\ t.ok /\ Calls(op, r) /\ op \notin {"add", "add at", "array", "delete", "priority"}
    BY <1>3 DEF OverPlain, InOrder
  <2>2. t.lines \in Seq(TextLine) /\ t.body \in Text
    BY <2>1, PlainType
  <2> HIDE DEF t, op
  <2>3. MadeOrNone(r.ev)
    BY <2>2, FromPlainFacts
  <2> HIDE DEF r
  <2> QED BY <2>1, <2>3, MadeStep
<1>4. CASE Destroy
  <2> DEFINE r == Done(NULL)
             op == "destroy"
  <2>1. Calls(op, r) /\ op \notin {"add", "add at", "array", "delete", "priority"}
    BY <1>4 DEF Destroy
  <2>2. MadeOrNone(r.ev)
    BY DEF Done, MadeOrNone
  <2> HIDE DEF r, op
  <2> QED BY <2>1, <2>2, MadeStep
<1> QED BY <1>1, <1>2, <1>3, <1>4

LEMMA CreateOtherStep == InOrder /\ CreateOther => Observed
<1> SUFFICES ASSUME InOrder, CreateOther PROVE Observed
  OBVIOUS
<1>1. PICK id \in EventType, subclass \in Subclass \cup {NULL} :
        ev' = ev /\ copy' = Created(id, subclass) /\ call'.op = "create"
  BY DEF CreateOther, NoCall
<1>2. subclass \in Text \cup {NULL}
  BY EventAssumption
<1>3. Sound(copy')
  BY <1>1, <1>2, CreatedFacts DEF Fresh
<1> QED BY <1>1, <1>3, OtherStep DEF InOrder

LEMMA ChangingStep ==
  InOrder /\ (SetUniq \/ Dup \/ Merge) => Observed
<1> SUFFICES ASSUME InOrder, SetUniq \/ Dup \/ Merge PROVE Observed
  OBVIOUS
<1>1. CASE SetUniq
  <2> DEFINE f == [ev EXCEPT !.uniq = TRUE]
             r == Done(f)
             op == "flag"
  <2>1. Sound(ev) /\ Calls(op, r) /\ op \notin {"add", "add at", "array", "delete", "priority"}
    BY <1>1 DEF SetUniq, InOrder
  <2>2. f \in Event /\ f.headers = ev.headers /\ f.last = ev.last /\ r.ev = f
    BY <2>1 DEF Sound, Event, Done
  <2> HIDE DEF f, r, op
  <2>3. Sound(r.ev) /\ (AllInStep(ev) => AllInStep(r.ev))
    BY <2>1, <2>2 DEF Sound, AllInStep
  <2> QED BY <2>1, <2>3, CallStep
<1>2. CASE Dup
  <2>1. Sound(ev) /\ ev' = ev /\ copy' = Duplicate(ev).ev /\ call'.op = "dup"
    BY <1>2 DEF Dup, InOrder, NoCall
  <2>2. MadeOrNone(Duplicate(ev).ev)
    BY <2>1, DuplicateFacts
  <2>3. copy' = NULL \/ Sound(copy')
    BY <2>1, <2>2 DEF MadeOrNone, Fresh
  <2> QED BY <2>1, <2>3, OtherStep
<1>3. CASE Merge
  <2> DEFINE f == Merged(ev, copy)
             r == Done(f)
             op == "merge"
  <2>1. Sound(ev) /\ Sound(copy) /\ Calls(op, r)
        /\ op \notin {"add", "add at", "array", "delete", "priority"}
    BY <1>3 DEF Merge, InOrder
  <2>2. Follows(ev, f)
    BY <2>1, MergedFacts
  <2>3. r.ev = f
    BY DEF Done
  <2> HIDE DEF f, r, op
  <2>4. Sound(r.ev) /\ (AllInStep(ev) => AllInStep(r.ev))
    BY <2>2, <2>3 DEF Follows
  <2> QED BY <2>1, <2>4, CallStep
<1> QED BY <1>1, <1>2, <1>3

LEMMA NextObserved == InOrder /\ Next => Observed
BY AddHeaderStep, AddHeaderAtStep, AddArrayStep, DelHeaderStep, SetPriorityStep, SetBodyStep,
   MakingStep, CreateOtherStep, ChangingStep DEF Next

LEMMA InOrderNext == InOrder /\ [Next]_vars => InOrder'
<1>1. InOrder /\ UNCHANGED vars => InOrder'
  BY DEF InOrder, vars
<1> QED BY <1>1, NextObserved DEF Observed

-----------------------------------------------------------------------------
(* Copies of regular events: each header of the original makes the same    *)
(* header of the copy.                                                     *)

LEMMA OnlyAll ==
  ASSUME NEW T, NEW s \in Seq(T), NEW S, \A i \in 1 .. Len(s) : s[i] \in S
  PROVE  Only(s, S) = s
<1> DEFINE n == Len(s)
           u(i) == SubSeq(s, 1, i)
           G == {i \in 0 .. n : Only(u(i), S) = u(i)}
<1>0. n \in Nat
  OBVIOUS
<1>1. 0 \in G
  <2>1. u(0) = <<>>
    OBVIOUS
  <2>2. 0 \in 0 .. n
    BY <1>0
  <2> QED BY <2>1, <2>2, OnlyEmpty
<1>2. ASSUME NEW i \in 1 .. n, i - 1 \in G PROVE i \in G
  <2>1. /\ u(i - 1) \in Seq(T) /\ s[i] \in T
        /\ u(i) = Append(u(i - 1), s[i])
    BY Grows
  <2>2. Only(u(i - 1), S) = u(i - 1)
    BY <1>2
  <2>3. s[i] \in S /\ i \in 0 .. n
    BY <1>0
  <2> DEFINE v == u(i - 1)
             x == s[i]
  <2>4. v \in Seq(T) /\ x \in T /\ Only(v, S) = v /\ x \in S
    BY <2>1, <2>2, <2>3
  <2>5. u(i) = Append(v, x)
    BY <2>1
  <2> HIDE DEF v, x
  <2>6. Only(Append(v, x), S) = Append(v, x)
    BY <2>4, OnlyAppend
  <2> QED BY <2>3, <2>5, <2>6
<1>3. G = 0 .. n
  <2>1. G \in SUBSET (0 .. n)
    OBVIOUS
  <2> HIDE DEF G
  <2> QED BY <1>0, <1>1, <1>2, <2>1, Inductive
<1>4. n \in G /\ u(n) = s
  BY <1>0, <1>3
<1> QED BY <1>4

(* The only item that is in S.                                             *)
LEMMA OnlyUnique ==
  ASSUME NEW T, NEW s \in Seq(T), NEW S, NEW j \in 1 .. Len(s), s[j] \in S,
         \A i \in 1 .. Len(s) : i # j => s[i] \notin S
  PROVE  Only(s, S) = <<s[j]>>
<1> DEFINE n == Len(s)
           u(i) == SubSeq(s, 1, i)
           O(i) == IF i < j THEN <<>> ELSE <<s[j]>>
           G == {i \in 0 .. n : Only(u(i), S) = O(i)}
<1>0. n \in Nat /\ j \in 1 .. n
  OBVIOUS
<1>1. 0 \in G
  <2>1. u(0) = <<>>
    OBVIOUS
  <2>2. 0 \in 0 .. n /\ O(0) = <<>>
    BY <1>0
  <2> HIDE DEF O
  <2> QED BY <2>1, <2>2, OnlyEmpty
<1>2. ASSUME NEW i \in 1 .. n, i - 1 \in G PROVE i \in G
  <2> DEFINE v == u(i - 1)
             x == s[i]
             w == u(i)
  <2>1. v \in Seq(T) /\ x \in T /\ w = Append(v, x)
    BY Grows
  <2>2. Only(v, S) = O(i - 1)
    BY <1>2
  <2> HIDE DEF v, w
  <2>3. Only(w, S) = IF x \in S THEN Append(Only(v, S), x) ELSE Only(v, S)
    <3> HIDE DEF x
    <3>1. v \in Seq(T) /\ x \in T
      BY <2>1
    <3>2. Only(Append(v, x), S) = IF x \in S THEN Append(Only(v, S), x) ELSE Only(v, S)
      BY <3>1, OnlyAppend
    <3> QED BY <2>1, <3>2
  <2>4. i \in 0 .. n
    BY <1>0
  <2>5. CASE i < j
    <3>1. x \notin S /\ O(i) = <<>> /\ O(i - 1) = <<>>
      BY <1>0, <2>5
    <3> QED BY <2>2, <2>3, <2>4, <3>1 DEF w
  <2>6. CASE i = j
    <3>1. x \in S /\ x = s[j] /\ O(i) = <<s[j]>> /\ O(i - 1) = <<>>
      BY <1>0, <2>6
    <3>2. Append(<<>>, s[j]) = <<s[j]>>
      OBVIOUS
    <3> HIDE DEF O, x
    <3> QED BY <2>2, <2>3, <2>4, <3>1, <3>2 DEF w
  <2>7. CASE i > j
    <3>1. x \notin S /\ O(i) = <<s[j]>> /\ O(i - 1) = <<s[j]>>
      BY <1>0, <2>7
    <3> QED BY <2>2, <2>3, <2>4, <3>1 DEF w
  <2> QED BY <1>0, <2>5, <2>6, <2>7
<1>3. G = 0 .. n
  <2>1. G \in SUBSET (0 .. n)
    OBVIOUS
  <2> HIDE DEF G
  <2> QED BY <1>0, <1>1, <1>2, <2>1, Inductive
<1>4. n \in G /\ u(n) = s /\ O(n) = <<s[j]>>
  BY <1>0, <1>3
<1> HIDE DEF O
<1> QED BY <1>4

(* Headers of different names, and a name that none of them has.           *)
Distinct(hs) == \A i, j \in DOMAIN hs : Same(hs[i].name, hs[j].name) => i = j

Free(hs, name) == \A i \in DOMAIN hs : ~Same(hs[i].name, name)

LEMMA SameFacts ==
  /\ \A a : Same(a, a)
  /\ \A a, b : Same(a, b) => Same(b, a)
  /\ \A a, b, c : Same(a, b) /\ Same(b, c) => Same(a, c)
BY DEF Same

LEMMA OnlyDistinct ==
  ASSUME NEW s \in Seq(Header), Distinct(s), NEW S
  PROVE  Distinct(Only(s, S))
<1> DEFINE n == Len(s)
           u(i) == SubSeq(s, 1, i)
           G == {i \in 0 .. n : Distinct(Only(u(i), S))}
<1>0. n \in Nat /\ DOMAIN s = 1 .. n
  OBVIOUS
<1>1. 0 \in G
  <2>1. u(0) = <<>>
    OBVIOUS
  <2>2. 0 \in 0 .. n
    BY <1>0
  <2>3. Only(<<>>, S) = <<>>
    BY OnlyEmpty
  <2>4. Distinct(<<>>)
    BY DEF Distinct
  <2> QED BY <2>1, <2>2, <2>3, <2>4
<1>2. ASSUME NEW i \in 1 .. n, i - 1 \in G PROVE i \in G
  <2> DEFINE w == u(i - 1)
             x == s[i]
             v == Only(w, S)
  <2>1. w \in Seq(Header) /\ x \in Header /\ u(i) = Append(w, x)
    BY Grows
  <2>2. /\ Distinct(v) /\ i \in 0 .. n
    BY <1>2, <1>0
  <2>3. \A l \in 1 .. Len(w) : w[l] = s[l] /\ l \in 1 .. n /\ l # i
    OBVIOUS
  <2>4. \A l \in 1 .. Len(w) : ~Same(w[l].name, x.name)
    <3> TAKE l \in 1 .. Len(w)
    <3>1. w[l] = s[l] /\ l \in DOMAIN s /\ i \in DOMAIN s /\ l # i
      BY <1>0, <2>3
    <3> HIDE DEF w
    <3> QED BY <3>1 DEF Distinct
  <2> HIDE DEF w, x
  <2>5. v \in Seq(Header)
    BY <2>1, OnlyType
  <2>6. \A k \in 1 .. Len(v) : \E l \in 1 .. Len(w) : v[k] = w[l]
    BY <2>1, OnlyFrom
  <2>7. Only(Append(w, x), S) = IF x \in S THEN Append(v, x) ELSE v
    BY <2>1, OnlyAppend
  <2> HIDE DEF v
  <2>8. \A k \in 1 .. Len(v) : ~Same(v[k].name, x.name)
    BY <2>4, <2>6
  <2>9. Distinct(Append(v, x))
    <3> DEFINE t == Append(v, x)
               m == Len(v)
    <3>1. /\ DOMAIN t = 1 .. m + 1 /\ t[m + 1] = x /\ m \in Nat
          /\ \A k \in 1 .. m : t[k] = v[k]
          /\ DOMAIN v = 1 .. m
      BY <2>5
    <3> HIDE DEF t
    <3>2. ASSUME NEW j \in DOMAIN t, NEW k \in DOMAIN t, Same(t[j].name, t[k].name)
          PROVE  j = k
      <4>1. CASE j \in 1 .. m /\ k \in 1 .. m
        BY <2>2, <3>1, <3>2, <4>1 DEF Distinct
      <4>2. CASE j \in 1 .. m /\ k = m + 1
        BY <2>8, <3>1, <3>2, <4>2
      <4>3. CASE j = m + 1 /\ k \in 1 .. m
        BY <2>8, <3>1, <3>2, <4>3, SameFacts
      <4>4. CASE j = m + 1 /\ k = m + 1
        BY <4>4
      <4> QED
        <5>1. j \in 1 .. m \/ j = m + 1
          BY <3>1
        <5>2. k \in 1 .. m \/ k = m + 1
          BY <3>1
        <5> QED BY <4>1, <4>2, <4>3, <4>4, <5>1, <5>2
    <3> QED BY <3>2 DEF Distinct, t
  <2>10. Distinct(Only(u(i), S))
    BY <2>1, <2>2, <2>7, <2>9
  <2> QED BY <2>2, <2>10
<1>3. G = 0 .. n
  <2>1. G \in SUBSET (0 .. n)
    OBVIOUS
  <2> HIDE DEF G
  <2> QED BY <1>0, <1>1, <1>2, <2>1, Inductive
<1>4. n \in G /\ u(n) = s
  BY <1>0, <1>3
<1> QED BY <1>4

(* A header behind all others.                                             *)
Appended(e, h) == Listed(e, Append(e.headers, h))

LEMMA ListedSelf ==
  ASSUME NEW e, Sound(e)
  PROVE  Listed(e, e.headers) = e
BY DEF Listed, Sound, Event

LEMMA AppendedFacts ==
  ASSUME NEW e, Sound(e), NEW h \in Header, Solid(h)
  PROVE  LET f == Appended(e, h)
         IN /\ Sound(f) /\ f.headers = Append(e.headers, h) /\ f.id = e.id
            /\ f.uniq = e.uniq /\ f.subclass = e.subclass /\ f.body = e.body
<1> DEFINE hs == Append(e.headers, h)
           f == Appended(e, h)
<1>1. e.headers \in Seq(Header) /\ AllSolid(e.headers) /\ f = Listed(e, hs)
  BY EventFacts DEF Sound, Appended
<1>2. hs \in Seq(Header)
  BY <1>1
<1>3. AllSolid(hs)
  BY <1>1 DEF AllSolid
<1>4. hs = Append(e.headers, h)
  OBVIOUS
<1> HIDE DEF hs, f
<1>5. /\ Sound(f) /\ f.headers = hs /\ f.id = e.id /\ f.uniq = e.uniq
      /\ f.subclass = e.subclass /\ f.body = e.body
  BY <1>1, <1>2, <1>3, WithHeaders
<1> QED BY <1>4, <1>5 DEF f

LEMMA InsertedBehind ==
  ASSUME NEW e, Sound(e), NEW h \in Header, NEW stack, ~HasTop(stack)
  PROVE  Inserted(e, stack, h) = Appended(e, h)
<1> DEFINE s == e.headers
<1>1. e \in Event /\ e.last = Len(s) /\ s \in Seq(Header) /\ Len(s) \in Nat
  BY EventFacts DEF Sound
<1>2. SubSeq(s, 1, e.last) = s /\ Len(Append(s, h)) = e.last + 1
  BY <1>1
<1> QED BY <1>1, <1>2 DEF Inserted, Appended, Listed

(* Nothing is deleted when no header has the name.                         *)
LEMMA DeletedFree ==
  ASSUME NEW e, Sound(e), NEW name, Free(e.headers, name)
  PROVE  Deleted(e, name, <<>>) = e /\ Cleared(e, name) = e
<1> DEFINE s == e.headers
           n == Len(s)
           gone(h) == Same(h.name, name) /\ (<<>> = <<>> \/ h.value = <<>>)
           K == {h \in Header : ~gone(h)}
<1>1. e \in Event /\ e.last = n /\ s \in Seq(Header) /\ n \in Nat /\ DOMAIN s = 1 .. n
  BY EventFacts DEF Sound
<1>2. SubSeq(s, 1, n) = s
  BY <1>1
<1>3. (IF n > 0 /\ gone(s[n]) THEN n ELSE e.last) = n
  BY <1>1
<1>4. \A i \in 1 .. n : s[i] \in K
  BY <1>1 DEF Free
<1>5. Deleted(e, name, <<>>) = Listed(e, Only(s, K))
  BY <1>2, <1>3 DEF Deleted, Listed
<1> HIDE DEF K
<1>6. Only(s, K) = s
  BY <1>1, <1>4, OnlyAll
<1>7. Deleted(e, name, <<>>) = e
  BY <1>5, <1>6, ListedSelf
<1> QED BY <1>7 DEF Cleared

(* A header without elements.                                              *)
Scalar(name, v) == [name |-> name, value |-> v, array |-> <<>>]

LEMMA ScalarFacts ==
  ASSUME NEW name \in String, NEW v \in Text
  PROVE  Scalar(name, v) \in Header /\ Solid(Scalar(name, v)) /\ InStep(Scalar(name, v))
<1>1. v # NULL
  BY NullIsNoText
<1> QED BY <1>1 DEF Scalar, Header, Solid, InStep

LEMMA ScalarAdded ==
  ASSUME NEW e, Sound(e), NEW name \in String, name # "_body",
         Free(e.headers, name) \/ ~e.uniq,
         NEW v \in Text, v # <<>>, ~Has(v, ARRAY)
  PROVE  Added(e, "BOTTOM", name, v, "none") = Done(Appended(e, Scalar(name, v)))
<1> DEFINE h == Scalar(name, v)
           b == "BOTTOM"
           f == "none"
<1>1. ~HasTop(b) /\ ~HasPushOrUnshift(b) /\ f # "copy" /\ f # "new"
  BY DEF HasTop, HasPushOrUnshift
<1>2. [NewHeader(name) EXCEPT !.value = v] = h
  BY DEF NewHeader, Scalar
<1>3. h \in Header
  BY ScalarFacts
<1> HIDE DEF h, b, f
<1>4. Added(e, b, name, v, f) = AddedWhole(e, b, name, v, f)
  BY DEF Added, IsCut
<1>5. ~Extends(e, b, name)
  BY <1>1 DEF Extends
<1>6. AddedWhole(e, b, name, v, f) = Joined(Cleared(e, name), b, name, v, f)
  BY <1>1, <1>5 DEF AddedWhole
<1>7. Cleared(e, name) = e
  BY DeletedFree DEF Cleared
<1>8. Joined(e, b, name, v, f) = Done(Inserted(e, b, h))
  BY <1>1, <1>2 DEF Joined
<1>9. Inserted(e, b, h) = Appended(e, h)
  BY <1>1, <1>3, InsertedBehind
<1>10. Added(e, b, name, v, f) = Done(Appended(e, h))
  BY <1>4, <1>6, <1>7, <1>8, <1>9
<1> QED BY <1>10 DEF h, b, f

LEMMA FreeFind ==
  ASSUME NEW e, Sound(e), NEW name
  PROVE  Free(e.headers, name) <=> Find(e, name) = 0
<1>1. Find(e, name) = 0 => Free(e.headers, name)
  BY FindFacts DEF Free
<1>2. Find(e, name) # 0 => ~Free(e.headers, name)
  BY FindFacts DEF Free
<1> QED BY <1>1, <1>2

(* A header made of its elements.                                          *)
Drawing(items) == IF Len(items) = 1 THEN items[1] ELSE Together(items)
Piled(name, items) == [name |-> name, value |-> Drawing(items), array |-> items]

LEMMA RedrawnIsPiled ==
  ASSUME NEW h \in Header
  PROVE  Redrawn(h) = Piled(h.name, h.array)
<1> DEFINE v == Drawing(h.array)
<1>1. Redrawn(h) = [h EXCEPT !.value = v]
  BY DEF Redrawn, Drawing
<1>2. Piled(h.name, h.array) = [name |-> h.name, value |-> v, array |-> h.array]
  BY DEF Piled
<1> HIDE DEF v
<1>3. [h EXCEPT !.value = v] = [name |-> h.name, value |-> v, array |-> h.array]
  BY DEF Header
<1> QED BY <1>1, <1>2, <1>3

LEMMA PiledFacts ==
  ASSUME NEW name \in String, NEW items \in Seq(Text), items # <<>>
  PROVE  LET h == Piled(name, items)
         IN h \in Header /\ h.name = name /\ h.array = items /\ Solid(h) /\ InStep(h)
<1> DEFINE g == [NewHeader(name) EXCEPT !.array = items]
           h == Piled(name, items)
<1>1. g \in Header /\ g.name = name /\ g.array = items
  BY NewHeaderFacts, HeaderFacts
<1> HIDE DEF g
<1>2. Redrawn(g) = h
  BY <1>1, RedrawnIsPiled
<1>3. /\ Redrawn(g) \in Header /\ Redrawn(g).name = name /\ Redrawn(g).array = items
      /\ InStep(Redrawn(g)) /\ Solid(Redrawn(g))
  BY <1>1, RedrawnFacts
<1> QED BY <1>2, <1>3

(* An element more.                                                        *)
LEMMA PushedPile ==
  ASSUME NEW h \in Header, h.value = NULL \/ h.array # <<>>, NEW data \in Text
  PROVE  Pushed(h, data, "none")
           = [h |-> Piled(h.name, Append(h.array, data)), ok |-> TRUE]
<1> DEFINE a == Append(h.array, data)
           g == [h EXCEPT !.array = a]
<1>1. Moved(h) = h
  BY DEF Moved
<1>2. Pushed(h, data, "none") = Drawn(g, "none")
  BY <1>1 DEF Pushed
<1>3. a \in Seq(Text)
  BY HeaderFacts
<1> HIDE DEF a
<1>4. g \in Header /\ g.name = h.name /\ g.array = a
  BY <1>3, HeaderFacts
<1> HIDE DEF g
<1>5. Drawn(g, "none") = [h |-> Redrawn(g), ok |-> TRUE]
  BY DEF Drawn
<1>6. Redrawn(g) = Piled(h.name, a)
  BY <1>4, RedrawnIsPiled
<1> QED BY <1>2, <1>5, <1>6 DEF a

(* The first element makes the header, if it is no array itself.           *)
LEMMA FirstPushed ==
  ASSUME NEW e, Sound(e), NEW name \in String, name # "_body", Free(e.headers, name),
         NEW data \in Text, data # <<>>, ~Has(data, ARRAY)
  PROVE  /\ ~IsCut(e, "PUSH", name, data, "none")
         /\ AddedWhole(e, "PUSH", name, data, "none") = Done(Appended(e, Piled(name, <<data>>)))
<1> DEFINE b == "PUSH"
           f == "none"
           h == NewHeader(name)
           one == <<data>>
           g == Piled(name, one)
           r == Pushed(h, data, f)
<1>1. ~HasTop(b) /\ HasPushOrUnshift(b) /\ f # "copy" /\ f # "new"
  BY DEF HasTop, HasPushOrUnshift
<1>2. Find(e, name) = 0
  BY FreeFind
<1>3. h \in Header /\ h.value = NULL /\ h.array = <<>> /\ h.name = name
  BY NewHeaderFacts
<1>4. Append(<<>>, data) = one /\ one \in Seq(Text) /\ one # <<>>
  OBVIOUS
<1>5. r = [h |-> g, ok |-> TRUE]
  <2> HIDE DEF h, one
  <2> QED BY <1>3, <1>4, PushedPile
<1>6. g \in Header
  <2> HIDE DEF one
  <2> QED BY <1>4, PiledFacts
<1> HIDE DEF b, f, h, g, r
<1>7. ~IsCut(e, b, name, data, f)
  BY DEF IsCut
<1>8. ~Extends(e, b, name)
  BY <1>2 DEF Extends
<1>9. AddedWhole(e, b, name, data, f) = Joined(Cleared(e, name), b, name, data, f)
  BY <1>1, <1>8 DEF AddedWhole
<1>10. Cleared(e, name) = e
  BY DeletedFree
<1>11. Joined(e, b, name, data, f) = Accepted(e, b, r)
  BY <1>1 DEF Joined, h, r
<1>12. Accepted(e, b, r) = Done(Inserted(e, b, g))
  BY <1>5 DEF Accepted
<1>13. Inserted(e, b, g) = Appended(e, g)
  BY <1>1, <1>6, InsertedBehind
<1>14. AddedWhole(e, b, name, data, f) = Done(Appended(e, g))
  BY <1>9, <1>10, <1>11, <1>12, <1>13
<1> QED BY <1>7, <1>14 DEF b, f, g

(* The last header replaced.                                               *)
LEMMA AppendedAgain ==
  ASSUME NEW e, Sound(e), NEW g \in Header, NEW h \in Header
  PROVE  LET k == Len(e.headers) + 1
         IN [Appended(e, g) EXCEPT !.headers[k] = h] = Appended(e, h)
<1> DEFINE s == e.headers
           k == Len(s) + 1
           v == Append(s, g)
           w == Append(s, h)
<1>1. e \in Event /\ s \in Seq(Header) /\ Len(s) \in Nat
  BY EventFacts DEF Sound
<1>2. [v EXCEPT ![k] = h] = w /\ Len(v) = k /\ Len(w) = k
  <2>1. /\ v \in Seq(Header) /\ Len(v) = k /\ w \in Seq(Header) /\ Len(w) = k
        /\ w[k] = h /\ \A i \in 1 .. Len(s) : v[i] = w[i]
    BY <1>1
  <2>2. k \in Nat /\ \A i \in 1 .. k : i \in 1 .. Len(s) \/ i = k
    BY <1>1
  <2> HIDE DEF v, w, k
  <2> DEFINE x == [v EXCEPT ![k] = h]
  <2>3. /\ DOMAIN v = 1 .. k /\ v = [i \in 1 .. k |-> v[i]]
        /\ DOMAIN w = 1 .. k /\ w = [i \in 1 .. k |-> w[i]]
    BY <2>1
  <2>4. x = [i \in 1 .. k |-> IF i = k THEN h ELSE v[i]]
    BY <2>3
  <2>5. \A i \in 1 .. k : w[i] = IF i = k THEN h ELSE v[i]
    BY <2>1, <2>2
  <2>6. x = w
    BY <2>3, <2>4, <2>5
  <2> QED BY <2>1, <2>6
<1> HIDE DEF s, v, w, k
<1>3. Appended(e, g) = [e EXCEPT !.headers = v, !.last = k]
  BY <1>2 DEF Appended, Listed, s, v
<1>4. Appended(e, h) = [e EXCEPT !.headers = w, !.last = k]
  BY <1>2 DEF Appended, Listed, s, w
<1>5. [[e EXCEPT !.headers = v, !.last = k] EXCEPT !.headers[k] = h]
        = [e EXCEPT !.headers = [v EXCEPT ![k] = h], !.last = k]
  BY <1>1 DEF Event
<1>6. [Appended(e, g) EXCEPT !.headers[k] = h] = Appended(e, h)
  BY <1>2, <1>3, <1>4, <1>5
<1> QED BY <1>6 DEF k, s

(* Each further element extends it.                                        *)
LEMMA NextPushed ==
  ASSUME NEW e, Sound(e), NEW name \in String, name # "_body", Free(e.headers, name),
         NEW items \in Seq(Text), items # <<>>, NEW data \in Text
  PROVE  LET f == Appended(e, Piled(name, items))
         IN /\ ~IsCut(f, "PUSH", name, data, "none")
            /\ AddedWhole(f, "PUSH", name, data, "none")
                 = Done(Appended(e, Piled(name, Append(items, data))))
<1> DEFINE b == "PUSH"
           g == Piled(name, items)
           f == Appended(e, g)
           k == Len(e.headers) + 1
           more == Append(items, data)
           h == Piled(name, more)
           r == Pushed(g, data, "none")
           x == "none"
<1>1. HasPushOrUnshift(b) /\ HasPush(WithoutTop(b)) /\ x # "copy"
  BY DEF HasPushOrUnshift, HasPush, WithoutTop
<1>2. /\ g \in Header /\ g.name = name /\ g.array = items /\ Solid(g)
  BY PiledFacts
<1>3. more \in Seq(Text) /\ more # <<>>
  OBVIOUS
<1> HIDE DEF more
<1>4. h \in Header
  BY <1>3, PiledFacts
<1>5. r = [h |-> h, ok |-> TRUE]
  <2> HIDE DEF g, h
  <2>1. r = [h |-> Piled(g.name, Append(g.array, data)), ok |-> TRUE]
    BY <1>2, PushedPile
  <2> QED BY <1>2, <2>1 DEF more, h
<1> HIDE DEF g, h, f
<1>6. Sound(f) /\ f.headers = Append(e.headers, g)
  BY <1>2, AppendedFacts DEF f
<1>7. e.headers \in Seq(Header) /\ Len(e.headers) \in Nat /\ DOMAIN e.headers = 1 .. Len(e.headers)
  BY EventFacts DEF Sound
<1>8. /\ k \in DOMAIN f.headers /\ f.headers[k] = g /\ DOMAIN f.headers = 1 .. k
      /\ \A i \in DOMAIN e.headers : f.headers[i] = e.headers[i]
  BY <1>2, <1>6, <1>7
<1>9. Find(f, name) = k
  <2>1. Same(f.headers[k].name, name)
    BY <1>2, <1>8, SameFacts
  <2>2. \A i \in DOMAIN f.headers : Same(f.headers[i].name, name) => i = k
    <3> TAKE i \in DOMAIN f.headers
    <3>1. i \in DOMAIN e.headers \/ i = k
      BY <1>7, <1>8
    <3> QED BY <1>8, <3>1 DEF Free
  <2>3. Find(f, name) # 0
    BY <1>6, <1>8, <2>1, FindFacts
  <2> QED BY <1>6, <2>2, <2>3, FindFacts
<1>10. k # 0
  BY <1>7
<1> HIDE DEF b, x, k
<1>11. Extends(f, b, name)
  BY <1>1, <1>9, <1>10 DEF Extends
<1>12. ~IsCut(f, b, name, data, x)
  BY <1>11 DEF IsCut
<1>13. AddedWhole(f, b, name, data, x) = Extended(f, k, b, data, x)
  BY <1>1, <1>9, <1>11 DEF AddedWhole
<1>14. Extended(f, k, b, data, x) = Kept(f, k, r)
  BY <1>1, <1>8 DEF Extended, r, x
<1>15. Kept(f, k, r) = Done([f EXCEPT !.headers[k] = h])
  <2>1. r.h = h /\ r.ok = TRUE
    BY <1>5
  <2> HIDE DEF r
  <2> QED BY <2>1, Zenon DEF Kept, Done
<1>16. [f EXCEPT !.headers[k] = h] = Appended(e, h)
  BY <1>2, <1>4, AppendedAgain DEF f, k
<1>17. AddedWhole(f, b, name, data, x) = Done(Appended(e, h))
  BY <1>13, <1>14, <1>15, <1>16
<1> QED BY <1>12, <1>17 DEF b, x, f, g, h, more

(* What stands after i elements have been pushed.                          *)
PushedSoFar(e, name, items, i) ==
  [ev |-> IF i = 0 THEN e ELSE Appended(e, Piled(name, SubSeq(items, 1, i))), ok |-> TRUE,
   todo |-> SubSeq(items, i + 1, Len(items))]

(* A list whose first element looks neither empty nor like an array.       *)
Pushable(items) ==
  items \in Seq(Text) /\ items # <<>> /\ items[1] # <<>> /\ ~Has(items[1], ARRAY)

LEMMA TurnIdle ==
  ASSUME NEW r, r.todo = <<>>, NEW name, NEW fault
  PROVE  Turn(r, name, fault) = r
BY Zenon DEF Turn

LEMMA TurnWhole ==
  ASSUME NEW r, r.ok = TRUE, r.todo # <<>>, NEW name,
         ~IsCut(r.ev, "PUSH", name, Head(r.todo), "none")
  PROVE  LET w == AddedWhole(r.ev, "PUSH", name, Head(r.todo), "none")
         IN Turn(r, name, "none") = [ev |-> w.ev, ok |-> w.ok, todo |-> Tail(r.todo)]
<1>1. (IF Len(r.todo) = 1 THEN "none" ELSE "none") = "none"
  OBVIOUS
<1> QED BY <1>1, Zenon DEF Turn

LEMMA TurnPushes ==
  ASSUME NEW e, Sound(e), NEW name \in String, name # "_body", Free(e.headers, name),
         NEW items, Pushable(items), NEW i \in 0 .. Len(items)
  PROVE  Turn(PushedSoFar(e, name, items, i), name, "none")
           = PushedSoFar(e, name, items, IF i < Len(items) THEN i + 1 ELSE i)
<1> DEFINE n == Len(items)
           s == SubSeq(items, 1, i)
           t == SubSeq(items, i + 1, n)
           f == IF i = 0 THEN e ELSE Appended(e, Piled(name, s))
           r == [ev |-> f, ok |-> TRUE, todo |-> t]
           x == "none"
<1>1. items \in Seq(Text) /\ n \in Nat
  BY DEF Pushable
<1>2. PushedSoFar(e, name, items, i) = r
  BY DEF PushedSoFar
<1>3. CASE i = n
  <2>1. t = <<>>
    BY <1>1, <1>3
  <2> HIDE DEF f, t
  <2>2. Turn(r, name, x) = r
    BY <2>1, TurnIdle
  <2>3. (IF i < Len(items) THEN i + 1 ELSE i) = i
    BY <1>1, <1>3
  <2> HIDE DEF r
  <2> QED BY <1>2, <2>2, <2>3
<1>4. CASE i < n
  <2> DEFINE data == items[i + 1]
             j == i + 1
             v == SubSeq(items, 1, j)
             w == SubSeq(items, j + 1, n)
             g == Appended(e, Piled(name, v))
             b == "PUSH"
  <2>1. j \in 1 .. n /\ j # 0
    BY <1>1, <1>4
  <2>2. t # <<>> /\ Head(t) = data /\ Tail(t) = w
    <3>1. t \in Seq(Text) /\ Len(t) = n - i /\ \A l \in 1 .. n - i : t[l] = items[i + l]
      BY <1>1, <1>4
    <3>2. t # <<>> /\ Head(t) = data
      <4>1. n - i \in Nat /\ 1 \in 1 .. n - i
        BY <1>1, <1>4
      <4>2. t[1] = items[i + 1]
        BY <3>1, <4>1
      <4> HIDE DEF t
      <4> QED BY <3>1, <4>1, <4>2
    <3>3. Tail(t) = w
      BY <1>1, <1>4, HeadTailOfSubSeq
    <3> QED BY <3>2, <3>3
  <2>3. data \in Text
    BY <1>1, <2>1
  <2>4. ~IsCut(f, b, name, data, x) /\ AddedWhole(f, b, name, data, x) = Done(g)
    <3>1. CASE i = 0
      <4>1. data = items[1] /\ f = e
        BY <3>1
      <4>2. v = <<data>>
        <5>1. SubSeq(items, 1, 1) = <<items[1]>>
          <6> DEFINE u == SubSeq(items, 1, 1)
          <6>1. u \in Seq(Text) /\ Len(u) = 1 /\ u[1] = items[1]
            BY <1>1, <2>1, <3>1
          <6> HIDE DEF u
          <6>2. u = <<items[1]>>
            BY <6>1
          <6> QED BY <6>2 DEF u
        <5>2. j = 1
          BY <3>1
        <5> QED BY <4>1, <5>1, <5>2
      <4>3. data # <<>> /\ ~Has(data, ARRAY)
        BY <3>1 DEF Pushable
      <4> HIDE DEF data, v, f
      <4> QED BY <2>3, <4>1, <4>2, <4>3, FirstPushed
    <3>2. CASE i # 0
      <4>1. s \in Seq(Text) /\ s # <<>> /\ v = Append(s, data)
        BY <1>1, <2>1, <3>2
      <4>2. f = Appended(e, Piled(name, s))
        BY <3>2
      <4> HIDE DEF data, v, f, s
      <4> QED BY <2>3, <4>1, <4>2, NextPushed
    <3> QED BY <3>1, <3>2
  <2>5. PushedSoFar(e, name, items, j) = [ev |-> g, ok |-> TRUE, todo |-> w]
    BY <2>1 DEF PushedSoFar
  <2>6. r.ev = f /\ r.ok = TRUE /\ r.todo = t
    OBVIOUS
  <2> HIDE DEF data, w, g, f, t, r
  <2>7. Turn(r, name, x) = [ev |-> Done(g).ev, ok |-> Done(g).ok, todo |-> w]
    BY <2>2, <2>4, <2>6, TurnWhole
  <2>8. Turn(r, name, x) = [ev |-> g, ok |-> TRUE, todo |-> w]
    BY <2>7 DEF Done
  <2> QED BY <1>2, <1>4, <2>5, <2>8
<1> QED BY <1>1, <1>3, <1>4

(* A list becomes a header behind all others.                              *)
LEMMA AllPushedPile ==
  ASSUME NEW e, Sound(e), NEW name \in String, name # "_body", Free(e.headers, name),
         NEW items, Pushable(items)
  PROVE  AllPushed(e, name, items, "none") = Done(Appended(e, Piled(name, items)))
<1> DEFINE n == Len(items)
           m == Enough(items)
           P(i) == PushedSoFar(e, name, items, i)
           C(i) == IF i < n THEN i ELSE n
           T == {P(i) : i \in 0 .. n}
           x == "none"
<1>1. items \in Seq(Text) /\ n \in Nat /\ items # <<>> /\ n # 0
  BY DEF Pushable
<1>2. m \in Nat /\ m >= n
  BY <1>1, EnoughType
<1>3. Begun(e, items) = P(0)
  <2>1. SubSeq(items, 0 + 1, Len(items)) = items
    BY <1>1
  <2> QED BY <2>1 DEF Begun, PushedSoFar
<1>4. \A i \in 0 .. n : Turn(P(i), name, x) = P(IF i < n THEN i + 1 ELSE i)
  BY TurnPushes
<1> HIDE DEF P, m, x
<1>5. Begun(e, items) \in T
  BY <1>1, <1>3
<1>6. \A r \in T : Turn(r, name, x) \in T
  <2> TAKE r \in T
  <2>1. PICK i \in 0 .. n : r = P(i)
    OBVIOUS
  <2>2. (IF i < n THEN i + 1 ELSE i) \in 0 .. n
    BY <1>1
  <2> QED BY <1>4, <2>1, <2>2
<1> HIDE DEF T
<1>7. PICK d : Pushes(d, e, name, items, x, T)
  BY <1>1, <1>5, <1>6, AllPushedBy
<1> DEFINE G == {i \in 0 .. m : d[i] = P(C(i))}
<1>8. 0 \in G
  <2>1. 0 \in 0 .. m /\ C(0) = 0
    BY <1>1, <1>2
  <2> QED BY <1>3, <1>7, <2>1 DEF Pushes
<1>9. ASSUME NEW i \in 1 .. m, i - 1 \in G PROVE i \in G
  <2>1. i \in 0 .. m /\ C(i - 1) \in 0 .. n
    BY <1>1, <1>2
  <2>2. d[i] = Turn(d[i - 1], name, x)
    BY <1>7 DEF Pushes, m
  <2>3. d[i - 1] = P(C(i - 1))
    BY <1>9
  <2>4. (IF C(i - 1) < n THEN C(i - 1) + 1 ELSE C(i - 1)) = C(i)
    BY <1>1, <1>2
  <2> HIDE DEF C
  <2> QED BY <1>4, <2>1, <2>2, <2>3, <2>4
<1>10. G = 0 .. m
  <2>1. G \in SUBSET (0 .. m)
    OBVIOUS
  <2> HIDE DEF G
  <2> QED BY <1>2, <1>8, <1>9, <2>1, Inductive
<1>11. d[m] = P(n)
  <2>1. m \in 0 .. m /\ C(m) = n
    BY <1>1, <1>2
  <2> QED BY <1>10, <2>1
<1>12. AllPushed(e, name, items, x) = [ev |-> P(n).ev, ok |-> P(n).ok]
  BY <1>7, <1>11 DEF Pushes, m
<1>13. SubSeq(items, 1, n) = items
  BY <1>1
<1>14. P(n).ev = Appended(e, Piled(name, items)) /\ P(n).ok = TRUE
  BY <1>1, <1>13 DEF P, PushedSoFar
<1> QED BY <1>12, <1>14 DEF Done, x

-----------------------------------------------------------------------------
(* A header that a copy can be made of.                                    *)
Copyable(h) ==
  /\ h \in Header /\ InStep(h) /\ h.name # "_body"
  /\ Items(h)[1] \notin {NULL, <<>>} /\ ~Has(Items(h)[1], ARRAY)

LEMMA CopyableFacts ==
  ASSUME NEW h, Copyable(h)
  PROVE  /\ h \in Header /\ h.name \in String /\ h.name # "_body" /\ Solid(h)
         /\ h.array = <<>> => /\ h = Scalar(h.name, h.value) /\ Items(h) = <<h.value>>
                              /\ h.value \in Text /\ h.value # <<>> /\ ~Has(h.value, ARRAY)
         /\ h.array # <<>> => /\ h = Piled(h.name, h.array) /\ Items(h) = h.array
                              /\ Pushable(h.array)
<1>1. h \in Header /\ h.name # "_body" /\ h.name \in String
  BY HeaderFacts DEF Copyable
<1>2. CASE h.array = <<>>
  <2>1. Items(h) = <<h.value>>
    BY <1>2 DEF Items
  <2>2. h.value \notin {NULL, <<>>} /\ ~Has(h.value, ARRAY)
    BY <2>1 DEF Copyable
  <2>3. h.value \in Text
    BY <1>1, <2>2, HeaderFacts
  <2>4. h = Scalar(h.name, h.value)
    BY <1>1, <1>2 DEF Header, Scalar
  <2> QED BY <1>1, <1>2, <2>1, <2>2, <2>3, <2>4 DEF Solid
<1>3. CASE h.array # <<>>
  <2>1. Items(h) = h.array
    BY <1>3 DEF Items
  <2>2. h = Redrawn(h)
    BY <1>3 DEF Copyable, InStep
  <2>3. h = Piled(h.name, h.array)
    BY <1>1, <2>2, RedrawnIsPiled
  <2>4. Pushable(h.array)
    BY <1>1, <1>3, <2>1, HeaderFacts DEF Copyable, Pushable
  <2> QED BY <1>1, <1>3, <2>1, <2>3, <2>4 DEF Solid
<1> QED BY <1>2, <1>3

LEMMA RegularFacts ==
  ASSUME NEW e, Sound(e), Regular(e)
  PROVE  Distinct(e.headers) /\ \A i \in DOMAIN e.headers : Copyable(e.headers[i])
<1>1. Distinct(e.headers)
  BY DEF Regular, Distinct
<1>2. ASSUME NEW i \in DOMAIN e.headers PROVE Copyable(e.headers[i])
  <2>1. e.headers[i] \in Header
    BY EventFacts DEF Sound
  <2> QED BY <2>1 DEF Regular, AllInStep, Copyable
<1> QED BY <1>1, <1>2

LEMMA TransferredCopy ==
  ASSUME NEW e, Sound(e), NEW h, Copyable(h),
         Free(e.headers, h.name) \/ (~e.uniq /\ h.array = <<>>)
  PROVE  Transferred(Done(e), h) = Done(Appended(e, h))
<1> DEFINE acc == Done(e)
           name == h.name
           items == h.array
           v == h.value
<1>1. acc.ok = TRUE /\ acc.ev = e
  BY DEF Done
<1> HIDE DEF acc
<1>2. CASE items # <<>>
  <2>1. Transferred(acc, h) = AllPushed(e, name, items, "none")
    BY <1>1, <1>2 DEF Transferred
  <2>2. name \in String /\ name # "_body" /\ Pushable(items) /\ h = Piled(name, items)
    BY <1>2, CopyableFacts
  <2>4. Free(e.headers, name)
    BY <1>2
  <2> HIDE DEF name, items
  <2>3. AllPushed(e, name, items, "none") = Done(Appended(e, Piled(name, items)))
    BY <2>2, <2>4, AllPushedPile
  <2> QED BY <2>1, <2>2, <2>3 DEF acc
<1>3. CASE items = <<>>
  <2>1. /\ name \in String /\ name # "_body" /\ v \in Text /\ v # <<>> /\ ~Has(v, ARRAY)
        /\ h = Scalar(name, v)
    BY <1>3, CopyableFacts
  <2>2. v # NULL
    BY <2>1, NullIsNoText
  <2>3. Transferred(acc, h) = Added(e, "BOTTOM", name, v, "none")
    BY <1>1, <1>3, <2>2 DEF Transferred
  <2> HIDE DEF name, v
  <2>4. Added(e, "BOTTOM", name, v, "none") = Done(Appended(e, Scalar(name, v)))
    BY <2>1, ScalarAdded DEF name
  <2> QED BY <2>1, <2>3, <2>4 DEF acc
<1> QED BY <1>2, <1>3

(* Where the elements stand in the value that has all of them.             *)
Stands(t, items, B) ==
  LET n == Len(items)
  IN /\ B[1] = 1
     /\ \A k \in 1 .. n :
          /\ B[k] \in 1 .. Len(t) + 1 /\ B[k] + Len(items[k]) - 1 <= Len(t)
          /\ \A j \in 1 .. Len(items[k]) : t[B[k] + j - 1] = items[k][j]
     /\ B[n] + Len(items[n]) - 1 = Len(t)
     /\ \A k \in 1 .. n - 1 :
          /\ B[k] + Len(items[k]) <= Len(t) /\ t[B[k] + Len(items[k])] = SEP
          /\ B[k + 1] = B[k] + Len(items[k]) + 1

LEMMA ConcatParts ==
  ASSUME NEW T, NEW s \in Seq(T), NEW t \in Seq(T), NEW w, w = s \o t
  PROVE  /\ w \in Seq(T) /\ Len(w) = Len(s) + Len(t)
         /\ \A q \in 1 .. Len(s) : w[q] = s[q] /\ q \in 1 .. Len(w)
         /\ \A q \in 1 .. Len(t) : w[Len(s) + q] = t[q] /\ Len(s) + q \in 1 .. Len(w)
<1>1. /\ w \in Seq(T) /\ Len(w) = Len(s) + Len(t) /\ Len(s) \in Nat /\ Len(t) \in Nat
      /\ \A i \in 1 .. Len(s) + Len(t) :
           w[i] = IF i <= Len(s) THEN s[i] ELSE t[i - Len(s)]
  BY ConcatProperties
<1>2. \A q \in 1 .. Len(s) : w[q] = s[q] /\ q \in 1 .. Len(w)
  BY <1>1
<1>3. ASSUME NEW q \in 1 .. Len(t)
      PROVE  w[Len(s) + q] = t[q] /\ Len(s) + q \in 1 .. Len(w)
  <2>1. /\ Len(s) + q \in 1 .. Len(s) + Len(t) /\ ~(Len(s) + q <= Len(s))
        /\ (Len(s) + q) - Len(s) = q
    BY <1>1
  <2> QED BY <1>1, <2>1
<1> QED BY <1>1, <1>2, <1>3

(* An event with the headers hs behind some others.                        *)
LEMMA FreeBehind ==
  ASSUME NEW s \in Seq(Header), NEW hs \in Seq(Header), Distinct(s \o hs),
         NEW i \in 1 .. Len(hs)
  PROVE  /\ Free(s \o SubSeq(hs, 1, i - 1), hs[i].name)
         /\ s \o SubSeq(hs, 1, i) = Append(s \o SubSeq(hs, 1, i - 1), hs[i])
<1> DEFINE v == SubSeq(hs, 1, i - 1)
           w == s \o v
           t == s \o hs
           k == Len(s) + i
<1>1. /\ Len(s) \in Nat /\ Len(hs) \in Nat /\ Len(v) = i - 1 /\ v \in Seq(Header)
      /\ \A l \in 1 .. i - 1 : v[l] = hs[l]
  OBVIOUS
<1> HIDE DEF v
<1>2. /\ w \in Seq(Header) /\ Len(w) = Len(s) + Len(v)
      /\ \A q \in 1 .. Len(s) : w[q] = s[q]
      /\ \A q \in 1 .. Len(v) : w[Len(s) + q] = v[q]
  <2>1. v \in Seq(Header) /\ s \in Seq(Header)
    BY <1>1
  <2> HIDE DEF w
  <2>2. w = s \o v
    BY DEF w
  <2> QED BY <2>1, <2>2, ConcatParts
<1>3. /\ t \in Seq(Header) /\ Len(t) = Len(s) + Len(hs)
      /\ \A q \in 1 .. Len(s) : t[q] = s[q]
      /\ \A q \in 1 .. Len(hs) : t[Len(s) + q] = hs[q]
  BY ConcatParts
<1> HIDE DEF w, t
<1>4. /\ DOMAIN w = 1 .. k - 1 /\ DOMAIN t = 1 .. Len(s) + Len(hs)
      /\ t[k] = hs[i] /\ k \in DOMAIN t
  BY <1>1, <1>2, <1>3
<1>5. ASSUME NEW j \in 1 .. k - 1 PROVE w[j] = t[j] /\ j \in DOMAIN t /\ j # k
  <2>1. j \in DOMAIN t /\ j # k
    BY <1>1, <1>4
  <2>2. CASE j <= Len(s)
    BY <1>1, <1>2, <1>3, <2>1, <2>2
  <2>3. CASE j > Len(s)
    <3> DEFINE l == j - Len(s)
    <3>1. l \in 1 .. Len(v) /\ l \in 1 .. i - 1 /\ l \in 1 .. Len(hs) /\ Len(s) + l = j
      BY <1>1, <2>3
    <3> HIDE DEF l
    <3>2. w[j] = v[l] /\ t[j] = hs[l] /\ v[l] = hs[l]
      BY <1>1, <1>2, <1>3, <3>1
    <3> QED BY <2>1, <3>2
  <2> QED BY <1>1, <2>1, <2>2, <2>3
<1>6. SubSeq(hs, 1, i) = Append(v, hs[i]) /\ hs[i] \in Header
  BY Grows DEF v
<1>7. s \o Append(v, hs[i]) = Append(w, hs[i])
  BY <1>1, <1>6 DEF w
<1>8. Free(w, hs[i].name)
  <2> SUFFICES ASSUME NEW j \in DOMAIN w PROVE ~Same(w[j].name, hs[i].name)
    BY DEF Free
  <2>1. w[j] = t[j] /\ j \in DOMAIN t /\ j # k
    BY <1>5, <1>4
  <2> QED BY <1>4, <2>1 DEF Distinct, t
<1> QED BY <1>6, <1>7, <1>8 DEF v, w

LEMMA AllTransferredBehind ==
  ASSUME NEW c, Sound(c), NEW hs \in Seq(Header), \A i \in 1 .. Len(hs) : Copyable(hs[i]),
         \A i \in 1 .. Len(hs) : \/ Free(c.headers \o SubSeq(hs, 1, i - 1), hs[i].name)
                                \/ (~c.uniq /\ hs[i].array = <<>>)
  PROVE  LET r == AllTransferred(c, hs)
         IN r.ok = TRUE /\ Sound(r.ev) /\ r.ev.headers = c.headers \o hs /\ r.ev.id = c.id
<1> DEFINE n == Len(hs)
           s == c.headers
           T == OnTheWay(c)
<1>1. n \in Nat /\ s \in Seq(Header)
  BY EventFacts DEF Sound
<1>2. Done(c) \in T
  BY FailedOnTheWay
<1>3. \A i \in 1 .. n : \A x \in T : Transferred(x, hs[i]) \in T
  <2> TAKE i \in 1 .. n
  <2> TAKE x \in T
  <2> DEFINE h == hs[i]
             r == Transferred(x, h)
  <2>1. Sound(x.ev) /\ x.ok \in BOOLEAN /\ h \in Header /\ Shape(x)
    BY DEF OnTheWay, Follows, Shape
  <2> HIDE DEF h
  <2>2. Follows(x.ev, r.ev) /\ r.ok \in BOOLEAN
    BY <2>1, TransferredFacts
  <2>3. Shape(r)
    BY <2>1, ShapeFacts DEF Transferred
  <2> HIDE DEF r
  <2>4. r \in OnTheWay(x.ev)
    BY <2>2, <2>3, OnTheWayFacts
  <2>5. r \in OnTheWay(c)
    BY <2>4, OnTheWayGoesOn
  <2> QED BY <2>5 DEF h, r
<1> HIDE DEF T
<1>4. PICK d : Transfers(d, c, hs, T)
  BY <1>1, <1>2, <1>3, AllTransferredBy
<1> DEFINE u(i) == SubSeq(hs, 1, i)
           Fine(i) == /\ d[i] = Done(d[i].ev) /\ Sound(d[i].ev)
                      /\ d[i].ev.headers = s \o u(i) /\ d[i].ev.id = c.id
                      /\ d[i].ev.uniq = c.uniq
           G == {i \in 0 .. n : Fine(i)}
<1>5. 0 \in G
  <2>1. d[0] = Done(c)
    BY <1>4 DEF Transfers
  <2>2. Done(c).ev = c
    BY DEF Done
  <2>3. u(0) = <<>> /\ s \o <<>> = s
    BY <1>1
  <2>4. 0 \in 0 .. n
    BY <1>1
  <2> QED BY <2>1, <2>2, <2>3, <2>4
<1>6. ASSUME NEW i \in 1 .. n, i - 1 \in G PROVE i \in G
  <2> DEFINE e == d[i - 1].ev
             h == hs[i]
  <2>1. d[i - 1] = Done(e) /\ Sound(e) /\ e.headers = s \o u(i - 1) /\ e.id = c.id
        /\ e.uniq = c.uniq
    BY <1>6
  <2>2. d[i] = Transferred(d[i - 1], h)
    BY <1>4 DEF Transfers
  <2>3. Copyable(h) /\ i \in 0 .. n
    BY <1>1
  <2>4. /\ Free(s \o u(i - 1), h.name) \/ (~c.uniq /\ h.array = <<>>)
        /\ s \o u(i) = Append(s \o u(i - 1), h)
    <3>1. s \o u(i) = Append(s \o u(i - 1), h)
      <4> DEFINE w == u(i)
                 v == u(i - 1)
      <4>1. w = Append(v, h) /\ v \in Seq(Header) /\ h \in Header /\ s \in Seq(Header)
        BY <1>1, Grows
      <4> HIDE DEF h, v, w, s
      <4>2. s \o Append(v, h) = Append(s \o v, h)
        BY <1>1, <4>1, AppendedBehind
      <4>3. s \o w = Append(s \o v, h)
        BY <4>1, <4>2
      <4> QED BY <4>3 DEF v, w
    <3> QED BY <3>1
  <2> HIDE DEF e, h, u
  <2>5. Transferred(Done(e), h) = Done(Appended(e, h))
    BY <2>1, <2>3, <2>4, TransferredCopy
  <2> DEFINE f == Appended(e, h)
  <2>6. Sound(f) /\ f.headers = s \o u(i) /\ f.id = c.id /\ f.uniq = c.uniq
    <3>1. h \in Header /\ Solid(h)
      BY <2>3, CopyableFacts
    <3>2. Sound(f) /\ f.headers = Append(e.headers, h) /\ f.id = e.id /\ f.uniq = e.uniq
      BY <2>1, <3>1, AppendedFacts
    <3> QED BY <2>1, <2>4, <3>2
  <2>7. d[i] = Done(f) /\ Done(f).ev = f
    BY <2>1, <2>2, <2>5 DEF Done
  <2> HIDE DEF f
  <2>8. Fine(i)
    BY <2>6, <2>7
  <2> QED BY <2>3, <2>8
<1>7. G = 0 .. n
  <2>1. G \in SUBSET (0 .. n)
    OBVIOUS
  <2> HIDE DEF G
  <2> QED BY <1>1, <1>5, <1>6, <2>1, Inductive
<1>8. Fine(n)
  <2>1. n \in 0 .. n
    BY <1>1
  <2> QED BY <1>7, <2>1
<1>9. AllTransferred(c, hs) = d[n] /\ u(n) = hs
  BY <1>1, <1>4 DEF Transfers
<1>10. d[n].ok = TRUE
  BY <1>8 DEF Done
<1> QED BY <1>8, <1>9, <1>10

LEMMA AllTransferredCopies ==
  ASSUME NEW c, Sound(c), NEW hs \in Seq(Header), \A i \in 1 .. Len(hs) : Copyable(hs[i]),
         Distinct(c.headers \o hs)
  PROVE  LET r == AllTransferred(c, hs)
         IN r.ok = TRUE /\ Sound(r.ev) /\ r.ev.headers = c.headers \o hs /\ r.ev.id = c.id
<1>1. c.headers \in Seq(Header)
  BY EventFacts DEF Sound
<1>2. \A i \in 1 .. Len(hs) : \/ Free(c.headers \o SubSeq(hs, 1, i - 1), hs[i].name)
                             \/ (~c.uniq /\ hs[i].array = <<>>)
  <2> TAKE i \in 1 .. Len(hs)
  <2>1. Free(c.headers \o SubSeq(hs, 1, i - 1), hs[i].name)
    BY <1>1, FreeBehind
  <2> QED BY <2>1
<1> QED BY <1>2, AllTransferredBehind

-----------------------------------------------------------------------------
(* Duplicates.                                                             *)

(* Two events that have the same headers show the same.                    *)
LEMMA ShowsSame ==
  ASSUME NEW e, NEW f, e.headers = f.headers, e.id = f.id, e.body = f.body
  PROVE  Shows(e) = Shows(f)
BY Zenon DEF Shows

LEMMA NewEventParts ==
  ASSUME NEW id \in EventType
  PROVE  LET e == NewEvent(id)
         IN /\ Sound(e) /\ e.headers = <<>> /\ e.id = id /\ e.body = NULL
            /\ e.subclass = NULL
BY NewEventFacts DEF NewEvent, Fresh

(* The new event that a duplicate begins with.                             *)
LEMMA CloneOfSubclass ==
  ASSUME NEW subclass \in Text, subclass # <<>>, ~Has(subclass, ARRAY)
  PROVE  LET c == Created("CLONE", subclass)
         IN Sound(c) /\ c.headers = <<Scalar("Event-Subclass", subclass)>>
<1> DEFINE o == NewEvent("CLONE")
           e == [o EXCEPT !.subclass = subclass]
           name == "Event-Subclass"
           h == Scalar(name, subclass)
           c == Created("CLONE", subclass)
<1>1. Sound(o) /\ o.headers = <<>>
  BY CloneIsEventType, NewEventParts
<1>2. c = OfSubclass(o, subclass)
  BY DEF Created
<1>3. subclass # NULL
  BY NullIsNoText
<1> HIDE DEF o
<1>4. e \in Event /\ e.headers = <<>> /\ e.last = o.last
  BY <1>1 DEF Sound, Event
<1>5. c = Added(e, "BOTTOM", name, subclass, "none").ev
  BY <1>2, <1>3 DEF OfSubclass
<1>6. name \in String /\ name # "_body"
  BY EventAssumption
<1>7. h \in Header /\ Solid(h)
  <2> HIDE DEF name
  <2> QED BY <1>6, ScalarFacts
<1> HIDE DEF e, name, h, c
<1>8. Sound(e)
  BY <1>1, <1>4 DEF Sound
<1>9. Free(e.headers, name)
  BY <1>4 DEF Free
<1>10. Added(e, "BOTTOM", name, subclass, "none") = Done(Appended(e, h))
  BY <1>6, <1>8, <1>9, ScalarAdded DEF h
<1>11. c = Appended(e, h)
  BY <1>5, <1>10 DEF Done
<1>12. Sound(c) /\ c.headers = Append(e.headers, h)
  BY <1>7, <1>8, <1>11, AppendedFacts
<1>13. Append(<<>>, h) = <<h>>
  OBVIOUS
<1>14. Sound(c) /\ c.headers = <<h>>
  BY <1>4, <1>12, <1>13
<1> QED BY <1>14 DEF c, h, name

LEMMA FinishedFacts ==
  ASSUME NEW r, r.ok = TRUE, Sound(r.ev), NEW body
  PROVE  LET d == Finished(r, body)
         IN d.ok = TRUE /\ d.ev.headers = r.ev.headers /\ d.ev.id = r.ev.id /\ d.ev.body = body
BY DEF Finished, Done, Sound, Event

LEMMA DuplicateShows ==
  ASSUME NEW e, Sound(e), Regular(e), SaysItsSubclass(e)
  PROVE  Duplicate(e).ok /\ Shows(Duplicate(e).ev) = ShownDup(e)
<1> DEFINE s == e.headers
           c == Created("CLONE", e.subclass)
           f == [c EXCEPT !.id = e.id, !.uniq = e.uniq]
           hs == CopiedHeaders(e)
           r == AllTransferred(f, hs)
           name == "Event-Subclass"
           A == {h \in Header : h.name = name}
           B == {h \in Header : h.name # name}
           shown == IF e.subclass = NULL THEN s ELSE Only(s, A) \o Only(s, B)
<1>1. /\ s \in Seq(Header) /\ DOMAIN s = 1 .. Len(s) /\ Len(s) \in Nat /\ e.subclass \in Text \cup {NULL}
      /\ e.id \in EventType /\ e.uniq \in BOOLEAN
  BY EventFacts DEF Sound
<1>2. Distinct(s) /\ \A i \in DOMAIN s : Copyable(s[i])
  BY RegularFacts
<1>3. ShownDup(e) = Shows([e EXCEPT !.headers = shown])
  BY DEF ShownDup
<1>4. Duplicate(e) = Finished(r, e.body)
  BY DEF Duplicate
<1>5. /\ Sound(c) /\ hs \in Seq(Header) /\ (\A i \in 1 .. Len(hs) : Copyable(hs[i]))
      /\ Distinct(c.headers \o hs) /\ c.headers \o hs = shown
  <2>1. CASE e.subclass = NULL
    <3>1. hs = Only(s, Header)
      <4>1. {h \in Header : e.subclass = NULL \/ h.name # "Event-Subclass"} = Header
        BY <2>1
      <4> QED BY <4>1 DEF CopiedHeaders
    <3>2. hs = s
      <4>1. \A i \in 1 .. Len(s) : s[i] \in Header
        BY <1>1
      <4> HIDE DEF s
      <4> QED BY <1>1, <3>1, <4>1, OnlyAll
    <3>3. c = NewEvent("CLONE")
      BY <2>1 DEF Created, OfSubclass
    <3>4. Sound(c) /\ c.headers = <<>>
      BY <3>3, CloneIsEventType, NewEventParts
    <3>5. <<>> \o s = s
      BY <1>1
    <3> QED BY <1>1, <1>2, <2>1, <3>2, <3>4, <3>5
  <2>2. CASE e.subclass # NULL
    <3> DEFINE k == Find(e, name)
               v == e.subclass
               g == Scalar(name, v)
               rest == Only(s, B)
    <3>1. k # 0 /\ s[k] = g
      BY <2>2 DEF SaysItsSubclass, Says, Scalar
    <3>2. k \in DOMAIN s
      BY <3>1, FindFacts
    <3>3. v \in Text /\ v # <<>> /\ ~Has(v, ARRAY)
      <4>1. Copyable(g)
        BY <1>2, <3>1, <3>2
      <4>2. g.array = <<>> /\ g.value = v
        BY DEF Scalar
      <4> HIDE DEF g, v
      <4> QED BY <4>1, <4>2, CopyableFacts
    <3>4. Sound(c) /\ c.headers = <<g>>
      <4> HIDE DEF v
      <4> QED BY <3>3, CloneOfSubclass DEF v
    <3>5. g \in Header /\ g.name = name
      <4>1. g \in Header
        BY <1>1, <3>1, <3>2
      <4> QED BY <4>1 DEF Scalar
    <3>6. hs = rest
      <4>1. {h \in Header : e.subclass = NULL \/ h.name # "Event-Subclass"} = B
        BY <2>2
      <4> QED BY <4>1 DEF CopiedHeaders
    <3>7. \A i \in 1 .. Len(s) : i # k => s[i] \notin A
      <4> TAKE i \in 1 .. Len(s)
      <4>1. s[i] \in A => Same(s[i].name, s[k].name)
        BY <3>1, <3>5, SameFacts
      <4> QED BY <1>1, <1>2, <3>2, <4>1 DEF Distinct
    <3>8. Only(s, A) = <<g>>
      <4>1. s[k] \in A /\ k \in 1 .. Len(s)
        BY <1>1, <3>1, <3>2, <3>5
      <4> HIDE DEF A, s, k
      <4>2. Only(s, A) = <<s[k]>>
        BY <1>1, <3>7, <4>1, OnlyUnique
      <4> QED BY <3>1, <4>2
    <3> HIDE DEF A, B, s, k, g, hs, c
    <3>9. rest \in Seq(Header) /\ Distinct(rest)
      BY <1>1, <1>2, OnlyType, OnlyDistinct
    <3>10. \A i \in 1 .. Len(rest) : rest[i] \in B /\ \E j \in 1 .. Len(s) : rest[i] = s[j]
      BY <1>1, OnlyFrom
    <3> HIDE DEF rest
    <3>11. \A i \in 1 .. Len(rest) : Copyable(rest[i])
      BY <1>1, <1>2, <3>10
    <3>12. \A i \in 1 .. Len(rest) : ~Same(rest[i].name, g.name)
      <4> TAKE i \in 1 .. Len(rest)
      <4>1. PICK j \in 1 .. Len(s) : rest[i] = s[j]
        BY <3>10
      <4>2. rest[i].name # name
        BY <3>10 DEF B
      <4>3. j # k
        BY <3>1, <3>5, <4>1, <4>2
      <4> QED BY <1>1, <1>2, <3>1, <3>2, <4>1, <4>3 DEF Distinct
    <3>13. Distinct(<<g>> \o rest)
      <4> DEFINE t == <<g>> \o rest
                 m == Len(rest)
      <4>1. /\ m \in Nat /\ DOMAIN t = 1 .. m + 1 /\ t[1] = g /\ DOMAIN rest = 1 .. m
            /\ \A i \in 1 .. m : t[i + 1] = rest[i]
        BY <3>5, <3>9
      <4> HIDE DEF t, m
      <4>2. ASSUME NEW i \in DOMAIN t, NEW j \in DOMAIN t, Same(t[i].name, t[j].name)
            PROVE  i = j
        <5>1. CASE i = 1 /\ j = 1
          BY <5>1
        <5>2. CASE i = 1 /\ j # 1
          <6>1. j - 1 \in 1 .. m /\ t[j] = rest[j - 1]
            <7>1. j - 1 \in 1 .. m /\ (j - 1) + 1 = j
              BY <4>1, <5>2
            <7> QED BY <4>1, <7>1
          <6> QED BY <3>12, <4>1, <4>2, <5>2, <6>1, SameFacts DEF m
        <5>3. CASE i # 1 /\ j = 1
          <6>1. i - 1 \in 1 .. m /\ t[i] = rest[i - 1]
            <7>1. i - 1 \in 1 .. m /\ (i - 1) + 1 = i
              BY <4>1, <5>3
            <7> QED BY <4>1, <7>1
          <6> QED BY <3>12, <4>1, <4>2, <5>3, <6>1 DEF m
        <5>4. CASE i # 1 /\ j # 1
          <6>1. /\ i - 1 \in 1 .. m /\ t[i] = rest[i - 1]
                /\ j - 1 \in 1 .. m /\ t[j] = rest[j - 1]
            <7>1. /\ i - 1 \in 1 .. m /\ (i - 1) + 1 = i
                  /\ j - 1 \in 1 .. m /\ (j - 1) + 1 = j
              BY <4>1, <5>4
            <7> QED BY <4>1, <7>1
          <6>2. i - 1 = j - 1
            BY <3>9, <4>1, <4>2, <6>1 DEF Distinct
          <6> QED BY <4>1, <6>2
        <5> QED BY <5>1, <5>2, <5>3, <5>4
      <4> QED BY <4>2 DEF Distinct, t
    <3>14. shown = <<g>> \o rest
      BY <2>2, <3>8 DEF rest
    <3> QED BY <3>4, <3>6, <3>9, <3>11, <3>13, <3>14
  <2> QED BY <2>1, <2>2
<1> HIDE DEF c, hs, shown
<1>6. f \in Event /\ f.headers = c.headers /\ f.last = c.last /\ f.id = e.id
  BY <1>1, <1>5 DEF Sound, Event
<1> HIDE DEF f
<1>7. Sound(f)
  BY <1>5, <1>6 DEF Sound
<1>8. r.ok = TRUE /\ Sound(r.ev) /\ r.ev.headers = shown /\ r.ev.id = e.id
  BY <1>5, <1>6, <1>7, AllTransferredCopies
<1> HIDE DEF r
<1> DEFINE d == Duplicate(e)
           g == [e EXCEPT !.headers = shown]
<1>9. /\ d.ok = TRUE /\ d.ev.headers = shown /\ d.ev.id = e.id /\ d.ev.body = e.body
  <2> DEFINE b == e.body
             q == Finished(r, b)
  <2>1. q.ok = TRUE /\ q.ev.headers = r.ev.headers /\ q.ev.id = r.ev.id /\ q.ev.body = b
    BY <1>8, FinishedFacts
  <2>2. d = q
    BY <1>4
  <2> HIDE DEF d, q
  <2> QED BY <1>8, <2>1, <2>2
<1>10. g.headers = shown /\ g.id = e.id /\ g.body = e.body
  BY DEF Sound, Event
<1> HIDE DEF d, g
<1>11. Shows(d.ev) = Shows(g)
  BY <1>9, <1>10, ShowsSame
<1> QED BY <1>3, <1>9, <1>11 DEF d, g

-----------------------------------------------------------------------------
(* The serialized forms: what a reader makes of each header.               *)

(* A header is read: it joins the list, and the event takes its id from    *)
(* the header that names it.                                               *)
Given(e, name, id) == IF Same(name, "Event-Name") THEN [e EXCEPT !.id = id] ELSE e

Reread(x, y, h, id) ==
  /\ y.ok => x.ok
  /\ y.ok /\ Sound(x.ev) /\ Free(x.ev.headers, h.name)
       => y.ev = Appended(Given(x.ev, h.name, id), h)

LEMMA GivenFacts ==
  ASSUME NEW e, Sound(e), NEW name, NEW id \in EventType
  PROVE  LET f == Given(e, name, id)
         IN /\ Sound(f) /\ f.headers = e.headers /\ f.body = e.body
            /\ f.id = IF Same(name, "Event-Name") THEN id ELSE e.id
<1> DEFINE g == [e EXCEPT !.id = id]
<1>1. g \in Event /\ g.headers = e.headers /\ g.body = e.body /\ g.id = id /\ g.last = e.last
  BY DEF Sound, Event
<1> HIDE DEF g
<1>2. Sound(g)
  BY <1>1 DEF Sound
<1>3. Given(e, name, id) = IF Same(name, "Event-Name") THEN g ELSE e
  BY DEF Given, g
<1> QED BY <1>1, <1>2, <1>3

LEMMA IdentifiedCopy ==
  ASSUME NEW e, Sound(e), NEW name, Free(e.headers, name), NEW text, NEW id \in EventType,
         Same(name, "Event-Name") => text = <<id>>
  PROVE  LET r == Identified(e, name, text)
         IN r.ok => r.ev = Given(e, name, id)
<1>1. CASE ~Same(name, "Event-Name")
  <2>1. Identified(e, name, text) = Done(e)
    BY <1>1 DEF Identified
  <2> QED BY <1>1, <2>1 DEF Done, Given
<1>2. CASE Same(name, "Event-Name")
  <2> DEFINE own == "Event-Name"
             g == [e EXCEPT !.id = id]
  <2>1. Free(e.headers, own)
    BY <1>2, SameFacts DEF Free
  <2>2. Identified(e, name, text) = Renamed(Deleted(e, own, <<>>), NamedEvent(text))
    BY <1>2 DEF Identified
  <2>3. Given(e, name, id) = g
    BY <1>2 DEF Given
  <2> HIDE DEF own
  <2>4. Deleted(e, own, <<>>) = e
    BY <2>1, DeletedFree
  <2>5. NamedEvent(text) = id
    <3>1. text = <<id>> /\ text[1] = id /\ Len(text) = 1
      BY <1>2
    <3>2. \A k \in EventType : Names(text, k) <=> k = id
      BY <3>1, EventAssumption DEF Names, Same
    <3>3. NamedEvent(text) = CHOOSE k \in EventType : Names(text, k)
      BY <3>2 DEF NamedEvent
    <3> QED BY <3>2, <3>3
  <2>6. Identified(e, name, text) = Renamed(e, id)
    BY <2>2, <2>4, <2>5
  <2> HIDE DEF g
  <2>7. Renamed(e, id) = IF id = NULL THEN Failed(e) ELSE Done(g)
    BY DEF Renamed, g
  <2>8. Failed(e).ok = FALSE /\ Done(g).ev = g
    BY DEF Failed, Done
  <2> QED BY <2>3, <2>6, <2>7, <2>8
<1> QED BY <1>1, <1>2

LEMMA NotedCopy ==
  ASSUME NEW e, Sound(e), NEW name \in String, name # "_body", Free(e.headers, name),
         NEW v \in Text, v # <<>>, ~Has(v, ARRAY), NEW id \in EventType,
         Same(name, "Event-Name") => v = <<id>>
  PROVE  LET y == Noted(Identified(e, name, v), name, v)
         IN y.ok => y.ev = Appended(Given(e, name, id), Scalar(name, v))
<1> DEFINE r == Identified(e, name, v)
           f == Given(e, name, id)
           y == Noted(r, name, v)
<1>1. r.ok => r.ev = f
  BY IdentifiedCopy
<1>2. Sound(f) /\ f.headers = e.headers
  BY GivenFacts
<1> HIDE DEF r, f
<1>3. CASE ~r.ok
  <2>1. y = r
    BY <1>3 DEF Noted
  <2>2. ~y.ok
    BY <1>3, <2>1
  <2> QED BY <2>2 DEF y, r
<1>4. CASE r.ok
  <2>1. y = Added(f, "BOTTOM", name, v, "none")
    BY <1>1, <1>4 DEF Noted
  <2>2. Free(f.headers, name)
    BY <1>2
  <2>3. y = Done(Appended(f, Scalar(name, v)))
    BY <1>2, <2>1, <2>2, ScalarAdded
  <2> QED BY <2>3 DEF Done, f, r
<1> QED BY <1>3, <1>4

(* The list that the headers of an event make when all are read.           *)
LEMMA FreeAppend ==
  ASSUME NEW v \in Seq(Header), NEW h \in Header, NEW name
  PROVE  Free(Append(v, h), name) <=> Free(v, name) /\ ~Same(h.name, name)
<1> DEFINE w == Append(v, h)
           m == Len(v)
<1>1. /\ m \in Nat /\ DOMAIN v = 1 .. m /\ DOMAIN w = 1 .. m + 1 /\ w[m + 1] = h
      /\ \A i \in 1 .. m : w[i] = v[i]
  OBVIOUS
<1> HIDE DEF w, m
<1>2. \A i : i \in DOMAIN w <=> i \in DOMAIN v \/ i = m + 1
  BY <1>1
<1>3. Free(w, name) <=> Free(v, name) /\ ~Same(h.name, name)
  BY <1>1, <1>2, Zenon DEF Free
<1> QED BY <1>3 DEF w

LEMMA ReadBack ==
  ASSUME NEW hs \in Seq(Header), Distinct(hs), \A i \in 1 .. Len(hs) : Solid(hs[i]),
         NEW id \in EventType, NEW d, d[0] = Done(NewEvent("CLONE")),
         \A i \in 1 .. Len(hs) : Reread(d[i - 1], d[i], hs[i], id), d[Len(hs)].ok
  PROVE  LET e == d[Len(hs)].ev
         IN /\ Sound(e) /\ e.headers = hs /\ e.body = NULL
            /\ e.id = IF Free(hs, "Event-Name") THEN "CLONE" ELSE id
<1> DEFINE n == Len(hs)
           u(i) == SubSeq(hs, 1, i)
           own == "Event-Name"
           clone == "CLONE"
           Fine(i) == /\ Sound(d[i].ev) /\ d[i].ev.headers = u(i) /\ d[i].ev.body = NULL
                      /\ d[i].ev.id = IF Free(u(i), own) THEN clone ELSE id
           G == {i \in 0 .. n : d[i].ok => Fine(i)}
<1>0. n \in Nat
  OBVIOUS
<1>1. 0 \in G
  <2> DEFINE c == NewEvent(clone)
  <2>1. Sound(c) /\ c.headers = <<>> /\ c.id = clone /\ c.body = NULL
    BY CloneIsEventType, NewEventParts
  <2>2. d[0].ev = c
    BY DEF Done
  <2>3. u(0) = <<>> /\ Free(<<>>, own)
    BY DEF Free
  <2>4. 0 \in 0 .. n
    BY <1>0
  <2> HIDE DEF c
  <2> QED BY <2>1, <2>2, <2>3, <2>4
<1>2. ASSUME NEW i \in 1 .. n, i - 1 \in G PROVE i \in G
  <2> DEFINE e == d[i - 1].ev
             h == hs[i]
             v == u(i - 1)
             w == u(i)
  <2>1. i \in 0 .. n /\ h \in Header /\ Solid(h) /\ v \in Seq(Header)
    BY <1>0
  <2>2. Free(v, h.name) /\ w = Append(v, h)
    <3> DEFINE o == <<>>
    <3>1. o \in Seq(Header) /\ o \o hs = hs /\ o \o v = v /\ o \o w = w
      BY <2>1
    <3>2. o \o SubSeq(hs, 1, i - 1) = v /\ o \o SubSeq(hs, 1, i) = w
      BY <3>1
    <3> HIDE DEF o, v, w
    <3>3. Distinct(o \o hs)
      BY <3>1
    <3> QED BY <3>1, <3>2, <3>3, FreeBehind
  <2>3. ASSUME d[i].ok PROVE Fine(i)
    <3>1. Reread(d[i - 1], d[i], h, id)
      BY <1>0
    <3>2. d[i - 1].ok
      BY <2>3, <3>1 DEF Reread
    <3>3. /\ Sound(e) /\ e.headers = v /\ e.body = NULL
          /\ e.id = IF Free(v, own) THEN clone ELSE id
      BY <1>2, <3>2
    <3> DEFINE f == Given(e, h.name, id)
               g == Appended(f, h)
    <3> HIDE DEF e, h, v, w
    <3>4. d[i].ev = g
      BY <2>2, <2>3, <3>1, <3>3 DEF Reread, e
    <3>5. /\ Sound(f) /\ f.headers = v /\ f.body = NULL
          /\ f.id = IF Same(h.name, own) THEN id ELSE e.id
      BY <3>3, GivenFacts
    <3> HIDE DEF f
    <3>6. Sound(g) /\ g.headers = Append(f.headers, h) /\ g.id = f.id /\ g.body = f.body
      BY <2>1, <3>5, AppendedFacts
    <3> HIDE DEF g
    <3>7. Free(w, own) <=> Free(v, own) /\ ~Same(h.name, own)
      BY <2>1, <2>2, FreeAppend
    <3>8. g.id = IF Free(w, own) THEN clone ELSE id
      BY <3>3, <3>5, <3>6, <3>7
    <3> QED BY <2>2, <3>4, <3>5, <3>6, <3>8 DEF w
  <2> HIDE DEF Fine
  <2> QED BY <2>1, <2>3
<1>3. G = 0 .. n
  <2>1. G \in SUBSET (0 .. n)
    OBVIOUS
  <2> HIDE DEF G
  <2> QED BY <1>0, <1>1, <1>2, <2>1, Inductive
<1>4. n \in G /\ u(n) = hs
  BY <1>0, <1>3
<1> QED BY <1>4

(* Lists of headers that can be read back: the one that names the event    *)
(* says its id, and is there unless the id has no name.                    *)
Readable(hs, id) ==
  /\ hs \in Seq(Header) /\ Distinct(hs) /\ id \in EventType
  /\ \A i \in DOMAIN hs : Copyable(hs[i])
  /\ \A i \in DOMAIN hs :
       Same(hs[i].name, "Event-Name") => hs[i] = Scalar(hs[i].name, <<id>>)
  /\ id # "CLONE" => ~Free(hs, "Event-Name")

LEMMA RegularReadable ==
  ASSUME NEW e, Sound(e), Regular(e), SaysItsName(e)
  PROVE  Readable(e.headers, e.id)
<1> DEFINE hs == e.headers
           id == e.id
           own == "Event-Name"
           k == Find(e, own)
<1>1. hs \in Seq(Header) /\ id \in EventType
  BY EventFacts DEF Sound
<1>2. Distinct(hs) /\ \A i \in DOMAIN hs : Copyable(hs[i])
  BY RegularFacts
<1>3. k # 0 <=> ~Free(hs, own)
  BY FreeFind
<1>4. k # 0 => k \in DOMAIN hs /\ Same(hs[k].name, own)
  BY FindFacts
<1>5. CASE id = "CLONE"
  <2>1. k = 0
    BY <1>5 DEF SaysItsName, Says
  <2>2. Free(hs, own)
    BY <1>3, <2>1
  <2>3. \A i \in DOMAIN hs : ~Same(hs[i].name, own)
    BY <2>2 DEF Free
  <2> QED BY <1>1, <1>2, <1>5, <2>3 DEF Readable
<1>6. CASE id # "CLONE"
  <2> DEFINE v == <<id>>
  <2>1. v # NULL
    <3>1. v \in Text
      BY <1>1, EventAssumption, TextFacts
    <3> QED BY <3>1, NullIsNoText
  <2>2. k # 0 /\ hs[k] = Scalar(own, v)
    BY <1>6, <2>1 DEF SaysItsName, Says, Scalar
  <2>3. hs[k].name = own
    BY <2>2 DEF Scalar
  <2>4. ASSUME NEW i \in DOMAIN hs, Same(hs[i].name, own)
        PROVE  hs[i] = Scalar(hs[i].name, v)
    <3>1. Same(hs[i].name, hs[k].name)
      BY <2>3, <2>4
    <3>2. i = k
      BY <1>2, <1>4, <2>2, <3>1 DEF Distinct
    <3> QED BY <2>2, <2>3, <3>2
  <2>5. ~Free(hs, own)
    BY <1>3, <2>2
  <2> QED BY <1>1, <1>2, <2>4, <2>5 DEF Readable
<1> QED BY <1>5, <1>6

(* The header that announces a body.                                       *)
LengthHeader(body) == Scalar("Content-Length", LengthOf(body))

LEMMA LengthHeaderFacts ==
  ASSUME NEW body
  PROVE  LET h == LengthHeader(body)
         IN /\ Copyable(h) /\ h.name = "Content-Length" /\ h.array = <<>>
            /\ h.value = LengthOf(body) /\ LengthOf(body) # <<>>
            /\ ~Same(h.name, "Event-Name")
<1> DEFINE name == "Content-Length"
           v == LengthOf(body)
           h == LengthHeader(body)
<1>1. name \in String /\ name # "_body"
  BY EventAssumption
<1>2. v \in Text
  BY LengthIsText
<1>3. v = <<"length">> /\ Len(v) = 1 /\ v[1] = "length"
  BY DEF LengthOf
<1>4. v # <<>> /\ ~Has(v, ARRAY)
  BY <1>3 DEF Has, ARRAY
<1>5. ~Same(name, "Event-Name")
  BY EventAssumption DEF Same
<1>6. h = Scalar(name, v)
  BY DEF LengthHeader
<1>7. h.name = name /\ h.value = v /\ h.array = <<>>
  BY <1>6 DEF Scalar
<1> HIDE DEF name, v, h
<1>8. h \in Header /\ InStep(h)
  BY <1>1, <1>2, <1>6, ScalarFacts
<1>9. Items(h) = <<v>>
  BY <1>7 DEF Items
<1>10. Items(h)[1] = v /\ v # NULL
  BY <1>2, <1>9, NullIsNoText
<1>11. Copyable(h)
  BY <1>1, <1>4, <1>7, <1>8, <1>10 DEF Copyable
<1> QED BY <1>4, <1>5, <1>7, <1>11 DEF h, name, v

LEMMA AnnouncedReadable ==
  ASSUME NEW hs, NEW id, Readable(hs, id), Free(hs, "Content-Length"), NEW body
  PROVE  Readable(Append(hs, LengthHeader(body)), id)
<1> DEFINE h == LengthHeader(body)
           w == Append(hs, h)
           m == Len(hs)
           own == "Event-Name"
<1>1. Copyable(h) /\ h.name = "Content-Length" /\ ~Same(h.name, own)
  BY LengthHeaderFacts
<1>2. h \in Header
  BY <1>1 DEF Copyable
<1> HIDE DEF h
<1>3. /\ m \in Nat /\ DOMAIN hs = 1 .. m /\ DOMAIN w = 1 .. m + 1 /\ w[m + 1] = h
      /\ w \in Seq(Header) /\ \A i \in 1 .. m : w[i] = hs[i]
  BY <1>2 DEF Readable
<1>4. Free(w, own) <=> Free(hs, own) /\ ~Same(h.name, own)
  BY <1>2, FreeAppend DEF Readable
<1>5. \A i \in DOMAIN hs : ~Same(hs[i].name, h.name)
  BY <1>1 DEF Free
<1> HIDE DEF w, m, own
<1>6. \A i \in DOMAIN w : i \in DOMAIN hs \/ i = m + 1
  BY <1>3
<1>7. ASSUME NEW i \in DOMAIN w, NEW j \in DOMAIN w, Same(w[i].name, w[j].name)
      PROVE  i = j
  <2>1. CASE i \in DOMAIN hs /\ j \in DOMAIN hs
    BY <1>3, <1>7, <2>1 DEF Readable, Distinct
  <2>2. CASE i \in DOMAIN hs /\ j = m + 1
    BY <1>3, <1>5, <1>7, <2>2
  <2>3. CASE i = m + 1 /\ j \in DOMAIN hs
    BY <1>3, <1>5, <1>7, <2>3, SameFacts
  <2> QED BY <1>6, <2>1, <2>2, <2>3
<1>8. Distinct(w)
  BY <1>7 DEF Distinct
<1>9. \A i \in DOMAIN w : Copyable(w[i])
  BY <1>1, <1>3, <1>6 DEF Readable
<1>10. ASSUME NEW i \in DOMAIN w, Same(w[i].name, own)
       PROVE  w[i] = Scalar(w[i].name, <<id>>)
  <2>1. i \in DOMAIN hs
    BY <1>1, <1>3, <1>6, <1>10
  <2>2. w[i] = hs[i]
    BY <1>3, <2>1
  <2> QED BY <1>10, <2>1, <2>2 DEF Readable, own
<1> QED BY <1>1, <1>3, <1>4, <1>8, <1>9, <1>10 DEF Readable, w, h, own

(* What the end of reading a list of headers says.                         *)
LEMMA ReadBackId ==
  ASSUME NEW hs, NEW id, Readable(hs, id)
  PROVE  (IF Free(hs, "Event-Name") THEN "CLONE" ELSE id) = id
BY DEF Readable

-----------------------------------------------------------------------------
(* The JSON form.                                                          *)
MemberOf(h) == [name |-> h.name, items |-> Items(h), array |-> h.array # <<>>]

LEMMA MemberOfFacts ==
  ASSUME NEW h, Copyable(h)
  PROVE  MemberOf(h) \in Member /\ Items(h) # <<NULL>>
<1>1. h.name \in String /\ Items(h) \in Seq(Text) /\ Items(h) # <<>>
  <2>1. CASE h.array = <<>>
    <3>1. Items(h) = <<h.value>> /\ h.value \in Text
      BY <2>1, CopyableFacts
    <3>2. <<h.value>> \in Seq(Text) /\ <<h.value>> # <<>>
      BY <3>1
    <3> QED BY <3>1, <3>2, CopyableFacts
  <2>2. CASE h.array # <<>>
    BY <2>2, CopyableFacts DEF Pushable
  <2> QED BY <2>1, <2>2
<1>2. Items(h)[1] # NULL
  BY DEF Copyable
<1>3. Items(h) # <<NULL>>
  BY <1>2
<1> HIDE DEF Items
<1>4. (h.array # <<>>) \in BOOLEAN
  OBVIOUS
<1> QED BY <1>1, <1>3, <1>4 DEF Member, MemberOf

LEMMA MemberNew ==
  ASSUME NEW ms, NEW name, NEW items, NEW array, \A i \in DOMAIN ms : ms[i].name # name
  PROVE  MemberSet(ms, name, items, array)
           = Append(ms, [name |-> name, items |-> items, array |-> array])
BY DEF MemberSet

(* The headers that the object has for an event, and the body behind them. *)
LEMMA JsonMembers ==
  ASSUME NEW e, Sound(e), NEW id, Readable(e.headers, id), Free(e.headers, "Content-Length")
  PROVE  /\ Json(e).ok = TRUE /\ Json(e).members \in Seq(Member)
         /\ LET ms == Json(e).members
                hs == IF e.body = NULL THEN e.headers
                      ELSE Append(e.headers, LengthHeader(e.body))
            IN /\ \A i \in 1 .. Len(hs) : ms[i] = MemberOf(hs[i])
               /\ e.body = NULL => Len(ms) = Len(hs)
               /\ e.body # NULL =>
                    /\ Len(ms) = Len(hs) + 1
                    /\ ms[Len(hs) + 1] = [name |-> "_body", items |-> <<e.body>>, array |-> FALSE]
<1> DEFINE s == e.headers
           n == Len(s)
           mm == [k \in 1 .. n |-> MemberOf(s[k])]
           U == Seq(Member)
           bad == \E i \in DOMAIN e.headers : Items(e.headers[i]) = <<NULL>>
<1>1. /\ s \in Seq(Header) /\ n \in Nat /\ DOMAIN s = 1 .. n /\ Distinct(s)
      /\ \A i \in 1 .. n : Copyable(s[i])
  BY DEF Readable
<1>2. \A i \in 1 .. n : MemberOf(s[i]) \in Member /\ Items(s[i]) # <<NULL>>
  BY <1>1, MemberOfFacts
<1>3. ~bad
  BY <1>1, <1>2
<1>4. mm \in Seq(Member) /\ Len(mm) = n /\ \A i \in 1 .. n : mm[i] = MemberOf(s[i])
  BY <1>1, <1>2
<1> HIDE DEF mm
<1>5. \A i \in 1 .. n : \A x \in U : SetStep(x, e.headers[i]) \in U
  <2> TAKE i \in 1 .. n
  <2> TAKE x \in U
  <2> DEFINE h == e.headers[i]
  <2>1. MemberOf(h) \in Member
    BY <1>2
  <2>2. /\ h.name \in String /\ Items(h) \in Seq(Text) /\ Items(h) # <<>>
        /\ (h.array # <<>>) \in BOOLEAN
    BY <2>1 DEF MemberOf, Member
  <2> HIDE DEF h
  <2>3. MemberSet(x, h.name, Items(h), h.array # <<>>) \in Seq(Member)
    BY <2>2, MemberSetType
  <2> QED BY <2>3 DEF SetStep, h
<1>6. <<>> \in U
  OBVIOUS
<1> HIDE DEF U
<1>7. PICK d : Sets(d, e, U)
  BY <1>1, <1>5, <1>6, JsonBy
<1> DEFINE u(i) == SubSeq(mm, 1, i)
           G == {i \in 0 .. n : d[i] = u(i)}
<1>8. 0 \in G
  <2>1. u(0) = <<>> /\ 0 \in 0 .. n
    BY <1>1
  <2> QED BY <1>7, <2>1 DEF Sets
<1>9. ASSUME NEW i \in 1 .. n, i - 1 \in G PROVE i \in G
  <2> DEFINE h == s[i]
             v == u(i - 1)
  <2>1. d[i] = SetStep(v, h) /\ i \in 0 .. n
    <3>1. d[i] = SetStep(d[i - 1], s[i]) /\ i \in 0 .. n
      BY <1>1, <1>7 DEF Sets
    <3>2. d[i - 1] = u(i - 1)
      BY <1>9
    <3> QED BY <3>1, <3>2
  <2>2. u(i) = Append(v, mm[i]) /\ v \in Seq(Member)
    <3>1. i \in 1 .. Len(mm)
      BY <1>4
    <3> QED BY <1>4, <3>1, Grows
  <2>3. ASSUME NEW j \in DOMAIN v PROVE v[j].name # h.name
    <3>1. j \in 1 .. n /\ v[j] = mm[j] /\ j # i
      BY <1>1, <1>4
    <3>2. v[j].name = s[j].name
      <4>1. MemberOf(s[j]).name = s[j].name
        BY DEF MemberOf
      <4>2. mm[j] = MemberOf(s[j])
        BY <1>4, <3>1
      <4> QED BY <3>1, <4>1, <4>2
    <3>3. ~Same(s[j].name, h.name)
      BY <1>1, <3>1 DEF Distinct
    <3> QED BY <3>2, <3>3, SameFacts
  <2> HIDE DEF v, h
  <2>4. SetStep(v, h) = Append(v, MemberOf(h))
    BY <2>3, MemberNew DEF SetStep, MemberOf
  <2>5. mm[i] = MemberOf(h)
    BY <1>4 DEF h
  <2> QED BY <2>1, <2>2, <2>4, <2>5 DEF v
<1>10. G = 0 .. n
  <2>1. G \in SUBSET (0 .. n)
    OBVIOUS
  <2> HIDE DEF G
  <2> QED BY <1>1, <1>8, <1>9, <2>1, Inductive
<1>11. d[n] = mm
  <2>1. n \in 0 .. n /\ u(n) = mm
    BY <1>1, <1>4
  <2> QED BY <1>10, <2>1
<1>12. Json(e) = [ok |-> TRUE, members |-> BodySet(mm, e.body)]
  BY <1>3, <1>7, <1>11 DEF Sets
<1>13. Json(e).ok = TRUE /\ Json(e).members = BodySet(mm, e.body)
  BY <1>12
<1>14. Json(e).members \in Seq(Member)
  BY <1>13, JsonType
<1>15. CASE e.body = NULL
  <2>1. Json(e).members = mm
    BY <1>13, <1>15 DEF BodySet
  <2> QED BY <1>4, <1>13, <1>14, <1>15, <2>1
<1>16. CASE e.body # NULL
  <2> DEFINE name == "Content-Length"
             b == "_body"
             h == LengthHeader(e.body)
             hs == Append(s, h)
             m == [name |-> b, items |-> <<e.body>>, array |-> FALSE]
             one == Append(mm, MemberOf(h))
             ms == Append(one, m)
  <2>1. Copyable(h) /\ h.name = name /\ h.array = <<>> /\ h.value = LengthOf(e.body)
    BY LengthHeaderFacts
  <2>2. MemberOf(h) = [name |-> name, items |-> <<LengthOf(e.body)>>, array |-> FALSE]
    <3>1. Items(h) = <<LengthOf(e.body)>> /\ (h.array # <<>>) = FALSE
      BY <2>1 DEF Items
    <3> HIDE DEF h
    <3> QED BY <2>1, <3>1 DEF MemberOf
  <2>3. \A i \in DOMAIN mm : mm[i].name # name
    <3> TAKE i \in DOMAIN mm
    <3>1. mm[i].name = s[i].name /\ i \in DOMAIN s
      <4>1. MemberOf(s[i]).name = s[i].name
        BY DEF MemberOf
      <4>2. i \in 1 .. n /\ i \in DOMAIN s
        BY <1>1, <1>4
      <4>3. mm[i] = MemberOf(s[i])
        BY <1>4, <4>2
      <4> QED BY <4>1, <4>2, <4>3
    <3>2. ~Same(s[i].name, name)
      BY <3>1 DEF Free
    <3> QED BY <3>1, <3>2, SameFacts
  <2>4. MemberSet(mm, name, <<LengthOf(e.body)>>, FALSE) = one
    <3> HIDE DEF name, h
    <3> QED BY <2>2, <2>3, MemberNew
  <2>5. /\ one \in Seq(Member) /\ Len(one) = n + 1 /\ one[n + 1] = MemberOf(h)
        /\ \A i \in 1 .. n : one[i] = mm[i]
    <3>1. MemberOf(h) \in Member
      BY <2>1, MemberOfFacts
    <3> HIDE DEF h
    <3> QED BY <1>1, <1>4, <3>1
  <2>6. \A i \in DOMAIN one : one[i].name # b
    <3> TAKE i \in DOMAIN one
    <3>1. i \in 1 .. n \/ i = n + 1
      BY <2>5
    <3>2. CASE i \in 1 .. n
      <4>1. one[i].name = s[i].name /\ Copyable(s[i])
        <5>1. MemberOf(s[i]).name = s[i].name
          BY DEF MemberOf
        <5>2. one[i] = MemberOf(s[i])
          BY <1>4, <2>5, <3>2
        <5> QED BY <1>1, <3>2, <5>1, <5>2
      <4> QED BY <4>1 DEF Copyable
    <3>3. CASE i = n + 1
      <4>1. one[i].name = name
        BY <2>1, <2>5, <3>3 DEF MemberOf
      <4> QED BY <4>1
    <3> QED BY <3>1, <3>2, <3>3
  <2>7. Json(e).members = MemberSet(one, b, <<e.body>>, FALSE)
    BY <1>13, <1>16, <2>4 DEF BodySet
  <2>8. MemberSet(one, b, <<e.body>>, FALSE) = ms
    <3> HIDE DEF b, one
    <3> QED BY <2>6, MemberNew
  <2> HIDE DEF h, m, one
  <2>9. /\ Len(ms) = n + 2 /\ ms[n + 2] = m /\ ms[n + 1] = MemberOf(h)
        /\ \A i \in 1 .. n : ms[i] = MemberOf(s[i])
    <3>1. one \in Seq(Member) /\ Len(one) = n + 1 /\ n \in Nat
      BY <1>1, <2>5
    <3>2. Len(ms) = n + 2 /\ ms[n + 2] = m /\ \A i \in 1 .. n + 1 : ms[i] = one[i]
      <4>1. (n + 1) + 1 = n + 2
        BY <3>1
      <4> HIDE DEF n
      <4> QED BY <3>1, <4>1, AppendEnds
    <3> HIDE DEF ms, n
    <3>3. n + 1 \in 1 .. n + 1 /\ \A i \in 1 .. n : i \in 1 .. n + 1
      BY <3>1
    <3>4. one[n + 1] = MemberOf(h) /\ \A i \in 1 .. n : one[i] = mm[i] /\ mm[i] = MemberOf(s[i])
      BY <1>4, <2>5
    <3> QED BY <3>2, <3>3, <3>4
  <2>10. h \in Header
    BY <2>1 DEF Copyable
  <2>11. Len(hs) = n + 1 /\ hs[n + 1] = h /\ \A i \in 1 .. n : hs[i] = s[i]
    BY <1>1, <2>10
  <2>12. ASSUME NEW i \in 1 .. Len(hs) PROVE ms[i] = MemberOf(hs[i])
    <3>1. i \in 1 .. n \/ i = n + 1
      BY <1>1, <2>11
    <3> QED BY <2>9, <2>11, <3>1
  <2> HIDE DEF ms, hs
  <2>13. Json(e).members = ms
    BY <2>7, <2>8
  <2>14. Len(ms) = Len(hs) + 1 /\ ms[Len(hs) + 1] = m
    BY <1>1, <2>9, <2>11
  <2> QED BY <1>13, <1>14, <1>16, <2>12, <2>13, <2>14 DEF m, hs, h
<1> QED BY <1>15, <1>16

LEMMA FromMemberCopy ==
  ASSUME NEW x, NEW h, Copyable(h), NEW id \in EventType,
         Same(h.name, "Event-Name") => h = Scalar(h.name, <<id>>), ~Same(h.name, "_body")
  PROVE  Reread(x, FromMember(x, MemberOf(h)), h, id)
<1> DEFINE m == MemberOf(h)
           y == FromMember(x, m)
           e == x.ev
           name == h.name
           items == h.array
           v == h.value
<1>1. m.name = name /\ m.items = Items(h) /\ m.array = (items # <<>>)
  BY DEF MemberOf
<1>2. name \in String /\ name # "_body" /\ ~Same(name, "_body")
  BY CopyableFacts
<1> HIDE DEF m
<1>3. CASE ~x.ok
  <2>1. y = x
    BY <1>3 DEF FromMember
  <2> QED BY <1>3, <2>1 DEF Reread, m
<1>4. CASE x.ok /\ items # <<>>
  <2>1. Items(h) = items /\ Pushable(items) /\ h = Piled(name, items)
    BY <1>4, CopyableFacts
  <2>2. ~Same(name, "Event-Name")
    BY <1>4 DEF Scalar
  <2>3. y = IF Len(items) > JsonMaxItems THEN Failed(e) ELSE AllPushed(e, name, items, "none")
    BY <1>1, <1>4, <2>1 DEF FromMember
  <2>4. ASSUME y.ok, Sound(e), Free(e.headers, name) PROVE y.ev = Appended(e, h)
    <3>1. y = AllPushed(e, name, items, "none")
      BY <2>3, <2>4 DEF Failed
    <3> HIDE DEF e, name, items
    <3>2. AllPushed(e, name, items, "none") = Done(Appended(e, Piled(name, items)))
      BY <1>2, <2>1, <2>4, AllPushedPile
    <3> QED BY <2>1, <3>1, <3>2 DEF Done
  <2> QED BY <1>4, <2>2, <2>4 DEF Reread, Given, m
<1>5. CASE x.ok /\ items = <<>>
  <2>1. /\ Items(h) = <<v>> /\ h = Scalar(name, v)
        /\ v \in Text /\ v # <<>> /\ ~Has(v, ARRAY)
    BY <1>5, CopyableFacts
  <2>2. y = Noted(Identified(e, name, v), name, v)
    <3>1. x.ok /\ ~m.array /\ m.name = name /\ ~Same(m.name, "_body") /\ m.items[1] = v
      <4>1. ~m.array /\ m.name = name /\ m.items = <<v>>
        BY <1>1, <1>5, <2>1
      <4>2. <<v>>[1] = v
        OBVIOUS
      <4> HIDE DEF name, v
      <4> QED BY <1>2, <1>5, <4>1, <4>2
    <3>2. y = Noted(Identified(x.ev, m.name, m.items[1]), m.name, m.items[1])
      <4> HIDE DEF name, v
      <4> QED BY <3>1, Zenon DEF FromMember
    <3> QED BY <3>1, <3>2
  <2>3. Same(name, "Event-Name") => v = <<id>>
    BY DEF Scalar
  <2>4. ASSUME y.ok, Sound(e), Free(e.headers, name)
        PROVE  y.ev = Appended(Given(e, name, id), h)
    <3> HIDE DEF e, name, v, y
    <3> QED BY <1>2, <2>1, <2>2, <2>3, <2>4, NotedCopy
  <2> QED BY <1>5, <2>4 DEF Reread, m
<1> QED BY <1>3, <1>4, <1>5

LEMMA CloneIsNew == Created("CLONE", NULL) = NewEvent("CLONE")
BY DEF Created, OfSubclass

LEMMA JsonShows ==
  ASSUME NEW e, Sound(e), Regular(e), SaysItsName(e), Find(e, "Content-Length") = 0,
         NoBodyMember(e), FromJson(Json(e)).ok
  PROVE  Shows(FromJson(Json(e)).ev) = ShownJson(e)
<1> DEFINE json == Json(e)
           ms == json.members
           id == e.id
           body == e.body
           hs == IF body = NULL THEN e.headers ELSE Append(e.headers, LengthHeader(body))
           n == Len(hs)
           shown == IF body = NULL THEN e ELSE Announced(e)
           c == Created("CLONE", NULL)
           T == OnTheWay(c)
           l == Len(ms)
           r == FromJson(json)
<1>1. Readable(e.headers, id) /\ Free(e.headers, "Content-Length")
  BY RegularReadable, FreeFind
<1>2. /\ json.ok = TRUE /\ ms \in Seq(Member)
      /\ \A i \in 1 .. n : ms[i] = MemberOf(hs[i])
      /\ body = NULL => l = n
      /\ body # NULL => /\ l = n + 1
                        /\ ms[n + 1] = [name |-> "_body", items |-> <<body>>, array |-> FALSE]
  BY <1>1, JsonMembers
<1>3. Readable(hs, id)
  BY <1>1, AnnouncedReadable
<1>4. shown.headers = hs /\ shown.id = id /\ shown.body = body
  <2>1. CASE body = NULL
    BY <2>1
  <2>2. CASE body # NULL
    <3>1. [NewHeader("Content-Length") EXCEPT !.value = LengthOf(e.body)] = LengthHeader(body)
      BY DEF NewHeader, LengthHeader, Scalar
    <3>2. shown = [e EXCEPT !.headers = Append(@, LengthHeader(body))]
      BY <2>2, <3>1 DEF Announced
    <3>3. hs = Append(e.headers, LengthHeader(body))
      BY <2>2
    <3> HIDE DEF shown, hs
    <3> QED BY <3>2, <3>3 DEF Sound, Event
  <2> QED BY <2>1, <2>2
<1>5. ShownJson(e) = Shows(shown)
  BY DEF ShownJson
<1>6. body \in Text \cup {NULL} /\ e.headers \in Seq(Header)
  BY EventFacts DEF Sound
<1>21. \A i \in 1 .. n : ~Same(hs[i].name, "_body")
  <2>1. CASE body = NULL
    BY <1>6, <2>1 DEF NoBodyMember
  <2>2. CASE body # NULL
    <3> DEFINE h == LengthHeader(body)
               w == e.headers
               k == Len(w)
    <3>1. h.name = "Content-Length"
      BY DEF LengthHeader, Scalar
    <3>2. ~Same(h.name, "_body")
      BY <3>1, EventAssumption DEF Same
    <3>3. k \in Nat /\ DOMAIN w = 1 .. k /\ hs = Append(w, h)
      BY <1>6, <2>2
    <3>4. \A i \in 1 .. k : ~Same(w[i].name, "_body")
      BY <3>3 DEF NoBodyMember
    <3> HIDE DEF h, w, k, hs
    <3>5. w \in Seq(Header)
      BY <1>6 DEF w
    <3>6. n = k + 1 /\ hs[k + 1] = h /\ \A i \in 1 .. k : hs[i] = w[i]
      BY <3>3, <3>5 DEF k
    <3> QED BY <3>2, <3>3, <3>4, <3>6
  <2> QED BY <2>1, <2>2
<1> HIDE DEF json, hs, shown, id, body
<1>7. Done(c) \in T
  BY CloneFacts
<1>8. l \in Nat /\ \A i \in 1 .. l : ms[i] \in Member
  BY <1>2
<1>9. \A i \in 1 .. l : \A x \in T : FromMember(x, ms[i]) \in T
  BY <1>8, FromMemberFacts
<1> HIDE DEF T
<1>10. PICK d : Reads(d, json, T)
  BY <1>7, <1>8, <1>9, FromJsonBy
<1>11. /\ d[0] = Done(c) /\ \A i \in 1 .. l : d[i] = FromMember(d[i - 1], ms[i])
  BY <1>10 DEF Reads
<1>12. r = FromMembers(d[l]) /\ d[l].ok
  <2>1. r = IF ~json.ok \/ Len(json.members) > JsonMaxHeaders THEN Failed(NULL)
            ELSE FromMembers(d[l])
    BY <1>10 DEF Reads
  <2>2. r.ok
    BY DEF json
  <2> HIDE DEF r
  <2>3. r = FromMembers(d[l])
    BY <2>1, <2>2 DEF Failed
  <2> QED BY <2>2, <2>3 DEF FromMembers, Failed
<1>13. r.ev = d[l].ev
  BY <1>12 DEF FromMembers
<1>14. /\ hs \in Seq(Header) /\ Distinct(hs) /\ n \in Nat /\ id \in EventType
       /\ \A i \in 1 .. n : Copyable(hs[i]) /\ Solid(hs[i])
       /\ \A i \in 1 .. n : Same(hs[i].name, "Event-Name") => hs[i] = Scalar(hs[i].name, <<id>>)
  BY <1>3, CopyableFacts DEF Readable
<1>15. \A i \in 1 .. n : Reread(d[i - 1], d[i], hs[i], id)
  <2> TAKE i \in 1 .. n
  <2> DEFINE x == d[i - 1]
             h == hs[i]
  <2>1. i \in 1 .. l
    BY <1>2, <1>8, <1>14
  <2>2. d[i] = FromMember(x, MemberOf(h))
    BY <1>2, <1>11, <2>1
  <2>3. /\ Copyable(h) /\ (Same(h.name, "Event-Name") => h = Scalar(h.name, <<id>>))
        /\ ~Same(h.name, "_body")
    BY <1>14, <1>21
  <2> HIDE DEF x, h
  <2>4. Reread(x, FromMember(x, MemberOf(h)), h, id)
    BY <1>14, <2>3, FromMemberCopy
  <2> QED BY <2>2, <2>4 DEF x, h
<1>16. d[0] = Done(NewEvent("CLONE"))
  BY <1>11, CloneIsNew
<1>17. ASSUME d[n].ok
       PROVE  /\ Sound(d[n].ev) /\ d[n].ev.headers = hs /\ d[n].ev.body = NULL
              /\ d[n].ev.id = id
  <2>1. /\ Sound(d[n].ev) /\ d[n].ev.headers = hs /\ d[n].ev.body = NULL
        /\ d[n].ev.id = IF Free(hs, "Event-Name") THEN "CLONE" ELSE id
    BY <1>14, <1>15, <1>16, <1>17, ReadBack
  <2> QED BY <1>3, <2>1, ReadBackId
<1>18. r.ev.headers = hs /\ r.ev.id = id /\ r.ev.body = body
  <2>1. CASE body = NULL
    BY <1>2, <1>12, <1>13, <1>17, <2>1
  <2>2. CASE body # NULL
    <3> DEFINE m == [name |-> "_body", items |-> <<body>>, array |-> FALSE]
               x == d[n]
    <3>1. l = n + 1 /\ l \in 1 .. l /\ l - 1 = n /\ ms[l] = m
      BY <1>2, <1>14, <2>2
    <3>2. d[l] = FromMember(x, m)
      BY <1>11, <3>1
    <3>3. m.array = FALSE /\ m.name = "_body" /\ m.items[1] = body /\ Same(m.name, "_body")
      BY DEF Same
    <3>4. CASE ~x.ok
      <4>1. d[l] = x
        BY <3>2, <3>4 DEF FromMember
      <4> QED BY <1>12, <3>4, <4>1
    <3>5. CASE x.ok
      <4> DEFINE f == x.ev
                 g == [f EXCEPT !.body = body]
      <4>1. d[l] = WithBody(f, body, "none")
        BY <3>2, <3>3, <3>5 DEF FromMember
      <4>2. WithBody(f, body, "none") = Done(g)
        BY DEF WithBody
      <4>3. Sound(f) /\ f.headers = hs /\ f.id = id
        BY <1>17, <3>5
      <4> HIDE DEF f
      <4>4. g.headers = hs /\ g.id = id /\ g.body = body
        BY <4>3 DEF Sound, Event
      <4> HIDE DEF g
      <4>5. r.ev = g
        BY <1>13, <4>1, <4>2 DEF Done
      <4> QED BY <4>4, <4>5
    <3> QED BY <3>4, <3>5
  <2> QED BY <2>1, <2>2
<1> DEFINE q == r.ev
<1>19. q.headers = shown.headers /\ q.id = shown.id /\ q.body = shown.body
  BY <1>4, <1>18
<1> HIDE DEF q
<1>20. Shows(q) = Shows(shown)
  BY <1>19, ShowsSame
<1> QED BY <1>5, <1>20 DEF q, json

-----------------------------------------------------------------------------
(* The plain form: the elements of an array are cut out of its value.      *)

LEMMA PlaceOfSep ==
  ASSUME NEW u \in Text
  PROVE  LET i == FirstPlace(u, <<SEP>>)
         IN /\ ~Has(u, SEP) => i = 0
            /\ \A q \in 1 .. Len(u) :
                 u[q] = SEP /\ (\A j \in 1 .. q - 1 : u[j] # SEP) => i = q
<1> DEFINE z == <<SEP>>
           n == Len(u) - Len(z) + 1
           places == {k \in 1 .. n : SubSeq(u, k, k + Len(z) - 1) = z}
           i == FirstPlace(u, z)
           l == Len(u)
<1>1. i = IF places = {} THEN 0 ELSE CHOOSE k \in places : \A j \in places : k <= j
  BY DEF FirstPlace
<1>2. u \in Seq(String) /\ l \in Nat /\ n = l /\ Len(z) = 1 /\ DOMAIN u = 1 .. l
  BY DEF Text
<1>3. ASSUME NEW k \in 1 .. l PROVE SubSeq(u, k, k + Len(z) - 1) = z <=> u[k] = SEP
  <2> DEFINE w == SubSeq(u, k, k)
  <2>1. w \in Seq(String) /\ Len(w) = 1 /\ w[1] = u[k]
    BY <1>2
  <2>2. k + Len(z) - 1 = k
    BY <1>2
  <2> HIDE DEF w
  <2>3. w = <<u[k]>>
    BY <2>1
  <2> QED BY <2>2, <2>3 DEF w
<1>4. places = {k \in 1 .. l : u[k] = SEP}
  BY <1>2, <1>3
<1> HIDE DEF places, i, l
<1>5. ~Has(u, SEP) => i = 0
  <2>1. ASSUME ~Has(u, SEP) PROVE places = {}
    BY <1>2, <1>4, <2>1 DEF Has
  <2> QED BY <1>1, <2>1
<1>6. ASSUME NEW q \in 1 .. l, u[q] = SEP, \A j \in 1 .. q - 1 : u[j] # SEP
      PROVE  i = q
  <2>1. q \in places
    BY <1>4, <1>6
  <2>2. \A j \in places : j \in Nat /\ q <= j
    <3> TAKE j \in places
    <3>1. j \in 1 .. l /\ u[j] = SEP
      BY <1>4
    <3>2. j \notin 1 .. q - 1
      BY <1>6, <3>1
    <3> QED BY <1>2, <3>1, <3>2
  <2> DEFINE c == CHOOSE k \in places : \A j \in places : k <= j
  <2>3. c \in places /\ \A j \in places : c <= j
    BY <2>1, <2>2
  <2>4. i = c
    BY <1>1, <2>1
  <2> HIDE DEF c
  <2>5. c <= q /\ q <= c /\ c \in Nat /\ q \in Nat
    BY <2>1, <2>2, <2>3
  <2> QED BY <2>4, <2>5
<1> QED BY <1>5, <1>6 DEF i, l, z

(* What is found behind place p when x stands there, and then the end or a *)
(* separator.                                                              *)
LEMMA CutHere ==
  ASSUME NEW t \in Text, NEW x \in Text, ~Has(x, SEP), NEW p \in 1 .. Len(t) + 1,
         p + Len(x) - 1 <= Len(t), \A j \in 1 .. Len(x) : t[p + j - 1] = x[j]
  PROVE  LET u == Rest(t, p)
             i == FirstPlace(u, <<SEP>>)
         IN /\ p + Len(x) - 1 = Len(t) => i = 0 /\ u = x
            /\ p + Len(x) <= Len(t) /\ t[p + Len(x)] = SEP
                 => i = Len(x) + 1 /\ SubSeq(u, 1, i - 1) = x
<1> DEFINE u == Rest(t, p)
           i == FirstPlace(u, <<SEP>>)
           l == Len(x)
           n == Len(t)
<1>1. t \in Seq(String) /\ n \in Nat /\ x \in Seq(String) /\ l \in Nat /\ DOMAIN x = 1 .. l
  BY DEF Text
<1>2. /\ u \in Seq(String) /\ Len(u) = n - p + 1
      /\ \A j \in 1 .. n - p + 1 : u[j] = t[p + j - 1]
  BY <1>1 DEF Rest
<1> HIDE DEF u, i
<1>3. u \in Text
  BY <1>2 DEF Text
<1>4. \A j \in 1 .. l : u[j] = x[j] /\ u[j] # SEP
  <2> TAKE j \in 1 .. l
  <2>1. j \in 1 .. n - p + 1
    BY <1>1
  <2>2. u[j] = x[j]
    BY <1>2, <2>1
  <2>3. x[j] # SEP
    BY <1>1 DEF Has
  <2> QED BY <2>2, <2>3
<1>5. ASSUME p + l - 1 = n PROVE i = 0 /\ u = x
  <2>1. Len(u) = l
    BY <1>1, <1>2, <1>5
  <2>2. u = x
    BY <1>1, <1>2, <1>4, <2>1
  <2>3. i = 0
    BY <1>3, <2>2, PlaceOfSep DEF i
  <2> QED BY <2>2, <2>3
<1>6. ASSUME p + l <= n, t[p + l] = SEP PROVE i = l + 1 /\ SubSeq(u, 1, i - 1) = x
  <2> DEFINE q == l + 1
             v == SubSeq(u, 1, l)
  <2>1. q \in 1 .. n - p + 1 /\ p + q - 1 = p + l /\ q - 1 = l
    BY <1>1, <1>6
  <2>2. u[q] = SEP /\ q \in 1 .. Len(u)
    BY <1>2, <1>6, <2>1
  <2>3. \A j \in 1 .. q - 1 : u[j] # SEP
    BY <1>4, <2>1
  <2> HIDE DEF q
  <2>4. i = q
    BY <1>3, <2>2, <2>3, PlaceOfSep DEF i
  <2>5. v \in Seq(String) /\ Len(v) = l /\ \A j \in 1 .. l : v[j] = u[j]
    BY <1>1, <1>2, <2>1, <2>2
  <2> HIDE DEF v
  <2>6. v = x
    BY <1>1, <1>4, <2>5
  <2> QED BY <1>1, <2>1, <2>4, <2>6 DEF q, v
<1> QED BY <1>5, <1>6 DEF u, i, l, n

LEMMA PlaceWithin ==
  ASSUME NEW b \in Nat, NEW l \in Nat, NEW e \in Nat, NEW top \in Nat,
         NEW j \in 1 .. l, e = b + l, e <= top, b >= 1
  PROVE  b + j - 1 \in 1 .. top - 1 /\ (b + j - 1) + 1 = b + j /\ b + j \in 1 .. e
  OBVIOUS

LEMMA SeparatorWithin ==
  ASSUME NEW e \in Nat, NEW f \in Nat, NEW l \in Nat, NEW top \in Nat,
         f = e + 1 + l, f <= top, e >= 1
  PROVE  e + 1 \in 1 .. f /\ e \in 1 .. top - 1
  OBVIOUS

LEMMA StandTogether ==
  ASSUME NEW items \in Seq(Text), Len(items) > 1
  PROVE  LET v == Together(items)
         IN /\ v \in Text /\ Len(v) >= Len(items) /\ v[1] = ARRAY
            /\ \E B : Stands(Tail(v), items, B)
<1> DEFINE n == Len(items)
           v == Together(items)
           t == Tail(v)
<1>1. n \in Nat /\ n > 1 /\ \A k \in 1 .. n : items[k] \in Text
  OBVIOUS
<1>2. v \in Text
  BY TogetherType
<1>3. PICK d : Joins(d, items)
  BY TogetherBy
<1>4. /\ d[0] = <<ARRAY>> /\ v = d[n] /\ \A i \in 0 .. n : d[i] \in Text
      /\ \A i \in 1 .. n : d[i] = d[i - 1] \o Glue(i) \o items[i]
  BY <1>3 DEF Joins
<1> HIDE DEF v
<1> DEFINE E(i) == Len(d[i])
           g(i) == IF i = 1 THEN 0 ELSE 1
           L(i) == Len(items[i])
           B == [i \in 1 .. n |-> E(i - 1) + g(i)]
<1>5. \A i \in 0 .. n : d[i] \in Seq(String) /\ E(i) \in Nat
  BY <1>4 DEF Text
<1>6. \A i \in 1 .. n : items[i] \in Seq(String) /\ L(i) \in Nat
  BY <1>1 DEF Text
<1>7. ASSUME NEW i \in 1 .. n
      PROVE  /\ E(i) = E(i - 1) + g(i) + L(i)
             /\ \A q \in 1 .. E(i - 1) : d[i][q] = d[i - 1][q]
             /\ \A j \in 1 .. L(i) : d[i][E(i - 1) + g(i) + j] = items[i][j]
             /\ i # 1 => d[i][E(i - 1) + 1] = SEP
  <2> DEFINE a == d[i - 1]
             b == Glue(i)
             c == items[i]
  <2>1. a \in Seq(String) /\ c \in Seq(String)
    <3>1. i - 1 \in 0 .. n
      BY <1>1
    <3> QED BY <1>5, <1>6, <3>1
  <2>2. b \in Seq(String) /\ Len(b) = g(i) /\ (i # 1 => b[1] = SEP)
    <3>1. b \in Text
      BY TextFacts DEF Glue
    <3>2. i = 1 => b = <<>>
      BY DEF Glue
    <3>3. i # 1 => b = <<SEP>>
      BY DEF Glue
    <3> HIDE DEF b
    <3> QED BY <3>1, <3>2, <3>3 DEF Text
  <2>3. d[i] = a \o b \o c
    BY <1>4
  <2> HIDE DEF a, b, c
  <2> DEFINE w == a \o b \o c
  <2>4. /\ Len(w) = Len(a) + Len(b) + Len(c)
        /\ \A q \in 1 .. Len(a) : w[q] = a[q]
        /\ \A q \in 1 .. Len(b) : w[Len(a) + q] = b[q]
        /\ \A q \in 1 .. Len(c) : w[Len(a) + Len(b) + q] = c[q]
    <3> DEFINE x == a \o b
    <3>0. x = a \o b /\ w = x \o c
      OBVIOUS
    <3> HIDE DEF x, w
    <3>1. /\ x \in Seq(String) /\ Len(x) = Len(a) + Len(b)
          /\ \A q \in 1 .. Len(a) : x[q] = a[q] /\ q \in 1 .. Len(x)
          /\ \A q \in 1 .. Len(b) : x[Len(a) + q] = b[q] /\ Len(a) + q \in 1 .. Len(x)
      <4>1. a \in Seq(String) /\ b \in Seq(String) /\ x = a \o b
        BY <2>1, <2>2, <3>0
      <4> HIDE DEF g
      <4> QED BY <4>1, ConcatParts
    <3>2. /\ Len(w) = Len(x) + Len(c)
          /\ \A q \in 1 .. Len(x) : w[q] = x[q]
          /\ \A q \in 1 .. Len(c) : w[Len(x) + q] = c[q]
      BY <2>1, <3>0, <3>1, ConcatParts
    <3> QED BY <3>1, <3>2
  <2> HIDE DEF w
  <2>5. d[i] = w
    BY <2>3 DEF w
  <2>6. i # 1 => w[Len(a) + 1] = SEP
    <3>1. i # 1 => 1 \in 1 .. Len(b)
      BY <2>2
    <3> QED BY <2>2, <2>4, <3>1
  <2> QED BY <2>2, <2>4, <2>5, <2>6 DEF a, c
<1> HIDE DEF E, L
<1>8. \A i \in 0 .. n : E(i) \in Nat
  BY <1>5
<1>9. \A i \in 1 .. n : L(i) \in Nat
  BY <1>6
<1>10. ASSUME NEW k \in 0 .. n
       PROVE  E(k) <= E(n) /\ \A q \in 1 .. E(k) : v[q] = d[k][q]
  <2> DEFINE P(i) == E(k) <= E(i) /\ \A q \in 1 .. E(k) : d[i][q] = d[k][q]
             G == {i \in 0 .. n : i >= k => P(i)}
  <2>1. 0 \in G
    <3>1. 0 \in 0 .. n
      BY <1>1
    <3>2. 0 >= k => P(0)
      <4>1. 0 >= k => k = 0
        OBVIOUS
      <4> QED BY <1>8, <4>1
    <3> QED BY <3>1, <3>2
  <2>2. ASSUME NEW i \in 1 .. n, i - 1 \in G PROVE i \in G
    <3>1. i \in 0 .. n /\ i - 1 \in 0 .. n
      BY <1>1
    <3>2. CASE i = k
      <4>1. P(i)
        BY <1>8, <3>1, <3>2
      <4> QED BY <3>1, <4>1
    <3>3. CASE i > k
      <4>1. P(i - 1)
        BY <2>2, <3>1, <3>3
      <4>2. E(i - 1) <= E(i) /\ E(k) \in Nat /\ E(i) \in Nat /\ E(i - 1) \in Nat
        BY <1>7, <1>8, <1>9, <3>1
      <4>3. E(k) <= E(i)
        BY <4>1, <4>2
      <4>4. \A q \in 1 .. E(k) : d[i][q] = d[k][q]
        <5> TAKE q \in 1 .. E(k)
        <5>1. q \in 1 .. E(i - 1)
          BY <4>1, <4>2
        <5>2. d[i][q] = d[i - 1][q]
          BY <1>7, <5>1
        <5> QED BY <4>1, <5>2
      <4> HIDE DEF P
      <4>5. P(i)
        BY <4>3, <4>4 DEF P
      <4> QED BY <3>1, <4>5
    <3>4. CASE i < k
      BY <3>1, <3>4
    <3> QED BY <3>1, <3>2, <3>3, <3>4
  <2>3. G = 0 .. n
    <3>1. G \in SUBSET (0 .. n)
      OBVIOUS
    <3> HIDE DEF G
    <3> QED BY <1>1, <2>1, <2>2, <3>1, Inductive
  <2>4. P(n)
    <3>1. n \in G /\ n >= k
      BY <1>1, <2>3
    <3> HIDE DEF P
    <3> QED BY <3>1
  <2> QED BY <1>4, <2>4
<1>11. E(0) = 1
  BY <1>4 DEF E
<1>12. \A i \in 1 .. n : E(i) >= i
  <2> DEFINE G == {i \in 0 .. n : i # 0 => E(i) >= i}
  <2>1. 0 \in G
    BY <1>1
  <2>2. ASSUME NEW i \in 1 .. n, i - 1 \in G PROVE i \in G
    <3>1. /\ i \in 0 .. n /\ i - 1 \in 0 .. n /\ E(i - 1) \in Nat /\ E(i) \in Nat
          /\ L(i) \in Nat /\ E(i) = E(i - 1) + g(i) + L(i)
      BY <1>1, <1>7, <1>8, <1>9
    <3>2. CASE i = 1
      BY <1>11, <3>1, <3>2
    <3>3. CASE i # 1
      <4>1. E(i - 1) >= i - 1 /\ g(i) = 1
        BY <2>2, <3>1, <3>3
      <4> QED BY <3>1, <4>1
    <3> QED BY <3>2, <3>3
  <2>3. G = 0 .. n
    <3>1. G \in SUBSET (0 .. n)
      OBVIOUS
    <3> HIDE DEF G
    <3> QED BY <1>1, <2>1, <2>2, <3>1, Inductive
  <2>4. \A i \in 1 .. n : i \in 0 .. n /\ i # 0
    BY <1>1
  <2> QED BY <2>3, <2>4
<1>13. /\ v \in Seq(String) /\ Len(v) = E(n) /\ E(n) >= n /\ E(n) \in Nat
       /\ v # <<>> /\ v[1] = ARRAY
  <2>1. v \in Seq(String) /\ Len(v) = E(n)
    BY <1>2, <1>4 DEF Text, E
  <2>2. E(n) >= n /\ E(n) \in Nat
    BY <1>1, <1>8, <1>12
  <2>3. v[1] = d[0][1]
    <3>1. 0 \in 0 .. n /\ 1 \in 1 .. E(0)
      BY <1>1, <1>11
    <3> QED BY <1>10, <3>1
  <2>4. d[0][1] = ARRAY
    BY <1>4
  <2>5. v # <<>>
    BY <1>1, <2>1, <2>2
  <2> QED BY <2>1, <2>2, <2>3, <2>4, <2>5
<1>14. Len(t) = E(n) - 1 /\ \A q \in 1 .. E(n) - 1 : t[q] = v[q + 1]
  BY <1>13
<1> HIDE DEF t
<1>15. \A k \in 1 .. n : B[k] = E(k - 1) + g(k) /\ E(k) = B[k] + L(k) /\ B[k] \in Nat
  <2> TAKE k \in 1 .. n
  <2>1. k - 1 \in 0 .. n
    BY <1>1
  <2>2. E(k) = E(k - 1) + g(k) + L(k) /\ E(k - 1) \in Nat /\ L(k) \in Nat
    BY <1>7, <1>8, <1>9, <2>1
  <2> QED BY <2>2
<1>16. B[1] = 1
  <2>1. 1 \in 1 .. n /\ 1 - 1 = 0
    BY <1>1
  <2> QED BY <1>11, <1>15, <2>1
<1> HIDE DEF B
<1>17. ASSUME NEW k \in 1 .. n
       PROVE  /\ B[k] \in 1 .. Len(t) + 1 /\ B[k] + L(k) - 1 <= Len(t)
              /\ \A j \in 1 .. L(k) : t[B[k] + j - 1] = items[k][j]
  <2>1. /\ E(k) <= E(n) /\ E(k) = B[k] + L(k) /\ L(k) \in Nat /\ E(n) \in Nat
        /\ B[k] \in Nat /\ k \in 0 .. n /\ E(k - 1) \in Nat
    <3>1. k \in 0 .. n /\ k - 1 \in 0 .. n
      BY <1>1
    <3> QED BY <1>8, <1>9, <1>10, <1>13, <1>15, <3>1
  <2>2. B[k] >= 1
    <3>1. CASE k = 1
      BY <1>16, <3>1
    <3>2. CASE k # 1
      <4>1. B[k] = E(k - 1) + 1
        BY <1>15, <3>2
      <4> QED BY <2>1, <4>1
    <3> QED BY <3>1, <3>2
  <2>3. B[k] \in 1 .. Len(t) + 1 /\ B[k] + L(k) - 1 <= Len(t)
    BY <1>14, <2>1, <2>2
  <2>4. ASSUME NEW j \in 1 .. L(k) PROVE t[B[k] + j - 1] = items[k][j]
    <3>1. B[k] + j - 1 \in 1 .. E(n) - 1 /\ (B[k] + j - 1) + 1 = B[k] + j /\ B[k] + j \in 1 .. E(k)
      <4> DEFINE b == B[k]
                 l == L(k)
                 e == E(k)
                 top == E(n)
      <4>1. /\ b \in Nat /\ l \in Nat /\ e \in Nat /\ top \in Nat /\ j \in 1 .. l
            /\ e = b + l /\ e <= top /\ b >= 1
        <5>1. e \in Nat
          BY <1>8, <2>1
        <5> QED BY <2>1, <2>2, <5>1
      <4> HIDE DEF b, l, e, top
      <4>2. b + j - 1 \in 1 .. top - 1 /\ (b + j - 1) + 1 = b + j /\ b + j \in 1 .. e
        BY <4>1, PlaceWithin
      <4> QED BY <4>2 DEF b, e, top
    <3>2. t[B[k] + j - 1] = v[B[k] + j]
      BY <1>14, <3>1
    <3>3. v[B[k] + j] = d[k][B[k] + j]
      BY <1>10, <2>1, <3>1
    <3>4. d[k][E(k - 1) + g(k) + j] = items[k][j]
      BY <1>7
    <3>5. E(k - 1) + g(k) = B[k]
      BY <1>15
    <3>6. d[k][B[k] + j] = items[k][j]
      BY <3>4, <3>5
    <3> QED BY <3>2, <3>3, <3>6
  <2> QED BY <2>3, <2>4
<1>18. B[n] + L(n) - 1 = Len(t)
  <2>1. n \in 1 .. n
    BY <1>1
  <2>2. /\ E(n) = B[n] + L(n) /\ Len(t) = E(n) - 1 /\ B[n] \in Nat /\ L(n) \in Nat
        /\ E(n) \in Nat
    BY <1>9, <1>13, <1>14, <1>15, <2>1
  <2> DEFINE e == E(n)
             b == B[n]
             l == L(n)
             m == Len(t)
  <2>3. e = b + l /\ m = e - 1 /\ b \in Nat /\ l \in Nat /\ e \in Nat
    BY <2>2
  <2> HIDE DEF e, b, l, m
  <2>4. b + l - 1 = m
    BY <2>3
  <2> QED BY <2>4 DEF b, l, m
<1>19. ASSUME NEW k \in 1 .. n - 1
       PROVE  /\ B[k] + L(k) <= Len(t) /\ t[B[k] + L(k)] = SEP
              /\ B[k + 1] = B[k] + L(k) + 1
  <2>1. /\ k \in 1 .. n /\ k + 1 \in 1 .. n /\ (k + 1) - 1 = k /\ k + 1 # 1 /\ k \in 0 .. n
        /\ k + 1 \in 0 .. n
    BY <1>1
  <2>2. /\ E(k) = B[k] + L(k) /\ E(k) \in Nat /\ B[k] \in Nat /\ L(k) \in Nat
        /\ E(n) \in Nat /\ L(k + 1) \in Nat /\ E(k + 1) \in Nat
    BY <1>8, <1>9, <1>13, <1>15, <2>1
  <2>3. B[k + 1] = E(k) + 1 /\ E(k + 1) = E(k) + 1 + L(k + 1)
    BY <1>7, <1>15, <2>1
  <2>4. E(k + 1) <= E(n)
    BY <1>10, <2>1
  <2>5. E(k) + 1 \in 1 .. E(k + 1) /\ E(k) \in 1 .. E(n) - 1
    <3>1. E(k) >= 1
      <4>1. E(k) >= k
        BY <1>12, <2>1
      <4> QED BY <2>1, <2>2, <4>1
    <3> QED BY <2>2, <2>3, <2>4, <3>1, SeparatorWithin
  <2>6. t[E(k)] = v[E(k) + 1]
    BY <1>14, <2>5
  <2>7. v[E(k) + 1] = d[k + 1][E(k) + 1]
    BY <1>10, <2>1, <2>5
  <2>8. d[k + 1][E(k) + 1] = SEP
    BY <1>7, <2>1
  <2>9. B[k] + L(k) <= Len(t)
    BY <1>14, <2>2, <2>5
  <2> QED BY <2>2, <2>3, <2>6, <2>7, <2>8, <2>9
<1>20. Stands(t, items, B)
  BY <1>16, <1>17, <1>18, <1>19 DEF Stands, L
<1> QED BY <1>2, <1>13, <1>20 DEF t, v

LEMMA PiecesTogether ==
  ASSUME NEW items \in Seq(Text), Len(items) > 1,
         \A k \in 1 .. Len(items) : ~Has(items[k], SEP)
  PROVE  Pieces(Together(items)) = items
<1> DEFINE n == Len(items)
           v == Together(items)
           t == Tail(v)
           z == <<SEP>>
           m == Len(v)
<1>1. n \in Nat /\ n > 1 /\ \A k \in 1 .. n : items[k] \in Text
  OBVIOUS
<1>2. v \in Text /\ m >= n
  BY StandTogether
<1>3. PICK B : Stands(t, items, B)
  BY StandTogether
<1>4. m \in Nat /\ m # 0 /\ v # <<>> /\ z \in Text /\ z # <<>>
  BY <1>1, <1>2, TextFacts DEF Text
<1> HIDE DEF v
<1>5. t \in Text
  BY <1>2, <1>4 DEF Text
<1>6. Pieces(v) = Separated(t, z, m)
  BY DEF Pieces
<1> HIDE DEF t, z, m
<1>7. PICK d : Cuts(d, t, z, m)
  BY <1>4, <1>5, SeparatedBy
<1>8. \A l \in 1 .. m : \A p \in 1 .. Len(t) + 1 :
        d[l][p] =
          LET i == FirstPlace(Rest(t, p), z)
          IN IF l = 1 \/ i = 0 THEN <<Rest(t, p)>>
             ELSE <<SubSeq(Rest(t, p), 1, i - 1)>> \o d[l - 1][Behind(p + i - 1, z)]
  BY <1>7 DEF Cuts
<1>9. ASSUME NEW l \in 1 .. m PROVE d[l][B[n]] = <<items[n]>>
  <2> DEFINE p == B[n]
             x == items[n]
             i == FirstPlace(Rest(t, p), z)
  <2>1. n \in 1 .. n
    BY <1>1
  <2>2. /\ p \in 1 .. Len(t) + 1 /\ p + Len(x) - 1 = Len(t) /\ p + Len(x) - 1 <= Len(t)
        /\ \A j \in 1 .. Len(x) : t[p + j - 1] = x[j]
    BY <1>3, <2>1 DEF Stands
  <2>3. x \in Text /\ ~Has(x, SEP)
    BY <1>1, <2>1
  <2> HIDE DEF p, x
  <2>4. i = 0 /\ Rest(t, p) = x
    BY <1>5, <2>2, <2>3, CutHere DEF z
  <2>5. d[l][p] = <<Rest(t, p)>>
    BY <1>8, <2>2, <2>4
  <2> QED BY <2>4, <2>5 DEF p, x
<1>10. ASSUME NEW k \in 1 .. n - 1, NEW l \in 2 .. m
       PROVE  d[l][B[k]] = <<items[k]>> \o d[l - 1][B[k + 1]]
  <2> DEFINE p == B[k]
             x == items[k]
             i == FirstPlace(Rest(t, p), z)
             w == SubSeq(Rest(t, p), 1, i - 1)
  <2>1. k \in 1 .. n
    BY <1>1
  <2>2. /\ p \in 1 .. Len(t) + 1 /\ p + Len(x) - 1 <= Len(t)
        /\ \A j \in 1 .. Len(x) : t[p + j - 1] = x[j]
    BY <1>3, <2>1 DEF Stands
  <2>3. /\ p + Len(x) <= Len(t) /\ t[p + Len(x)] = SEP /\ B[k + 1] = p + Len(x) + 1
    BY <1>3 DEF Stands
  <2>4. x \in Text /\ ~Has(x, SEP)
    BY <1>1, <2>1
  <2> HIDE DEF p, x
  <2>5. i = Len(x) + 1 /\ w = x
    BY <1>5, <2>2, <2>3, <2>4, CutHere DEF z
  <2>6. Len(x) \in Nat /\ Len(z) = 1 /\ p \in Nat
    BY <2>2, <2>4 DEF Text, z
  <2> HIDE DEF w
  <2>7. i # 0 /\ Behind(p + i - 1, z) = B[k + 1]
    BY <2>3, <2>5, <2>6 DEF Behind
  <2> HIDE DEF i
  <2>8. l \in 1 .. m /\ l # 1
    BY <1>4
  <2>9. d[l][p] = <<w>> \o d[l - 1][Behind(p + i - 1, z)]
    BY <1>8, <2>2, <2>7, <2>8 DEF i, w
  <2> QED BY <2>5, <2>7, <2>9 DEF p, x
<1> DEFINE Fine(j) == \A l \in j + 1 .. m : d[l][B[n - j]] = SubSeq(items, n - j, n)
           G == {j \in 0 .. n - 1 : Fine(j)}
<1>11. 0 \in G
  <2>1. SubSeq(items, n, n) = <<items[n]>>
    <3> DEFINE u == SubSeq(items, n, n)
    <3>1. u \in Seq(Text) /\ Len(u) = 1 /\ u[1] = items[n]
      BY <1>1
    <3> HIDE DEF u
    <3>2. u = <<items[n]>>
      BY <3>1
    <3> QED BY <3>2 DEF u
  <2>2. 0 \in 0 .. n - 1 /\ n - 0 = n /\ 0 + 1 = 1
    BY <1>1
  <2>3. \A l \in 0 + 1 .. m : d[l][B[n - 0]] = SubSeq(items, n - 0, n)
    BY <1>9, <2>1, <2>2
  <2> QED BY <2>2, <2>3
<1>12. ASSUME NEW j \in 1 .. n - 1, j - 1 \in G PROVE j \in G
  <2> DEFINE k == n - j
  <2>1. /\ k \in 1 .. n - 1 /\ k + 1 = n - (j - 1) /\ j \in 0 .. n - 1 /\ k \in 1 .. n
        /\ n \in k .. n
    BY <1>1
  <2>2. ASSUME NEW l \in j + 1 .. m PROVE d[l][B[k]] = SubSeq(items, k, n)
    <3>1. l \in 2 .. m /\ l - 1 \in (j - 1) + 1 .. m
      BY <1>1, <1>4
    <3>2. d[l - 1][B[k + 1]] = SubSeq(items, k + 1, n)
      BY <1>12, <2>1, <3>1
    <3> HIDE DEF k
    <3>3. d[l][B[k]] = <<items[k]>> \o d[l - 1][B[k + 1]]
      BY <1>10, <2>1, <3>1
    <3>4. SubSeq(items, k, n) = <<items[k]>> \o SubSeq(items, k + 1, n)
      BY <1>1, <2>1, SubSeqRecursiveFirst
    <3> QED BY <3>2, <3>3, <3>4
  <2>3. Fine(j)
    BY <2>2
  <2> HIDE DEF Fine
  <2> QED BY <2>1, <2>3
<1>13. G = 0 .. n - 1
  <2>1. G \in SUBSET (0 .. n - 1) /\ n - 1 \in Nat
    BY <1>1
  <2> HIDE DEF G
  <2> QED BY <1>11, <1>12, <2>1, Inductive
<1>14. d[m][1] = items
  <2>1. n - 1 \in 0 .. n - 1 /\ n - (n - 1) = 1 /\ m \in (n - 1) + 1 .. m
    BY <1>1, <1>2, <1>4 DEF m
  <2>2. Fine(n - 1)
    BY <1>13, <2>1
  <2>3. d[m][B[1]] = SubSeq(items, 1, n)
    BY <2>1, <2>2
  <2>4. B[1] = 1
    BY <1>3 DEF Stands
  <2>5. SubSeq(items, 1, n) = items
    BY <1>1
  <2> QED BY <2>3, <2>4, <2>5
<1>15. Separated(t, z, m) = d[m][1]
  BY <1>7 DEF Cuts
<1> QED BY <1>6, <1>14, <1>15 DEF v

(* What the reader makes of a header that is written as a line: an array   *)
(* of one element comes back as a scalar.                                  *)
Flat(h) == IF Len(h.array) = 1 THEN Scalar(h.name, h.value) ELSE h

LineOf(h) == [name |-> h.name, value |-> h.value]

(* A header that a line can be made of.                                    *)
Writable(h) == Copyable(h) /\ \A k \in DOMAIN h.array : ~Has(h.array[k], SEP)

LEMMA FlatFacts ==
  ASSUME NEW h, Copyable(h)
  PROVE  LET f == Flat(h)
         IN /\ f \in Header /\ Solid(f) /\ f.name = h.name /\ f.value = h.value
            /\ Items(f) = Items(h) /\ h.value \in Text /\ h.value # <<>>
            /\ ~(Len(h.array) > 1) =>
                 /\ f = Scalar(h.name, h.value) /\ ~Has(h.value, ARRAY)
                 /\ h = Scalar(h.name, h.value) \/ h.array # <<>>
            /\ Len(h.array) > 1 => f = h /\ h.value = Together(h.array) /\ Len(h.value) > 1
<1> DEFINE f == Flat(h)
           v == h.value
           name == h.name
           items == h.array
           g == Scalar(name, v)
<1>1. h \in Header /\ name \in String /\ Solid(h) /\ items \in Seq(Text) /\ Len(items) \in Nat
  BY CopyableFacts, HeaderFacts
<1>2. g.name = name /\ g.value = v /\ g.array = <<>>
  BY DEF Scalar
<1>3. CASE items = <<>>
  <2>1. h = g /\ v \in Text /\ v # <<>> /\ ~Has(v, ARRAY) /\ Len(items) = 0
    BY <1>3, CopyableFacts
  <2>2. f = h
    BY <2>1 DEF Flat
  <2> QED BY <1>1, <1>3, <2>1, <2>2
<1>4. CASE Len(items) = 1
  <2>1. h = Piled(name, items) /\ Pushable(items) /\ items # <<>>
    <3>1. items # <<>>
      BY <1>4
    <3> QED BY <3>1, CopyableFacts
  <2>2. v = items[1]
    <3>1. Piled(name, items).value = items[1]
      BY <1>4 DEF Piled, Drawing
    <3> QED BY <2>1, <3>1
  <2>3. v \in Text /\ v # <<>> /\ ~Has(v, ARRAY)
    BY <1>4, <2>1, <2>2 DEF Pushable
  <2>4. Items(h) = items
    BY <2>1 DEF Items
  <2>5. items = <<v>>
    BY <1>1, <1>4, <2>2
  <2>6. f = g
    BY <1>4 DEF Flat
  <2>7. Items(g) = <<v>>
    BY <1>2 DEF Items
  <2> HIDE DEF f, g, v, name, items
  <2>8. g \in Header /\ Solid(g)
    BY <1>1, <2>3, ScalarFacts DEF g
  <2> QED BY <1>2, <1>4, <2>1, <2>3, <2>4, <2>5, <2>6, <2>7, <2>8 DEF f, g, v, name, items
<1>5. CASE Len(items) > 1
  <2>1. h = Piled(name, items) /\ Pushable(items)
    BY <1>1, <1>5, CopyableFacts
  <2>0. Len(items) # 1
    <3> DEFINE l == Len(items)
    <3>1. l \in Nat /\ l > 1
      BY <1>1, <1>5
    <3> HIDE DEF l
    <3>2. l # 1
      BY <3>1
    <3> QED BY <3>2 DEF l
  <2>2. v = Together(items)
    <3>1. Piled(name, items).value = Together(items)
      <4> HIDE DEF items
      <4> QED BY <2>0 DEF Piled, Drawing
    <3> QED BY <2>1, <3>1
  <2>3. Together(items) \in Text /\ Len(Together(items)) >= Len(items)
    BY <1>1, <1>5, StandTogether
  <2>4. f = h
    BY <2>0 DEF Flat
  <2>5. Len(v) \in Nat /\ Len(v) > 1
    <3>1. Len(v) \in Nat
      BY <2>2, <2>3 DEF Text
    <3> QED BY <1>1, <1>5, <2>2, <2>3, <3>1
  <2>6. v # <<>>
    BY <2>5
  <2>7. v \in Text
    BY <2>2, <2>3
  <2>8. Items(f) = Items(h) /\ f \in Header /\ Solid(f) /\ f.name = h.name /\ f.value = h.value
    BY <1>1, <2>4
  <2> HIDE DEF f
  <2>9. Len(h.array) > 1 => f = h /\ h.value = Together(h.array) /\ Len(h.value) > 1
    BY <2>2, <2>4, <2>5
  <2>10. h.value \in Text /\ h.value # <<>>
    BY <2>6, <2>7
  <2>11. Len(h.array) > 1
    BY <1>5
  <2> QED BY <2>8, <2>9, <2>10, <2>11, Zenon DEF f
<1>6. items = <<>> \/ Len(items) = 1 \/ Len(items) > 1
  <2>1. items \in Seq(Text)
    BY <1>1
  <2> HIDE DEF items
  <2>2. Len(items) \in Nat /\ (Len(items) = 0 => items = <<>>)
    BY <2>1
  <2> DEFINE l == Len(items)
  <2> HIDE DEF l
  <2>3. l \in Nat /\ (l = 0 => items = <<>>)
    BY <2>2 DEF l
  <2>4. l = 0 \/ l = 1 \/ l > 1
    BY <2>3
  <2> QED BY <2>3, <2>4 DEF l
<1> QED BY <1>3, <1>4, <1>5, <1>6

LEMMA FromLineCopy ==
  ASSUME NEW x, NEW h, Writable(h), NEW id \in EventType,
         Same(h.name, "Event-Name") => h = Scalar(h.name, <<id>>)
  PROVE  Reread(x, FromLine(x, LineOf(h)), Flat(h), id)
<1> DEFINE l == LineOf(h)
           y == FromLine(x, l)
           e == x.ev
           name == h.name
           items == h.array
           v == h.value
           f == Flat(h)
           r == Identified(e, name, v)
           array == v # <<>> /\ v[1] = ARRAY
<1>1. Copyable(h) /\ l.name = name /\ l.value = v
  BY DEF Writable, LineOf
<1>2. /\ name \in String /\ name # "_body" /\ f.name = name /\ v \in Text /\ v # <<>>
      /\ f \in Header
  BY <1>1, CopyableFacts, FlatFacts
<1> HIDE DEF l
<1>3. CASE ~x.ok
  <2>1. y = x
    BY <1>3, Zenon DEF FromLine
  <2> QED BY <1>3, <2>1 DEF Reread, l
<1>4. CASE x.ok /\ Len(v) > PlainMaxLine
  <2>1. y = Failed(e)
    <3>1. Len(l.value) > PlainMaxLine
      BY <1>1, <1>4
    <3> QED BY <1>4, <3>1, Zenon DEF FromLine
  <2>2. ~y.ok
    BY <2>1 DEF Failed
  <2> QED BY <2>2 DEF Reread, l
<1>5. CASE x.ok /\ ~(Len(v) > PlainMaxLine)
  <2>1. y = IF array /\ r.ok THEN ArrayAdded(r.ev, name, v, "none") ELSE Noted(r, name, v)
    <3>1. y = IF (l.value # <<>> /\ l.value[1] = ARRAY) /\ Identified(x.ev, l.name, l.value).ok
              THEN ArrayAdded(Identified(x.ev, l.name, l.value).ev, l.name, l.value, "none")
              ELSE Noted(Identified(x.ev, l.name, l.value), l.name, l.value)
      <4>1. ~(Len(l.value) > PlainMaxLine)
        BY <1>1, <1>5
      <4> QED BY <1>5, <4>1, Zenon DEF FromLine
    <3> HIDE DEF y, name, v
    <3> QED BY <1>1, <3>1
  <2>2. CASE Len(items) > 1
    <3>1. f = h /\ v = Together(items) /\ Len(v) > 1 /\ h = Piled(name, items) /\ Pushable(items)
      <4>1. items # <<>>
        BY <2>2
      <4> QED BY <1>1, <2>2, <4>1, FlatFacts, CopyableFacts
    <3>2. items \in Seq(Text) /\ Len(v) \in Nat
      BY <1>2, <3>1 DEF Pushable, Text
    <3>3. \A k \in 1 .. Len(items) : ~Has(items[k], SEP)
      BY <3>2 DEF Writable
    <3> HIDE DEF items
    <3>4. v[1] = ARRAY
      BY <2>2, <3>1, <3>2, StandTogether
    <3>5. Pieces(v) = items
      BY <2>2, <3>1, <3>2, <3>3, PiecesTogether
    <3>6. ~Same(name, "Event-Name")
      <4>1. h.array # <<>>
        BY <2>2 DEF items
      <4>2. \A w : Scalar(h.name, w).array = <<>>
        BY DEF Scalar
      <4> QED BY <4>1, <4>2
    <3>7. r = Done(e)
      BY <3>6 DEF Identified
    <3>8. r.ok = TRUE /\ r.ev = e
      BY <3>7 DEF Done
    <3> HIDE DEF r
    <3>9. y = ArrayAdded(e, name, v, "none")
      <4> HIDE DEF y, name, v
      <4> QED BY <1>2, <2>1, <3>4, <3>8
    <3>10. y = AllPushed(e, name, items, "none")
      <4>1. ~(Len(v) < 2)
        BY <3>1, <3>2
      <4> HIDE DEF y, name, v
      <4> QED BY <3>5, <3>9, <4>1 DEF ArrayAdded
    <3>11. ASSUME Sound(e), Free(e.headers, name) PROVE y.ev = Appended(e, h)
      <4> HIDE DEF name, e
      <4>1. AllPushed(e, name, items, "none") = Done(Appended(e, Piled(name, items)))
        BY <1>2, <3>1, <3>11, AllPushedPile
      <4> QED BY <3>1, <3>10, <4>1 DEF Done
    <3>12. Given(e, name, id) = e
      BY <3>6 DEF Given
    <3> HIDE DEF y, e, name
    <3>13. y.ok /\ Sound(e) /\ Free(e.headers, f.name) => y.ev = Appended(Given(e, f.name, id), f)
      BY <1>2, <3>1, <3>11, <3>12
    <3> QED BY <1>5, <3>13 DEF Reread, y, e, l
  <2>3. CASE ~(Len(items) > 1)
    <3>1. f = Scalar(name, v) /\ ~Has(v, ARRAY)
      BY <1>1, <2>3, FlatFacts
    <3>2. v[1] # ARRAY
      <4>1. 1 \in DOMAIN v
        BY <1>2 DEF Text
      <4> HIDE DEF v
      <4> QED BY <3>1, <4>1 DEF Has
    <3>3. y = Noted(r, name, v)
      <4> HIDE DEF y, name, v, r
      <4> QED BY <2>1, <3>2
    <3>4. Same(name, "Event-Name") => v = <<id>>
      <4>1. Scalar(h.name, <<id>>).value = <<id>>
        BY DEF Scalar
      <4> QED BY <4>1
    <3>5. ASSUME y.ok, Sound(e), Free(e.headers, name)
          PROVE  y.ev = Appended(Given(e, name, id), f)
      <4> HIDE DEF e, name, v, y
      <4> QED BY <1>2, <3>1, <3>3, <3>4, <3>5, NotedCopy DEF r
    <3> HIDE DEF y, e, name
    <3>6. y.ok /\ Sound(e) /\ Free(e.headers, f.name) => y.ev = Appended(Given(e, f.name, id), f)
      BY <1>2, <3>5
    <3> QED BY <1>5, <3>6 DEF Reread, y, e, l
  <2> QED BY <2>2, <2>3
<1> QED BY <1>3, <1>4, <1>5

(* The lines of an event, and the body behind them.                        *)
LEMMA PlainLines ==
  ASSUME NEW e, Sound(e), \A i \in DOMAIN e.headers : Copyable(e.headers[i])
  PROVE  LET text == Plain(e)
             none == e.body \in {NULL, <<>>}
             hs == IF none THEN e.headers ELSE Append(e.headers, LengthHeader(e.body))
         IN /\ text.ok = TRUE /\ text.body = IF none THEN <<>> ELSE e.body
            /\ text.lines \in Seq(TextLine) /\ text.body \in Text
            /\ Len(text.lines) = Len(hs) /\ \A i \in 1 .. Len(hs) : text.lines[i] = LineOf(hs[i])
<1> DEFINE s == e.headers
           n == Len(s)
           bad == \E i \in DOMAIN e.headers : e.headers[i].value = NULL
           line(h) == [name |-> h.name, value |-> Shown(h.value)]
           lines == [i \in DOMAIN e.headers |-> line(e.headers[i])]
           length == [name |-> "Content-Length", value |-> LengthOf(e.body)]
           none == e.body \in {NULL, <<>>}
           text == Plain(e)
<1>1. n \in Nat /\ DOMAIN s = 1 .. n /\ s \in Seq(Header)
  BY EventFacts DEF Sound
<1>2. ASSUME NEW i \in DOMAIN s
      PROVE  s[i].value \in Text /\ s[i].value # NULL /\ line(s[i]) = LineOf(s[i])
  <2> DEFINE h == s[i]
  <2>1. Copyable(h)
    OBVIOUS
  <2> HIDE DEF h
  <2>2. h.value \in Text /\ h.value # <<>>
    BY <2>1, FlatFacts
  <2>3. h.value # NULL
    BY <2>2, NullIsNoText
  <2>4. Shown(h.value) = h.value
    BY <2>2 DEF Shown
  <2> QED BY <2>2, <2>3, <2>4 DEF h, LineOf
<1>3. ~bad
  BY <1>2
<1>4. text = IF none THEN [ok |-> TRUE, lines |-> lines, body |-> <<>>]
             ELSE [ok |-> TRUE, body |-> e.body, lines |-> Append(lines, length)]
  <2>1. text = IF bad THEN [ok |-> FALSE]
               ELSE IF none THEN [ok |-> TRUE, lines |-> lines, body |-> <<>>]
               ELSE [ok |-> TRUE, body |-> e.body, lines |-> Append(lines, length)]
    BY Zenon DEF Plain
  <2> HIDE DEF lines, length, bad
  <2> QED BY <1>3, <2>1
<1>5. \A i \in 1 .. n : lines[i] = LineOf(s[i]) /\ LineOf(s[i]) \in TextLine
  <2> TAKE i \in 1 .. n
  <2>1. lines[i] = LineOf(s[i])
    <3> HIDE DEF line
    <3> QED BY <1>1, <1>2
  <2>2. s[i].name \in String
    BY <1>1, HeaderFacts
  <2>3. LineOf(s[i]) \in TextLine
    BY <1>1, <1>2, <2>2 DEF LineOf, TextLine
  <2> QED BY <2>1, <2>3
<1>6. lines \in Seq(TextLine) /\ Len(lines) = n
  <2>1. lines = [i \in 1 .. n |-> lines[i]]
    BY <1>1
  <2> HIDE DEF lines
  <2>2. \A i \in 1 .. n : lines[i] \in TextLine
    BY <1>5
  <2>3. lines \in [1 .. n -> TextLine]
    BY <2>1, <2>2
  <2> QED BY <1>1, <2>3
<1>7. length = LineOf(LengthHeader(e.body)) /\ length \in TextLine
  <2> DEFINE h == LengthHeader(e.body)
  <2>1. h.name = "Content-Length" /\ h.value = LengthOf(e.body)
    BY LengthHeaderFacts
  <2>2. "Content-Length" \in String
    BY EventAssumption
  <2>3. length \in TextLine
    BY <2>2, LengthIsText DEF TextLine
  <2> HIDE DEF h
  <2> QED BY <2>1, <2>3 DEF LineOf, h
<1>8. e.body \in Text \cup {NULL}
  BY EventFacts DEF Sound
<1> HIDE DEF text, lines, length
<1>9. CASE none
  <2>1. text.ok = TRUE /\ text.lines = lines /\ text.body = <<>>
    BY <1>4, <1>9
  <2> QED BY <1>5, <1>6, <1>9, <2>1, TextFacts DEF text
<1>10. CASE ~none
  <2> DEFINE h == LengthHeader(e.body)
             hs == Append(s, h)
             ls == Append(lines, length)
  <2>1. text.ok = TRUE /\ text.lines = ls /\ text.body = e.body
    BY <1>4, <1>10
  <2>2. h \in Header
    BY LengthHeaderFacts DEF Copyable
  <2> HIDE DEF h
  <2>3. /\ Len(hs) = n + 1 /\ Len(ls) = n + 1 /\ hs[n + 1] = h /\ ls[n + 1] = length
        /\ \A i \in 1 .. n : hs[i] = s[i] /\ ls[i] = lines[i]
        /\ ls \in Seq(TextLine)
    BY <1>1, <1>6, <1>7, <2>2
  <2> HIDE DEF hs, ls
  <2>4. ASSUME NEW i \in 1 .. Len(hs) PROVE ls[i] = LineOf(hs[i])
    <3>1. i \in 1 .. n \/ i = n + 1
      BY <1>1, <2>3
    <3> QED BY <1>5, <1>7, <2>3, <3>1 DEF h
  <2>5. e.body \in Text
    BY <1>8, <1>10
  <2> QED BY <1>10, <2>1, <2>3, <2>4, <2>5 DEF text, hs, h
<1> QED BY <1>9, <1>10

LEMMA ShownAlike ==
  ASSUME NEW e, NEW f, DOMAIN e.headers = DOMAIN f.headers, e.id = f.id, e.body = f.body,
         \A i \in DOMAIN f.headers :
           /\ e.headers[i].name = f.headers[i].name /\ e.headers[i].value = f.headers[i].value
           /\ Items(e.headers[i]) = Items(f.headers[i])
  PROVE  Shows(e) = Shows(f)
<1> DEFINE S(g) == [i \in DOMAIN g.headers |->
                      [name |-> g.headers[i].name, value |-> g.headers[i].value,
                       items |-> Items(g.headers[i])]]
<1>1. S(e) = S(f)
  OBVIOUS
<1>2. \A g : Shows(g) = [headers |-> S(g), id |-> g.id, body |-> g.body]
  BY DEF Shows
<1> HIDE DEF S
<1> QED BY <1>1, <1>2

(* The list that comes back.                                               *)
Flats(hs) == [i \in 1 .. Len(hs) |-> Flat(hs[i])]

LEMMA FlatsFacts ==
  ASSUME NEW hs \in Seq(Header), Distinct(hs), \A i \in 1 .. Len(hs) : Copyable(hs[i])
  PROVE  LET fl == Flats(hs)
         IN /\ fl \in Seq(Header) /\ Len(fl) = Len(hs) /\ DOMAIN fl = DOMAIN hs /\ Distinct(fl)
            /\ \A i \in 1 .. Len(hs) :
                 /\ fl[i] = Flat(hs[i]) /\ Solid(fl[i])
                 /\ fl[i].name = hs[i].name /\ fl[i].value = hs[i].value
                 /\ Items(fl[i]) = Items(hs[i])
            /\ \A name : Free(fl, name) <=> Free(hs, name)
<1> DEFINE n == Len(hs)
           fl == Flats(hs)
<1>1. n \in Nat /\ DOMAIN hs = 1 .. n
  OBVIOUS
<1>2. \A i \in 1 .. n : /\ Flat(hs[i]) \in Header /\ Solid(Flat(hs[i]))
                        /\ Flat(hs[i]).name = hs[i].name /\ Flat(hs[i]).value = hs[i].value
                        /\ Items(Flat(hs[i])) = Items(hs[i])
  BY FlatFacts
<1>3. fl = [i \in 1 .. n |-> Flat(hs[i])]
  BY DEF Flats
<1> HIDE DEF fl
<1>4. fl \in Seq(Header) /\ Len(fl) = n /\ DOMAIN fl = 1 .. n
  BY <1>1, <1>2, <1>3
<1>5. \A i \in 1 .. n : fl[i] = Flat(hs[i])
  BY <1>3
<1>6. \A i \in 1 .. n : fl[i].name = hs[i].name
  BY <1>2, <1>5
<1>7. Distinct(fl)
  BY <1>1, <1>4, <1>6 DEF Distinct
<1>8. \A name : Free(fl, name) <=> Free(hs, name)
  BY <1>1, <1>4, <1>6 DEF Free
<1> QED BY <1>1, <1>2, <1>4, <1>5, <1>7, <1>8 DEF fl

LEMMA PlainShows ==
  ASSUME NEW e, Sound(e), Regular(e), SaysItsName(e), Find(e, "Content-Length") = 0,
         Separable(e), FromPlain(Plain(e)).ok
  PROVE  Shows(FromPlain(Plain(e)).ev) = ShownPlain(e)
<1> DEFINE text == Plain(e)
           ls == text.lines
           id == e.id
           body == e.body
           own == "Content-Length"
           none == body \in {NULL, <<>>}
           hs == IF none THEN e.headers ELSE Append(e.headers, LengthHeader(body))
           n == Len(hs)
           fl == Flats(hs)
           shown == IF none THEN [e EXCEPT !.body = NULL] ELSE Announced(e)
           left == IF none THEN NULL ELSE body
           c == Created("CLONE", NULL)
           T == OnTheWay(c)
           r == FromPlain(text)
<1>1. Readable(e.headers, id) /\ Free(e.headers, own)
  BY RegularReadable, FreeFind
<1>2. /\ text.ok = TRUE /\ text.body = IF none THEN <<>> ELSE body
      /\ ls \in Seq(TextLine) /\ Len(ls) = n /\ \A i \in 1 .. n : ls[i] = LineOf(hs[i])
  BY RegularFacts, PlainLines
<1>3. Readable(hs, id)
  BY <1>1, AnnouncedReadable
<1>4. e.headers \in Seq(Header) /\ Len(e.headers) \in Nat
  BY EventFacts DEF Sound
<1>5. shown.headers = hs /\ shown.id = id /\ shown.body = left
  <2>1. CASE none
    <3>1. shown = [e EXCEPT !.body = NULL] /\ hs = e.headers /\ left = NULL
      BY <2>1
    <3> HIDE DEF shown, hs, left
    <3> QED BY <3>1 DEF Sound, Event
  <2>2. CASE ~none
    <3>1. [NewHeader("Content-Length") EXCEPT !.value = LengthOf(e.body)] = LengthHeader(body)
      BY DEF NewHeader, LengthHeader, Scalar
    <3>2. shown = [e EXCEPT !.headers = Append(@, LengthHeader(body))]
      BY <2>2, <3>1 DEF Announced
    <3>3. hs = Append(e.headers, LengthHeader(body)) /\ left = body
      BY <2>2
    <3> HIDE DEF shown, hs, left
    <3> QED BY <3>2, <3>3 DEF Sound, Event
  <2> QED BY <2>1, <2>2
<1>6. ShownPlain(e) = Shows(shown)
  BY DEF ShownPlain
<1>7. \A i \in 1 .. n : \A k \in DOMAIN hs[i].array : ~Has(hs[i].array[k], SEP)
  <2>1. CASE none
    BY <1>4, <2>1 DEF Separable
  <2>2. CASE ~none
    <3> DEFINE h == LengthHeader(body)
    <3>1. h \in Header /\ h.array = <<>>
      BY LengthHeaderFacts DEF Copyable
    <3> HIDE DEF h
    <3>2. hs = Append(e.headers, h)
      BY <2>2 DEF h
    <3> TAKE i \in 1 .. n
    <3>3. (i \in 1 .. Len(e.headers) /\ hs[i] = e.headers[i]) \/ hs[i] = h
      BY <1>4, <3>1, <3>2
    <3>4. CASE i \in 1 .. Len(e.headers) /\ hs[i] = e.headers[i]
      BY <1>4, <3>4 DEF Separable
    <3>5. CASE hs[i] = h
      BY <3>1, <3>5
    <3> QED BY <3>3, <3>4, <3>5
  <2> QED BY <2>1, <2>2
<1>8. ~none => hs[n] = LengthHeader(body) /\ n \in 1 .. n
  <2> DEFINE h == LengthHeader(body)
  <2>1. h \in Header
    BY LengthHeaderFacts DEF Copyable
  <2> HIDE DEF h
  <2>2. ~none => hs = Append(e.headers, h)
    BY DEF h
  <2> QED BY <1>4, <2>1, <2>2 DEF h
<1>9. none => hs = e.headers
  OBVIOUS
<1>10. \A i \in 1 .. Len(ls) : ls[i] \in TextLine
  BY <1>2
<1> HIDE DEF text, hs, shown, id, body
<1>11. Done(c) \in T
  BY CloneFacts
<1>12. \A i \in 1 .. n : \A x \in T : FromLine(x, ls[i]) \in T
  BY <1>2, <1>10, FromLineFacts
<1> HIDE DEF T
<1>13. /\ hs \in Seq(Header) /\ Distinct(hs) /\ n \in Nat /\ id \in EventType
       /\ \A i \in 1 .. n : Copyable(hs[i])
       /\ \A i \in 1 .. n : Same(hs[i].name, "Event-Name") => hs[i] = Scalar(hs[i].name, <<id>>)
  BY <1>3 DEF Readable
<1>14. PICK d : Parses(d, text, T)
  BY <1>2, <1>11, <1>12, <1>13, FromPlainBy
<1>15. /\ d[0] = Done(c) /\ \A i \in 1 .. n : d[i] = FromLine(d[i - 1], ls[i])
  BY <1>2, <1>14 DEF Parses
<1>16. r = FromLines(d[n], text.body) /\ d[n].ok
  <2>1. r = IF ~text.ok \/ Len(text.lines) > PlainMaxHeaders THEN Failed(NULL)
            ELSE FromLines(d[n], text.body)
    BY <1>2, <1>14 DEF Parses
  <2>2. r.ok
    BY DEF text
  <2> HIDE DEF r
  <2>3. r = FromLines(d[n], text.body)
    BY <2>1, <2>2 DEF Failed
  <2>4. d[n].ok
    <3>1. ~d[n].ok => r = Failed(NULL)
      BY <2>3, Zenon DEF FromLines
    <3> QED BY <2>2, <3>1 DEF Failed
  <2> QED BY <2>3, <2>4
<1>17. /\ fl \in Seq(Header) /\ Len(fl) = n /\ DOMAIN fl = DOMAIN hs /\ Distinct(fl)
       /\ \A i \in 1 .. n :
            /\ fl[i] = Flat(hs[i]) /\ Solid(fl[i])
            /\ fl[i].name = hs[i].name /\ fl[i].value = hs[i].value
            /\ Items(fl[i]) = Items(hs[i])
       /\ \A name : Free(fl, name) <=> Free(hs, name)
  BY <1>13, FlatsFacts
<1> HIDE DEF fl
<1>18. \A i \in 1 .. n : Reread(d[i - 1], d[i], fl[i], id)
  <2> TAKE i \in 1 .. n
  <2> DEFINE x == d[i - 1]
             h == hs[i]
  <2>1. d[i] = FromLine(x, LineOf(h))
    BY <1>2, <1>15
  <2>2. Writable(h) /\ (Same(h.name, "Event-Name") => h = Scalar(h.name, <<id>>))
    BY <1>7, <1>13 DEF Writable
  <2> HIDE DEF x, h
  <2>3. Reread(x, FromLine(x, LineOf(h)), Flat(h), id)
    BY <1>13, <2>2, FromLineCopy
  <2> QED BY <1>17, <2>1, <2>3 DEF x, h
<1>19. d[0] = Done(NewEvent("CLONE"))
  BY <1>15, CloneIsNew
<1> DEFINE f == d[n].ev
<1>20. Sound(f) /\ f.headers = fl /\ f.body = NULL /\ f.id = id
  <2>1. /\ Sound(f) /\ f.headers = fl /\ f.body = NULL
        /\ f.id = IF Free(fl, "Event-Name") THEN "CLONE" ELSE id
    <3>1. Len(fl) = n /\ fl \in Seq(Header) /\ Distinct(fl) /\ id \in EventType
      BY <1>13, <1>17
    <3>2. d[Len(fl)].ok /\ d[0] = Done(NewEvent("CLONE"))
      BY <1>16, <1>19, <3>1
    <3>3. \A i \in 1 .. Len(fl) : Solid(fl[i]) /\ Reread(d[i - 1], d[i], fl[i], id)
      BY <1>17, <1>18, <3>1
    <3> DEFINE g == d[Len(fl)].ev
    <3>4. /\ Sound(g) /\ g.headers = fl /\ g.body = NULL
          /\ g.id = IF Free(fl, "Event-Name") THEN "CLONE" ELSE id
      BY <3>1, <3>2, <3>3, ReadBack
    <3>5. g = f
      BY <3>1
    <3> HIDE DEF f, g
    <3> QED BY <3>4, <3>5
  <2>2. Free(fl, "Event-Name") <=> Free(hs, "Event-Name")
    BY <1>17
  <2> QED BY <1>3, <2>1, <2>2, ReadBackId
<1>21. Find(f, own) = 0 <=> Free(hs, own)
  <2> HIDE DEF f
  <2>1. Free(f.headers, own) <=> Find(f, own) = 0
    BY <1>20, FreeFind
  <2> QED BY <1>17, <1>20, <2>1
<1>22. r.ev.headers = fl /\ r.ev.id = id /\ r.ev.body = left
  <2>1. CASE none
    <3>1. Find(f, own) = 0
      BY <1>1, <1>9, <1>21, <2>1
    <3> HIDE DEF own
    <3>2. FromLines(d[n], text.body) = d[n]
      BY <1>16, <3>1 DEF FromLines, own
    <3> QED BY <1>16, <1>20, <2>1, <3>2
  <2>2. CASE ~none
    <3> DEFINE g == [f EXCEPT !.body = body]
    <3>1. text.body = body /\ left = body
      BY <1>2, <2>2
    <3>2. Find(f, own) # 0
      <4>1. hs[n].name = own /\ n \in DOMAIN hs
        BY <1>8, <1>13, <2>2, LengthHeaderFacts
      <4>2. ~Free(hs, own)
        BY <4>1, SameFacts DEF Free
      <4> QED BY <1>21, <4>2
    <3>3. FromLines(d[n], text.body) = WithBody(f, body, "none")
      BY <1>16, <3>1, <3>2 DEF FromLines
    <3>4. WithBody(f, body, "none") = Done(g)
      BY DEF WithBody
    <3>5. r.ev = g
      BY <1>16, <3>3, <3>4 DEF Done
    <3> HIDE DEF f
    <3>6. g.headers = fl /\ g.id = id /\ g.body = body
      BY <1>20 DEF Sound, Event
    <3> QED BY <3>1, <3>5, <3>6
  <2> QED BY <2>1, <2>2
<1> DEFINE q == r.ev
<1>23. /\ q.headers = fl /\ q.id = shown.id /\ q.body = shown.body
  BY <1>5, <1>22
<1> HIDE DEF q
<1>24. Shows(q) = Shows(shown)
  <2>1. DOMAIN q.headers = DOMAIN shown.headers /\ DOMAIN shown.headers = 1 .. n
    BY <1>5, <1>13, <1>17, <1>23
  <2>2. \A i \in DOMAIN shown.headers :
          /\ q.headers[i].name = shown.headers[i].name
          /\ q.headers[i].value = shown.headers[i].value
          /\ Items(q.headers[i]) = Items(shown.headers[i])
    BY <1>5, <1>17, <1>23, <2>1
  <2> QED BY <1>23, <2>1, <2>2, ShownAlike
<1> QED BY <1>6, <1>24 DEF q, text

(* Whatever way an event is copied, the copy shows what the event showed.  *)
LEMMA InOrderCopies == InOrder => CopiesAreFaithful
<1> SUFFICES ASSUME InOrder, ev # NULL, Regular(ev) PROVE CopiesAreFaithful
  BY DEF CopiesAreFaithful
<1>1. Sound(ev)
  BY DEF InOrder
<1>2. SaysItsSubclass(ev) => Duplicate(ev).ok /\ Shows(Duplicate(ev).ev) = ShownDup(ev)
  BY <1>1, DuplicateShows
<1>3. SaysItsName(ev) /\ Find(ev, "Content-Length") = 0 /\ NoBodyMember(ev)
        /\ FromJson(Json(ev)).ok
        => Shows(FromJson(Json(ev)).ev) = ShownJson(ev)
  BY <1>1, JsonShows
<1>4. SaysItsName(ev) /\ Find(ev, "Content-Length") = 0
        /\ FromPlain(Plain(ev)).ok /\ Separable(ev)
        => Shows(FromPlain(Plain(ev)).ev) = ShownPlain(ev)
  BY <1>1, PlainShows
<1> QED BY <1>2, <1>3, <1>4 DEF CopiesAreFaithful

-----------------------------------------------------------------------------
(* Headers that come back as they are when they are copied one by one: no  *)
(* array comes behind another header of its name, and no header at all     *)
(* when the event keeps one of a name.                                     *)
Settled(u, N, hs) ==
  /\ \A i \in 1 .. Len(hs) : Copyable(hs[i]) /\ hs[i].name \in N
  /\ \A i, j \in 1 .. Len(hs) : j < i /\ Same(hs[j].name, hs[i].name)
                                  => hs[i].array = <<>> /\ ~u

LEMMA SettledAppend ==
  ASSUME NEW u, NEW N, NEW s \in Seq(Header), Settled(u, N, s), NEW h, Copyable(h), h.name \in N,
         Free(s, h.name) \/ (h.array = <<>> /\ ~u)
  PROVE  Settled(u, N, Append(s, h))
<1> DEFINE t == Append(s, h)
           n == Len(s)
<1>1. /\ n \in Nat /\ Len(t) = n + 1 /\ t[n + 1] = h /\ DOMAIN s = 1 .. n
      /\ \A i \in 1 .. n : t[i] = s[i]
  OBVIOUS
<1> HIDE DEF t, n
<1>2. \A i \in 1 .. n + 1 : i \in 1 .. n \/ i = n + 1
  BY <1>1
<1>3. \A i \in 1 .. n : Copyable(s[i]) /\ s[i].name \in N
  BY DEF Settled, n
<1>4. \A i, j \in 1 .. n : j < i /\ Same(s[j].name, s[i].name) => s[i].array = <<>> /\ ~u
  BY DEF Settled, n
<1>5. \A i \in 1 .. n + 1 : Copyable(t[i]) /\ t[i].name \in N
  BY <1>1, <1>2, <1>3
<1>6. ASSUME NEW i \in 1 .. n + 1, NEW j \in 1 .. n + 1, j < i, Same(t[j].name, t[i].name)
      PROVE  t[i].array = <<>> /\ ~u
  <2>1. j \in 1 .. n /\ t[j] = s[j]
    BY <1>1, <1>6
  <2>2. CASE i \in 1 .. n
    BY <1>1, <1>4, <1>6, <2>1, <2>2
  <2>3. CASE i = n + 1
    <3>1. Same(s[j].name, h.name) /\ t[i] = h
      BY <1>1, <1>6, <2>1, <2>3
    <3>2. ~Free(s, h.name)
      BY <1>1, <2>1, <3>1 DEF Free
    <3> QED BY <3>1, <3>2
  <2> QED BY <1>2, <2>2, <2>3
<1>7. Settled(u, N, t)
  BY <1>1, <1>5, <1>6 DEF Settled
<1> QED BY <1>7 DEF t

(* What is left of such headers is such again.                             *)
LEMMA SettledOnly ==
  ASSUME NEW u, NEW N, NEW s \in Seq(Header), Settled(u, N, s), NEW S
  PROVE  Settled(u, N, Only(s, S))
<1> DEFINE n == Len(s)
           v(i) == Only(SubSeq(s, 1, i), S)
           G == {i \in 0 .. n : Settled(u, N, v(i))}
<1>0. n \in Nat /\ DOMAIN s = 1 .. n
  OBVIOUS
<1>1. 0 \in G
  <2>1. SubSeq(s, 1, 0) = <<>>
    OBVIOUS
  <2>2. v(0) = <<>>
    BY <2>1, OnlyEmpty
  <2>3. Settled(u, N, <<>>)
    BY DEF Settled
  <2> HIDE DEF v
  <2> QED BY <1>0, <2>2, <2>3
<1>2. ASSUME NEW i \in 1 .. n, i - 1 \in G PROVE i \in G
  <2> DEFINE w == SubSeq(s, 1, i - 1)
             x == s[i]
             o == Only(w, S)
  <2>1. w \in Seq(Header) /\ x \in Header /\ SubSeq(s, 1, i) = Append(w, x)
    BY Grows
  <2>2. Settled(u, N, o) /\ i \in 0 .. n
    BY <1>0, <1>2
  <2>3. \A l \in 1 .. Len(w) : w[l] = s[l] /\ l \in 1 .. n /\ l < i
    OBVIOUS
  <2>4. Copyable(x) /\ x.name \in N
    BY DEF Settled
  <2>5. \A l \in 1 .. Len(w) : Same(w[l].name, x.name) => x.array = <<>> /\ ~u
    <3> TAKE l \in 1 .. Len(w)
    <3>1. w[l] = s[l] /\ l \in 1 .. n /\ l < i
      BY <2>3
    <3> HIDE DEF w
    <3> QED BY <3>1 DEF Settled
  <2> HIDE DEF w, x
  <2>6. o \in Seq(Header)
    BY <2>1, OnlyType
  <2>7. \A k \in 1 .. Len(o) : \E l \in 1 .. Len(w) : o[k] = w[l]
    BY <2>1, OnlyFrom
  <2>8. Only(Append(w, x), S) = IF x \in S THEN Append(o, x) ELSE o
    BY <2>1, OnlyAppend
  <2> HIDE DEF o
  <2>9. Free(o, x.name) \/ (x.array = <<>> /\ ~u)
    <3>1. DOMAIN o = 1 .. Len(o)
      BY <2>6
    <3> QED BY <2>5, <2>7, <3>1 DEF Free
  <2>10. Settled(u, N, Append(o, x))
    BY <2>2, <2>4, <2>6, <2>9, SettledAppend
  <2>11. Settled(u, N, v(i))
    BY <2>1, <2>2, <2>8, <2>10
  <2> QED BY <2>2, <2>11
<1>3. G = 0 .. n
  <2>1. G \in SUBSET (0 .. n)
    OBVIOUS
  <2> HIDE DEF G
  <2> QED BY <1>0, <1>1, <1>2, <2>1, Inductive
<1>4. n \in G /\ SubSeq(s, 1, n) = s
  BY <1>0, <1>3
<1> QED BY <1>4

(* The first header of its name may change in all but its name.            *)
LEMMA SettledPut ==
  ASSUME NEW u, NEW N, NEW s \in Seq(Header), Settled(u, N, s), NEW i \in 1 .. Len(s),
         \A j \in 1 .. Len(s) : j < i => ~Same(s[j].name, s[i].name),
         NEW h, Copyable(h), h.name = s[i].name
  PROVE  [s EXCEPT ![i] = h] \in Seq(Header) /\ Settled(u, N, [s EXCEPT ![i] = h])
<1> DEFINE t == [s EXCEPT ![i] = h]
           n == Len(s)
<1>1. h \in Header
  BY DEF Copyable
<1>2. /\ t \in Seq(Header) /\ Len(t) = n /\ t[i] = h
      /\ \A j \in 1 .. n : j # i => t[j] = s[j]
  BY <1>1
<1> HIDE DEF t
<1>3. \A j \in 1 .. n : t[j].name = s[j].name
  BY <1>2
<1>4. \A j \in 1 .. n : Copyable(t[j]) /\ t[j].name \in N
  BY <1>2, <1>3 DEF Settled
<1>5. ASSUME NEW k \in 1 .. n, NEW j \in 1 .. n, j < k, Same(t[j].name, t[k].name)
      PROVE  t[k].array = <<>> /\ ~u
  <2>1. Same(s[j].name, s[k].name)
    BY <1>3, <1>5
  <2>2. k # i
    BY <1>5, <2>1
  <2>3. t[k] = s[k] /\ s[k].array = <<>> /\ ~u
    BY <1>2, <1>5, <2>1, <2>2 DEF Settled
  <2> QED BY <2>3
<1>6. Settled(u, N, t)
  BY <1>2, <1>4, <1>5 DEF Settled
<1> QED BY <1>2, <1>6 DEF t

(* A header that an element is pushed to can still be copied.              *)
LEMMA PushedCopyable ==
  ASSUME NEW h, Copyable(h), NEW data \in Text
  PROVE  LET r == Pushed(h, data, "none")
         IN r.ok = TRUE /\ Copyable(r.h) /\ r.h.name = h.name
<1> DEFINE r == Pushed(h, data, "none")
           a == Items(h)
<1>1. h \in Header /\ Solid(h) /\ h.name # "_body"
  BY CopyableFacts DEF Copyable
<1>2. Grown(h, r, "none") /\ (Items(r.h) = Append(a, data) \/ ~r.ok)
  BY <1>1, PushedFacts
<1>3. a \in Seq(Text) /\ a # <<>> /\ a[1] \notin {NULL, <<>>} /\ ~Has(a[1], ARRAY)
  <2>1. CASE h.array = <<>>
    <3>1. a = <<h.value>> /\ h.value \in Text
      BY <2>1, CopyableFacts
    <3> QED BY <3>1 DEF Copyable
  <2>2. CASE h.array # <<>>
    <3>1. a = h.array /\ h.array \in Seq(Text)
      BY <1>1, <2>2, CopyableFacts, HeaderFacts
    <3> QED BY <2>2, <3>1 DEF Copyable
  <2> QED BY <2>1, <2>2
<1> HIDE DEF r, a
<1>4. r.h \in Header /\ r.ok = TRUE /\ r.h.name = h.name /\ InStep(r.h)
  BY <1>2 DEF Grown
<1>5. Items(r.h)[1] = a[1]
  <2>1. Append(a, data)[1] = a[1]
    BY <1>3
  <2> QED BY <1>2, <1>4, <2>1
<1>6. Copyable(r.h)
  BY <1>1, <1>3, <1>4, <1>5 DEF Copyable
<1> QED BY <1>4, <1>6 DEF r

(* A new header with its first element.                                    *)
LEMMA FirstCopyable ==
  ASSUME NEW name \in String, name # "_body", NEW data \in Text, data # <<>>, ~Has(data, ARRAY)
  PROVE  /\ Pushed(NewHeader(name), data, "none") = [h |-> Piled(name, <<data>>), ok |-> TRUE]
         /\ Copyable(Piled(name, <<data>>)) /\ Copyable(Scalar(name, data))
<1> DEFINE o == NewHeader(name)
           h == Piled(name, <<data>>)
           g == Scalar(name, data)
<1>1. o \in Header /\ o.name = name /\ o.value = NULL /\ o.array = <<>>
  BY NewHeaderFacts
<1>2. Append(<<>>, data) = <<data>> /\ <<data>> \in Seq(Text) /\ <<data>> # <<>> /\ <<data>>[1] = data
  OBVIOUS
<1>3. data # NULL
  BY NullIsNoText
<1> HIDE DEF o
<1>4. Pushed(o, data, "none") = [h |-> Piled(o.name, Append(o.array, data)), ok |-> TRUE]
  BY <1>1, PushedPile
<1>5. h \in Header /\ h.name = name /\ h.array = <<data>> /\ InStep(h)
  BY <1>2, PiledFacts
<1>6. Items(h) = <<data>>
  BY <1>2, <1>5 DEF Items
<1>7. g \in Header /\ InStep(g) /\ g.name = name /\ g.array = <<>> /\ g.value = data
  BY ScalarFacts DEF Scalar
<1>8. Items(g) = <<data>>
  BY <1>7 DEF Items
<1> HIDE DEF h, g
<1>9. Copyable(h) /\ Copyable(g)
  BY <1>2, <1>3, <1>5, <1>6, <1>7, <1>8 DEF Copyable
<1> QED BY <1>1, <1>2, <1>4, <1>9 DEF h, g, o

-----------------------------------------------------------------------------
(* What the calls that copy leave behind some headers C, none of which has *)
(* one of the names in N.                                                  *)
Apart(C, N) ==
  /\ C \in Seq(Header) /\ N \subseteq String /\ "_body" \notin N
  /\ \A name \in N : Free(C, name)

Trailing(f, C, rest, u, N) ==
  rest \in Seq(Header) /\ f.headers = C \o rest /\ Settled(u, N, rest)

Trails(C, N, g) ==
  {f \in Event : /\ Sound(f) /\ f.id = g.id /\ f.uniq = g.uniq /\ f.subclass = g.subclass
                 /\ \E rest : Trailing(f, C, rest, g.uniq, N)}

LEMMA TrailsOf ==
  ASSUME NEW C, NEW N, NEW g, NEW f, Sound(f), f.id = g.id, f.uniq = g.uniq,
         f.subclass = g.subclass, NEW rest, Trailing(f, C, rest, g.uniq, N)
  PROVE  f \in Trails(C, N, g)
BY DEF Trails, Sound

LEMMA TrailsFacts ==
  ASSUME NEW C, NEW N, NEW g, NEW f \in Trails(C, N, g)
  PROVE  /\ f \in Event /\ Sound(f) /\ f.id = g.id /\ f.uniq = g.uniq /\ f.subclass = g.subclass
         /\ \E rest : Trailing(f, C, rest, g.uniq, N)
BY DEF Trails

LEMMA DeletedList ==
  ASSUME NEW e, Sound(e), NEW name
  PROVE  Deleted(e, name, <<>>).headers = Only(e.headers, OtherHeaders(name))
<1> DEFINE s == e.headers
           n == Len(s)
           gone(h) == Same(h.name, name) /\ (<<>> = <<>> \/ h.value = <<>>)
           K == {h \in Header : ~gone(h)}
<1>1. e \in Event /\ e.last = n /\ s \in Seq(Header) /\ n \in Nat
  BY EventFacts DEF Sound
<1>2. SubSeq(s, 1, n) = s
  BY <1>1
<1>3. (IF n > 0 /\ gone(s[n]) THEN n ELSE e.last) = n
  BY <1>1
<1>4. Deleted(e, name, <<>>) = Listed(e, Only(s, K))
  BY <1>2, <1>3 DEF Deleted, Listed
<1>5. K = OtherHeaders(name)
  BY DEF OtherHeaders
<1>6. \A hs : Listed(e, hs).headers = hs
  BY <1>1 DEF Listed, Event
<1> QED BY <1>4, <1>5, <1>6

LEMMA TrailsDeleted ==
  ASSUME NEW C, NEW N, Apart(C, N), NEW g, NEW f \in Trails(C, N, g), NEW name \in N
  PROVE  LET d == Deleted(f, name, <<>>)
         IN d \in Trails(C, N, g) /\ Free(d.headers, name)
<1> DEFINE d == Deleted(f, name, <<>>)
           K == OtherHeaders(name)
<1>1. /\ Sound(f) /\ f.id = g.id /\ f.uniq = g.uniq /\ f.subclass = g.subclass
      /\ f.headers \in Seq(Header)
  BY TrailsFacts, EventFacts
<1>2. PICK rest : Trailing(f, C, rest, g.uniq, N)
  BY TrailsFacts
<1>3. d.headers = Only(f.headers, K) /\ Sound(d) /\ d.id = f.id /\ d.uniq = f.uniq
      /\ d.subclass = f.subclass
  BY <1>1, DeletedList, DeletedFacts
<1>4. C \in Seq(Header) /\ Only(C, K) = C
  <2>1. C \in Seq(Header) /\ DOMAIN C = 1 .. Len(C)
    BY DEF Apart
  <2>2. \A i \in 1 .. Len(C) : C[i] \in K
    BY <2>1 DEF Apart, Free, OtherHeaders
  <2> HIDE DEF K
  <2> QED BY <2>1, <2>2, OnlyAll
<1>5. rest \in Seq(Header) /\ f.headers = C \o rest /\ Settled(g.uniq, N, rest)
  BY <1>2 DEF Trailing
<1> DEFINE left == Only(rest, K)
<1>6. left \in Seq(Header) /\ Settled(g.uniq, N, left)
  BY <1>5, OnlyType, SettledOnly
<1>7. Only(f.headers, K) = C \o left
  <2> HIDE DEF K
  <2>1. Only(C \o rest, K) = Only(C, K) \o Only(rest, K)
    <3>1. C \in Seq(Header) /\ rest \in Seq(Header)
      BY <1>4, <1>5
    <3> QED BY <3>1, OnlyConcat
  <2> QED BY <1>4, <1>5, <2>1
<1>8. Free(d.headers, name)
  <2>1. \A j \in 1 .. Len(d.headers) : d.headers[j] \in K
    <3> HIDE DEF K, d
    <3> QED BY <1>1, <1>3, OnlyFrom
  <2>2. DOMAIN d.headers = 1 .. Len(d.headers)
    <3> HIDE DEF d
    <3> QED BY <1>3, EventFacts DEF Sound
  <2> HIDE DEF d
  <2> QED BY <2>1, <2>2 DEF Free, OtherHeaders
<1> HIDE DEF d, left
<1>9. d \in Trails(C, N, g)
  <2>1. Trailing(d, C, left, g.uniq, N)
    BY <1>3, <1>6, <1>7 DEF Trailing
  <2>2. Sound(d) /\ d.id = g.id /\ d.uniq = g.uniq /\ d.subclass = g.subclass
    BY <1>1, <1>3
  <2> QED BY <2>1, <2>2, TrailsOf
<1> QED BY <1>8, <1>9 DEF d

LEMMA TrailsCleared ==
  ASSUME NEW C, NEW N, Apart(C, N), NEW g, NEW f \in Trails(C, N, g), NEW name \in N
  PROVE  LET d == Cleared(f, name)
         IN d \in Trails(C, N, g) /\ (g.uniq \/ Free(f.headers, name) => Free(d.headers, name))
<1>1. f.uniq = g.uniq /\ Sound(f)
  BY TrailsFacts
<1>2. CASE g.uniq
  <2>1. Cleared(f, name) = Deleted(f, name, <<>>)
    BY <1>1, <1>2 DEF Cleared
  <2> QED BY <2>1, TrailsDeleted
<1>3. CASE ~g.uniq
  <2>1. Cleared(f, name) = f
    BY <1>1, <1>3 DEF Cleared
  <2> QED BY <1>3, <2>1
<1> QED BY <1>2, <1>3

LEMMA TrailsAppended ==
  ASSUME NEW C, NEW N, Apart(C, N), NEW g, NEW f \in Trails(C, N, g),
         NEW h, Copyable(h), h.name \in N,
         Free(f.headers, h.name) \/ (h.array = <<>> /\ ~g.uniq)
  PROVE  Appended(f, h) \in Trails(C, N, g)
<1> DEFINE d == Appended(f, h)
<1>1. Sound(f) /\ f.id = g.id /\ f.uniq = g.uniq /\ f.subclass = g.subclass
  BY TrailsFacts
<1>2. PICK rest : Trailing(f, C, rest, g.uniq, N)
  BY TrailsFacts
<1>3. h \in Header /\ Solid(h)
  BY CopyableFacts
<1>4. /\ d.headers = Append(f.headers, h) /\ Sound(d) /\ d.id = f.id /\ d.uniq = f.uniq
      /\ d.subclass = f.subclass
  BY <1>1, <1>3, AppendedFacts
<1>5. /\ rest \in Seq(Header) /\ f.headers = C \o rest /\ Settled(g.uniq, N, rest)
      /\ C \in Seq(Header)
  BY <1>2 DEF Trailing, Apart
<1>6. Free(rest, h.name) \/ (h.array = <<>> /\ ~g.uniq)
  <2>1. ASSUME Free(f.headers, h.name) PROVE Free(rest, h.name)
    <3>1. ASSUME NEW i \in DOMAIN rest PROVE ~Same(rest[i].name, h.name)
      <4>1. Len(C) + i \in DOMAIN (C \o rest) /\ (C \o rest)[Len(C) + i] = rest[i]
        BY <1>5
      <4> QED BY <1>5, <2>1, <4>1 DEF Free
    <3> QED BY <3>1 DEF Free
  <2> QED BY <2>1
<1> DEFINE more == Append(rest, h)
<1>7. more \in Seq(Header) /\ Settled(g.uniq, N, more)
  <2>1. more \in Seq(Header)
    BY <1>3, <1>5
  <2> QED BY <1>5, <1>6, <2>1, SettledAppend
<1>8. Append(f.headers, h) = C \o more
  BY <1>3, <1>5, AppendedBehind
<1> HIDE DEF d, more
<1>9. Trailing(d, C, more, g.uniq, N)
  BY <1>4, <1>7, <1>8 DEF Trailing
<1>10. Sound(d) /\ d.id = g.id /\ d.uniq = g.uniq /\ d.subclass = g.subclass
  BY <1>1, <1>4
<1>11. d \in Trails(C, N, g)
  BY <1>9, <1>10, TrailsOf
<1> QED BY <1>11 DEF d

(* Find finds the first header of the name.                                *)
LEMMA FindFirst ==
  ASSUME NEW e, Sound(e), NEW name, Find(e, name) # 0, NEW j \in DOMAIN e.headers,
         j < Find(e, name)
  PROVE  ~Same(e.headers[j].name, name)
<1> DEFINE named == {i \in DOMAIN e.headers : Same(e.headers[i].name, name)}
<1>1. DOMAIN e.headers = 1 .. Len(e.headers) /\ Len(e.headers) \in Nat
  BY EventFacts DEF Sound
<1>2. named \in SUBSET Nat
  BY <1>1
<1>3. Find(e, name) = IF named = {} THEN 0 ELSE CHOOSE i \in named : \A k \in named : i <= k
  BY DEF Find
<1>4. j \in named => Same(e.headers[j].name, name)
  OBVIOUS
<1>5. Same(e.headers[j].name, name) => j \in named
  OBVIOUS
<1> HIDE DEF named
<1>6. named # {}
  BY <1>3
<1>7. \E i \in named : \A k \in named : i <= k
  BY <1>2, <1>6, LeastNatural
<1>8. Find(e, name) \in named /\ \A k \in named : Find(e, name) <= k
  BY <1>3, <1>6, <1>7
<1>9. Find(e, name) \in Nat /\ j \in Nat
  <2>1. Find(e, name) \in Nat
    BY <1>2, <1>8
  <2> QED BY <1>1, <2>1
<1> QED BY <1>5, <1>8, <1>9

(* An item of the second of two lists.                                     *)
LEMMA PutBehind ==
  ASSUME NEW T, NEW s \in Seq(T), NEW t \in Seq(T), NEW p \in 1 .. Len(t), NEW x \in T
  PROVE  [(s \o t) EXCEPT ![Len(s) + p] = x] = s \o [t EXCEPT ![p] = x]
<1> DEFINE m == Len(s)
           n == Len(t)
           u == [t EXCEPT ![p] = x]
           v == s \o t
           a == [v EXCEPT ![m + p] = x]
           b == s \o u
<1>1. m \in Nat /\ n \in Nat
  OBVIOUS
<1>2. /\ u \in Seq(T) /\ Len(u) = n
      /\ \A j \in 1 .. n : u[j] = IF j = p THEN x ELSE t[j]
  OBVIOUS
<1>3. /\ v \in Seq(T) /\ Len(v) = m + n
      /\ \A i \in 1 .. m + n : v[i] = IF i <= m THEN s[i] ELSE t[i - m]
  BY ConcatProperties
<1> HIDE DEF u, v
<1>4. /\ b \in Seq(T) /\ Len(b) = m + n
      /\ \A i \in 1 .. m + n : b[i] = IF i <= m THEN s[i] ELSE u[i - m]
  <2>1. u \in Seq(T)
    BY <1>2
  <2>2. /\ b \in Seq(T) /\ Len(b) = Len(s) + Len(u)
        /\ \A i \in 1 .. Len(s) + Len(u) : b[i] = IF i <= Len(s) THEN s[i] ELSE u[i - Len(s)]
    BY <2>1, ConcatProperties
  <2> HIDE DEF b
  <2> QED BY <1>2, <2>2
<1>5. /\ a \in Seq(T) /\ Len(a) = m + n
      /\ \A i \in 1 .. m + n : a[i] = IF i = m + p THEN x ELSE v[i]
  BY <1>1, <1>3
<1> HIDE DEF a, b, m, n
<1>6. ASSUME NEW i \in 1 .. m + n PROVE a[i] = b[i]
  <2>1. CASE i <= m
    <3>1. i # m + p
      BY <1>1, <2>1
    <3> QED BY <1>3, <1>4, <1>5, <2>1, <3>1
  <2>2. CASE ~(i <= m)
    <3>1. i - m \in 1 .. n /\ (i = m + p <=> i - m = p)
      BY <1>1, <2>2
    <3> QED BY <1>2, <1>3, <1>4, <1>5, <2>2, <3>1
  <2> QED BY <2>1, <2>2
<1>7. a = b
  BY <1>4, <1>5, <1>6
<1> QED BY <1>7 DEF a, b, m, u, v

(* An element is pushed to the first header of the name.                   *)
LEMMA TrailsPushed ==
  ASSUME NEW C, NEW N, Apart(C, N), NEW g, NEW f \in Trails(C, N, g), NEW name \in N,
         Find(f, name) # 0, NEW data \in Text
  PROVE  LET i == Find(f, name)
             r == Kept(f, i, Pushed(f.headers[i], data, "none"))
         IN r.ev \in Trails(C, N, g) /\ r.ok = TRUE
<1> DEFINE i == Find(f, name)
           h == f.headers[i]
           x == Pushed(h, data, "none")
           k == x.h
           d == WithHeader(f, i, k)
<1>1. Sound(f) /\ f.id = g.id /\ f.uniq = g.uniq /\ f.subclass = g.subclass /\ f \in Event
  BY TrailsFacts
<1>2. PICK rest : Trailing(f, C, rest, g.uniq, N)
  BY TrailsFacts
<1>3. /\ rest \in Seq(Header) /\ f.headers = C \o rest /\ Settled(g.uniq, N, rest)
      /\ C \in Seq(Header) /\ Free(C, name)
  BY <1>2 DEF Trailing, Apart
<1>4. i \in DOMAIN f.headers /\ Same(h.name, name)
  BY <1>1, FindFacts
<1>5. \A j \in DOMAIN f.headers : j < i => ~Same(f.headers[j].name, name)
  BY <1>1, FindFirst
<1> HIDE DEF i
<1> DEFINE m == Len(C)
           p == i - m
<1>6. /\ m \in Nat /\ DOMAIN f.headers = 1 .. m + Len(rest) /\ Len(rest) \in Nat
      /\ \A j \in 1 .. m : f.headers[j] = C[j] /\ j \in DOMAIN C
      /\ \A j \in 1 .. Len(rest) : f.headers[m + j] = rest[j]
  BY <1>3
<1>7. p \in 1 .. Len(rest) /\ h = rest[p] /\ i = m + p
  <2>1. ~(i \in 1 .. m)
    BY <1>3, <1>4, <1>6 DEF Free
  <2>2. i \in 1 .. m + Len(rest)
    BY <1>4, <1>6
  <2> HIDE DEF m
  <2>3. p \in 1 .. Len(rest) /\ i = m + p
    BY <1>6, <2>1, <2>2
  <2> HIDE DEF p
  <2> QED BY <1>6, <2>3
<1> HIDE DEF m, p
<1>8. \A j \in 1 .. Len(rest) : j < p => ~Same(rest[j].name, rest[p].name)
  <2> TAKE j \in 1 .. Len(rest)
  <2>1. ASSUME j < p PROVE ~Same(rest[j].name, rest[p].name)
    <3>1. m + j \in DOMAIN f.headers /\ m + j < i /\ f.headers[m + j] = rest[j]
      BY <1>6, <1>7, <2>1
    <3>2. ~Same(rest[j].name, name)
      BY <1>5, <3>1
    <3> QED BY <1>4, <1>7, <3>2, SameFacts
  <2> QED BY <2>1
<1>9. Copyable(h)
  BY <1>3, <1>7 DEF Settled
<1>10. x.ok = TRUE /\ Copyable(k) /\ k.name = h.name
  <2> HIDE DEF h
  <2> QED BY <1>9, PushedCopyable
<1>11. k \in Header /\ Solid(k)
  <2> HIDE DEF k
  <2> QED BY <1>10, CopyableFacts
<1>12. Kept(f, i, x) = [ev |-> d, ok |-> x.ok]
  BY Zenon DEF Kept, WithHeader
<1> HIDE DEF x, k
<1> DEFINE more == [rest EXCEPT ![p] = k]
<1>13. more \in Seq(Header) /\ Settled(g.uniq, N, more)
  BY <1>3, <1>7, <1>8, <1>10, SettledPut
<1>14. d.headers = [f.headers EXCEPT ![i] = k]
  BY <1>1 DEF WithHeader, Event
<1>15. [f.headers EXCEPT ![i] = k] = C \o more
  <2> HIDE DEF p
  <2>1. [(C \o rest) EXCEPT ![Len(C) + p] = k] = C \o [rest EXCEPT ![p] = k]
    BY <1>3, <1>7, <1>11, PutBehind
  <2> QED BY <1>3, <1>7, <2>1 DEF m
<1> HIDE DEF more
<1>16. Sound(d)
  <2>1. k.name = f.headers[i].name
    BY <1>10
  <2> QED BY <1>1, <1>4, <1>11, <2>1, Replaced
<1>17. d.id = g.id /\ d.uniq = g.uniq /\ d.subclass = g.subclass
  BY <1>1 DEF WithHeader, Event
<1> HIDE DEF d
<1>18. Trailing(d, C, more, g.uniq, N)
  BY <1>13, <1>14, <1>15 DEF Trailing
<1>19. d \in Trails(C, N, g)
  BY <1>16, <1>17, <1>18, TrailsOf
<1> HIDE DEF h
<1>20. Kept(f, i, x).ev = d /\ Kept(f, i, x).ok = TRUE
  BY <1>10, <1>12
<1> QED BY <1>19, <1>20 DEF x, h, i

(* One push.                                                               *)
LEMMA TrailsWhole ==
  ASSUME NEW C, NEW N, Apart(C, N), NEW g, NEW f \in Trails(C, N, g), NEW name \in N,
         NEW data \in Text, ~IsCut(f, "PUSH", name, data, "none")
  PROVE  LET r == AddedWhole(f, "PUSH", name, data, "none")
         IN r.ev \in Trails(C, N, g) /\ r.ok \in BOOLEAN
<1> DEFINE push == "PUSH"
           x == "none"
           i == Find(f, name)
           r == AddedWhole(f, push, name, data, x)
<1>1. /\ x # "copy" /\ x # "new" /\ HasPushOrUnshift(push) /\ ~HasTop(push)
      /\ HasPush(WithoutTop(push))
  BY DEF HasPushOrUnshift, HasTop, HasPush, WithoutTop
<1>2. Sound(f) /\ name \in String /\ name # "_body"
  BY TrailsFacts DEF Apart
<1>3. Extends(f, push, name) <=> i # 0
  BY <1>1 DEF Extends
<1> HIDE DEF push
<1>4. CASE i # 0
  <2> DEFINE y == Pushed(f.headers[i], data, x)
  <2>1. r = Extended(f, i, push, data, x)
    BY <1>1, <1>2, <1>3, <1>4 DEF AddedWhole
  <2>2. Extended(f, i, push, data, x) = Kept(f, i, y)
    BY <1>1 DEF Extended
  <2>3. Kept(f, i, y).ev \in Trails(C, N, g) /\ Kept(f, i, y).ok = TRUE
    BY <1>4, TrailsPushed
  <2> HIDE DEF r, y, i, x
  <2> QED BY <2>1, <2>2, <2>3 DEF r, push, x
<1>5. CASE i = 0 /\ data = <<>>
  <2>1. r = Done(Deleted(f, name, <<>>))
    BY <1>1, <1>2, <1>3, <1>5 DEF AddedWhole
  <2>2. Deleted(f, name, <<>>) \in Trails(C, N, g)
    BY TrailsDeleted
  <2>3. \A e : Done(e).ev = e /\ Done(e).ok = TRUE
    BY DEF Done
  <2> HIDE DEF r, i, x
  <2>4. r.ev \in Trails(C, N, g) /\ r.ok = TRUE
    BY <2>1, <2>2, <2>3
  <2> QED BY <2>4 DEF r, push, x
<1>6. CASE i = 0 /\ data # <<>>
  <2> DEFINE c == Cleared(f, name)
             y == Pushed(NewHeader(name), data, x)
             h == Piled(name, <<data>>)
  <2>1. r = Joined(c, push, name, data, x)
    BY <1>1, <1>2, <1>3, <1>6 DEF AddedWhole
  <2>2. Joined(c, push, name, data, x) = Accepted(c, push, y)
    BY <1>1 DEF Joined
  <2>3. ~Has(data, ARRAY)
    BY <1>1, <1>2, <1>3, <1>6 DEF IsCut, push
  <2>4. y = [h |-> h, ok |-> TRUE] /\ Copyable(h)
    BY <1>2, <1>6, <2>3, FirstCopyable
  <2>5. h.name = name /\ h \in Header
    BY <2>4 DEF Copyable, Piled
  <2>6. Free(f.headers, name)
    BY <1>2, <1>6, FreeFind
  <2>7. c \in Trails(C, N, g) /\ Free(c.headers, name)
    BY <2>6, TrailsCleared
  <2> HIDE DEF c, y, h
  <2>8. Accepted(c, push, y) = Done(Inserted(c, push, h))
    BY <2>4 DEF Accepted
  <2>9. Inserted(c, push, h) = Appended(c, h)
    BY <1>1, <2>5, <2>7, TrailsFacts, InsertedBehind
  <2>10. Appended(c, h) \in Trails(C, N, g)
    BY <2>4, <2>5, <2>7, TrailsAppended
  <2>11. \A e : Done(e).ev = e /\ Done(e).ok = TRUE
    BY DEF Done
  <2> HIDE DEF r, i, x
  <2>12. r.ev \in Trails(C, N, g) /\ r.ok = TRUE
    BY <2>1, <2>2, <2>8, <2>9, <2>10, <2>11
  <2> QED BY <2>12 DEF r, push, x
<1> QED BY <1>4, <1>5, <1>6

(* All pushes of an array.                                                 *)
PushTrails(C, N, g) ==
  {r \in [ev : Event, ok : BOOLEAN, todo : Seq(Text)] : r.ev \in Trails(C, N, g)}

LEMMA TrailsTurn ==
  ASSUME NEW C, NEW N, Apart(C, N), NEW g, NEW name \in N, NEW r \in PushTrails(C, N, g)
  PROVE  Turn(r, name, "none") \in PushTrails(C, N, g)
<1> DEFINE data == Head(r.todo)
           x == "none"
           f == r.ev
           whole == AddedWhole(f, "PUSH", name, data, x)
           clear == Cleared(f, name)
<1>1. /\ r.ok \in BOOLEAN /\ r.todo \in Seq(Text) /\ f \in Trails(C, N, g)
  BY DEF PushTrails
<1>2. (IF Len(r.todo) = 1 THEN x ELSE "none") = x
  OBVIOUS
<1>3. \A e, ok, todo : e \in Trails(C, N, g) /\ ok \in BOOLEAN /\ todo \in Seq(Text)
                         => [ev |-> e, ok |-> ok, todo |-> todo] \in PushTrails(C, N, g)
  BY DEF PushTrails, Trails
<1>4. CASE ~r.ok \/ r.todo = <<>>
  BY <1>4 DEF Turn
<1>5. CASE r.ok /\ r.todo # <<>> /\ IsCut(f, "PUSH", name, data, x)
  <2> DEFINE todo == IF Len(data) > 1 THEN Pieces(data) \o Tail(r.todo) ELSE <<>>
             ok == Len(data) > 1
  <2>1. Turn(r, name, x) = [ev |-> clear, ok |-> ok, todo |-> todo]
    BY <1>2, <1>5 DEF Turn
  <2>2. data \in Text /\ Tail(r.todo) \in Seq(Text) /\ ok \in BOOLEAN
    BY <1>1, <1>5
  <2>3. todo \in Seq(Text)
    <3>1. CASE ok
      <4> HIDE DEF data
      <4>1. Pieces(data) \in Seq(Text)
        BY <2>2, <3>1, PiecesType
      <4> QED BY <2>2, <3>1, <4>1, ConcatProperties
    <3>2. CASE ~ok
      BY <3>2
    <3> QED BY <3>1, <3>2
  <2>4. clear \in Trails(C, N, g)
    <3> HIDE DEF f
    <3> QED BY <1>1, TrailsCleared
  <2> HIDE DEF todo, ok, clear
  <2> QED BY <1>3, <2>1, <2>2, <2>3, <2>4
<1>6. CASE r.ok /\ r.todo # <<>> /\ ~IsCut(f, "PUSH", name, data, x)
  <2> DEFINE rest == Tail(r.todo)
  <2>1. Turn(r, name, x) = [ev |-> whole.ev, ok |-> whole.ok, todo |-> rest]
    BY <1>2, <1>6 DEF Turn
  <2>2. data \in Text /\ rest \in Seq(Text)
    BY <1>1, <1>6
  <2>3. whole.ev \in Trails(C, N, g) /\ whole.ok \in BOOLEAN
    <3> HIDE DEF f, data
    <3> QED BY <1>1, <1>6, <2>2, TrailsWhole
  <2> HIDE DEF whole, rest
  <2> QED BY <1>3, <2>1, <2>2, <2>3
<1> QED BY <1>4, <1>5, <1>6

LEMMA TrailsAllPushed ==
  ASSUME NEW C, NEW N, Apart(C, N), NEW g, NEW f \in Trails(C, N, g), NEW name \in N,
         NEW items \in Seq(Text)
  PROVE  LET r == AllPushed(f, name, items, "none")
         IN r.ev \in Trails(C, N, g) /\ r.ok \in BOOLEAN
<1> DEFINE T == PushTrails(C, N, g)
           n == Enough(items)
           x == "none"
<1>1. Begun(f, items) \in T
  BY DEF Begun, PushTrails, Trails
<1>2. \A r \in T : Turn(r, name, x) \in T
  BY TrailsTurn
<1> HIDE DEF T, x
<1>3. PICK d : Pushes(d, f, name, items, x, T)
  BY <1>1, <1>2, AllPushedBy
<1>4. n \in 0 .. n
  BY EnoughType
<1> HIDE DEF n
<1>5. d[n] \in T /\ AllPushed(f, name, items, x) = [ev |-> d[n].ev, ok |-> d[n].ok]
  BY <1>3, <1>4 DEF Pushes, n
<1>6. d[n].ev \in Trails(C, N, g) /\ d[n].ok \in BOOLEAN
  BY <1>5 DEF T, PushTrails
<1> QED BY <1>5, <1>6 DEF x

LEMMA TrailsCut ==
  ASSUME NEW C, NEW N, Apart(C, N), NEW g, NEW f \in Trails(C, N, g), NEW name \in N,
         NEW val \in Text
  PROVE  LET r == ArrayAdded(f, name, val, "none")
         IN r.ev \in Trails(C, N, g) /\ r.ok \in BOOLEAN
<1> DEFINE x == "none"
<1>1. CASE Len(val) < 2
  <2>1. ArrayAdded(f, name, val, x) = Failed(f)
    BY <1>1 DEF ArrayAdded
  <2>2. Failed(f).ev = f /\ Failed(f).ok = FALSE
    BY DEF Failed
  <2> HIDE DEF x
  <2>3. ArrayAdded(f, name, val, x).ev \in Trails(C, N, g)
        /\ ArrayAdded(f, name, val, x).ok \in BOOLEAN
    BY <2>1, <2>2
  <2> QED BY <2>3 DEF x
<1>2. CASE ~(Len(val) < 2)
  <2> DEFINE items == Pieces(val)
  <2>1. ArrayAdded(f, name, val, x) = AllPushed(f, name, items, x)
    BY <1>2 DEF ArrayAdded
  <2>2. Len(val) > 1
    BY <1>2 DEF Text
  <2>3. items \in Seq(Text)
    BY <2>2, PiecesType
  <2> HIDE DEF items
  <2> QED BY <2>1, <2>3, TrailsAllPushed
<1> QED BY <1>1, <1>2

(* A header with a value is added.                                         *)
LEMMA TrailsAdded ==
  ASSUME NEW C, NEW N, Apart(C, N), NEW g, NEW f \in Trails(C, N, g), NEW name \in N,
         NEW data \in Text
  PROVE  LET r == Added(f, "BOTTOM", name, data, "none")
         IN r.ev \in Trails(C, N, g) /\ r.ok \in BOOLEAN
<1> DEFINE b == "BOTTOM"
           x == "none"
           c == Cleared(f, name)
           r == Added(f, b, name, data, x)
<1>1. ~HasTop(b) /\ ~HasPushOrUnshift(b) /\ x # "copy" /\ x # "new"
  BY DEF HasTop, HasPushOrUnshift
<1>2. Sound(f) /\ f.uniq = g.uniq /\ name \in String /\ name # "_body"
  BY TrailsFacts DEF Apart
<1>3. ~Extends(f, b, name)
  BY <1>1 DEF Extends
<1>4. c \in Trails(C, N, g) /\ (g.uniq => Free(c.headers, name))
  BY TrailsCleared
<1>5. \A e : Done(e).ev = e /\ Done(e).ok = TRUE
  BY DEF Done
<1> HIDE DEF b, c
<1>6. CASE IsCut(f, b, name, data, x)
  <2>1. r = ArrayAdded(c, name, data, x)
    BY <1>6 DEF Added, c
  <2>2. ArrayAdded(c, name, data, x).ev \in Trails(C, N, g) /\ ArrayAdded(c, name, data, x).ok \in BOOLEAN
    BY <1>4, TrailsCut
  <2> HIDE DEF r, x
  <2>3. r.ev \in Trails(C, N, g) /\ r.ok \in BOOLEAN
    BY <2>1, <2>2
  <2> QED BY <2>3 DEF r, b, x
<1>7. CASE ~IsCut(f, b, name, data, x)
  <2>1. r = AddedWhole(f, b, name, data, x)
    BY <1>7 DEF Added
  <2>2. ~Has(data, ARRAY)
    BY <1>1, <1>2, <1>3, <1>7 DEF IsCut
  <2>3. CASE data = <<>>
    <3>1. r = Done(Deleted(f, name, <<>>))
      BY <1>1, <1>2, <1>3, <2>1, <2>3 DEF AddedWhole
    <3>2. Deleted(f, name, <<>>) \in Trails(C, N, g)
      BY TrailsDeleted
    <3> HIDE DEF r, x
    <3>3. r.ev \in Trails(C, N, g) /\ r.ok = TRUE
      BY <1>5, <3>1, <3>2
    <3> QED BY <3>3 DEF r, b, x
  <2>4. CASE data # <<>>
    <3> DEFINE h == Scalar(name, data)
    <3>1. r = Joined(c, b, name, data, x)
      BY <1>1, <1>2, <1>3, <2>1, <2>4 DEF AddedWhole, c
    <3>2. [NewHeader(name) EXCEPT !.value = data] = h
      BY DEF NewHeader, Scalar
    <3>3. Joined(c, b, name, data, x) = Done(Inserted(c, b, h))
      BY <1>1, <3>2 DEF Joined
    <3>4. Copyable(h)
      BY <1>2, <2>2, <2>4, FirstCopyable
    <3>5. h \in Header /\ h.name = name /\ h.array = <<>>
      BY <3>4 DEF Copyable, Scalar
    <3> HIDE DEF h
    <3>6. Inserted(c, b, h) = Appended(c, h)
      BY <1>1, <1>4, <3>5, TrailsFacts, InsertedBehind
    <3>7. Free(c.headers, h.name) \/ (h.array = <<>> /\ ~g.uniq)
      BY <1>4, <3>5
    <3>8. Appended(c, h) \in Trails(C, N, g)
      BY <1>4, <3>4, <3>5, <3>7, TrailsAppended
    <3> HIDE DEF r, x
    <3>9. r.ev \in Trails(C, N, g) /\ r.ok = TRUE
      BY <1>5, <3>1, <3>3, <3>6, <3>8
    <3> QED BY <3>9 DEF r, b, x
  <2> QED BY <2>3, <2>4
<1> QED BY <1>6, <1>7

(* All headers that are copied.                                            *)
Results(C, N, g) == {r \in [ev : Event, ok : BOOLEAN] : r.ev \in Trails(C, N, g)}

LEMMA TrailsTransferred ==
  ASSUME NEW C, NEW N, Apart(C, N), NEW g, NEW acc \in Results(C, N, g), NEW h \in Header,
         h.name \in N
  PROVE  Transferred(acc, h) \in Results(C, N, g)
<1> DEFINE f == acc.ev
           r == Transferred(acc, h)
           name == h.name
           items == h.array
           v == h.value
<1>1. f \in Trails(C, N, g) /\ acc.ok \in BOOLEAN /\ Shape(acc)
  BY DEF Results, Shape
<1>2. Shape(r)
  BY <1>1, ShapeFacts DEF Transferred
<1>3. items \in Seq(Text) /\ v \in Text \cup {NULL}
  BY HeaderFacts
<1>4. \A x : Shape(x) /\ x.ev \in Trails(C, N, g) /\ x.ok \in BOOLEAN => x \in Results(C, N, g)
  BY DEF Results, Shape, Trails
<1> HIDE DEF name, items, v, f
<1>5. CASE ~acc.ok
  BY <1>5 DEF Transferred
<1>6. CASE acc.ok /\ items # <<>>
  <2>1. r = AllPushed(f, name, items, "none")
    BY <1>6 DEF Transferred, f, name, items
  <2>2. LET y == AllPushed(f, name, items, "none")
        IN y.ev \in Trails(C, N, g) /\ y.ok \in BOOLEAN
    BY <1>1, <1>3, TrailsAllPushed DEF name
  <2> HIDE DEF r
  <2>3. r.ev \in Trails(C, N, g) /\ r.ok \in BOOLEAN
    BY <2>1, <2>2
  <2> QED BY <1>2, <1>4, <2>3 DEF r
<1>7. CASE acc.ok /\ items = <<>> /\ v = NULL
  <2>1. r = Failed(f)
    BY <1>7 DEF Transferred, f, items, v
  <2>2. Failed(f).ev = f /\ Failed(f).ok = FALSE
    BY DEF Failed
  <2> HIDE DEF r
  <2>3. r.ev \in Trails(C, N, g) /\ r.ok \in BOOLEAN
    BY <1>1, <2>1, <2>2
  <2> QED BY <1>2, <1>4, <2>3 DEF r
<1>8. CASE acc.ok /\ items = <<>> /\ v # NULL
  <2>1. r = Added(f, "BOTTOM", name, v, "none")
    BY <1>8 DEF Transferred, f, name, items, v
  <2>2. LET y == Added(f, "BOTTOM", name, v, "none")
        IN y.ev \in Trails(C, N, g) /\ y.ok \in BOOLEAN
    BY <1>1, <1>3, <1>8, TrailsAdded DEF name
  <2> HIDE DEF r
  <2>3. r.ev \in Trails(C, N, g) /\ r.ok \in BOOLEAN
    BY <2>1, <2>2
  <2> QED BY <1>2, <1>4, <2>3 DEF r
<1> QED BY <1>1, <1>5, <1>6, <1>7, <1>8

LEMMA TrailsCopied ==
  ASSUME NEW C, NEW N, Apart(C, N), NEW g, NEW f \in Trails(C, N, g), NEW hs \in Seq(Header),
         \A i \in 1 .. Len(hs) : hs[i].name \in N
  PROVE  AllTransferred(f, hs) \in Results(C, N, g)
<1> DEFINE T == Results(C, N, g)
           n == Len(hs)
<1>1. Done(f) \in T
  BY DEF Done, Results, Trails
<1>2. n \in Nat /\ \A i \in 1 .. n : hs[i] \in Header
  OBVIOUS
<1>3. ASSUME NEW i \in 1 .. n, NEW x \in T PROVE Transferred(x, hs[i]) \in T
  BY <1>2, TrailsTransferred
<1> HIDE DEF T
<1>4. PICK d : Transfers(d, f, hs, T)
  BY <1>1, <1>2, <1>3, AllTransferredBy
<1> QED BY <1>2, <1>4 DEF Transfers, T

(* The new event that a duplicate begins with has one header at most, and  *)
(* no other name in any case.                                              *)
LEMMA CloneOwn ==
  ASSUME NEW subclass \in Text \cup {NULL}
  PROVE  LET c == Created("CLONE", subclass)
         IN /\ Sound(c) /\ c.subclass = subclass
            /\ subclass = NULL => c.headers = <<>>
            /\ \A i \in 1 .. Len(c.headers) : c.headers[i].name = "Event-Subclass"
<1> DEFINE o == NewEvent("CLONE")
           c == Created("CLONE", subclass)
           g == [o EXCEPT !.subclass = subclass]
           own == "Event-Subclass"
           C == <<>>
           N == {own}
<1>1. Sound(o) /\ o.headers = <<>> /\ o.subclass = NULL
  BY CloneIsEventType, NewEventParts
<1>2. c = OfSubclass(o, subclass)
  BY DEF Created
<1> HIDE DEF o
<1>3. CASE subclass = NULL
  <2>1. c = o
    BY <1>2, <1>3 DEF OfSubclass
  <2> HIDE DEF c
  <2>2. Len(c.headers) = 0
    BY <1>1, <2>1
  <2> QED BY <1>1, <1>3, <2>1, <2>2 DEF c
<1>4. CASE subclass # NULL
  <2>1. c = Added(g, "BOTTOM", own, subclass, "none").ev
    BY <1>2, <1>4 DEF OfSubclass
  <2>2. /\ g \in Event /\ g.headers = <<>> /\ g.last = o.last /\ g.subclass = subclass
    BY <1>1 DEF Sound, Event
  <2> HIDE DEF g
  <2>3. Sound(g)
    BY <1>1, <2>2 DEF Sound
  <2>4. Apart(C, N)
    <3>1. own \in String /\ own # "_body" /\ C \in Seq(Header)
      BY EventAssumption
    <3> QED BY <3>1 DEF Apart, Free
  <2>5. g \in Trails(C, N, g)
    <3>1. Trailing(g, C, <<>>, g.uniq, N)
      <4>1. <<>> \in Seq(Header) /\ C \o <<>> = <<>>
        OBVIOUS
      <4>2. Settled(g.uniq, N, <<>>)
        BY DEF Settled
      <4> QED BY <2>2, <4>1, <4>2 DEF Trailing
    <3> QED BY <2>3, <3>1, TrailsOf
  <2>6. c \in Trails(C, N, g)
    <3>1. subclass \in Text /\ own \in N
      BY <1>4
    <3> HIDE DEF C, N, own, c
    <3> QED BY <2>1, <2>4, <2>5, <3>1, TrailsAdded
  <2> HIDE DEF c
  <2>7. Sound(c) /\ c.subclass = g.subclass
    BY <2>6, TrailsFacts
  <2>8. PICK rest : Trailing(c, C, rest, g.uniq, N)
    BY <2>6, TrailsFacts
  <2>9. rest \in Seq(Header) /\ c.headers = C \o rest /\ Settled(g.uniq, N, rest)
    BY <2>8 DEF Trailing
  <2>10. C \o rest = rest
    BY <2>9
  <2>11. \A i \in 1 .. Len(rest) : rest[i].name = own
    BY <2>9 DEF Settled
  <2> QED BY <1>4, <2>2, <2>7, <2>9, <2>10, <2>11 DEF c
<1> QED BY <1>3, <1>4

LEMMA OnlyNone ==
  ASSUME NEW T, NEW s \in Seq(T), NEW S, \A i \in 1 .. Len(s) : s[i] \notin S
  PROVE  Only(s, S) = <<>>
<1>1. Only(s, S) \in Seq(T)
  BY OnlyType
<1>2. ASSUME 1 \in 1 .. Len(Only(s, S)) PROVE FALSE
  <2>1. Only(s, S)[1] \in S /\ \E i \in 1 .. Len(s) : Only(s, S)[1] = s[i]
    BY <1>2, OnlyFrom
  <2> QED BY <2>1
<1> QED BY <1>1, <1>2

(* Headers that are settled can be copied behind those that are apart.     *)
LEMMA SettledBehind ==
  ASSUME NEW C, NEW N, Apart(C, N), NEW u, NEW rest \in Seq(Header), Settled(u, N, rest),
         NEW i \in 1 .. Len(rest)
  PROVE  Free(C \o SubSeq(rest, 1, i - 1), rest[i].name) \/ (~u /\ rest[i].array = <<>>)
<1> DEFINE v == SubSeq(rest, 1, i - 1)
           x == rest[i]
<1>1. SUFFICES ASSUME ~(~u /\ x.array = <<>>) PROVE Free(C \o v, x.name)
  OBVIOUS
<1>2. C \in Seq(Header) /\ Free(C, x.name)
  <2>1. x.name \in N
    BY DEF Settled
  <2> QED BY <2>1 DEF Apart
<1>3. v \in Seq(Header) /\ Len(v) = i - 1
      /\ \A j \in 1 .. Len(v) : v[j] = rest[j] /\ j \in 1 .. Len(rest) /\ j < i
  OBVIOUS
<1>4. \A j \in 1 .. Len(v) : ~Same(v[j].name, x.name)
  <2> TAKE j \in 1 .. Len(v)
  <2>1. v[j] = rest[j] /\ j \in 1 .. Len(rest) /\ j < i
    BY <1>3
  <2> HIDE DEF v
  <2> QED BY <1>1, <2>1 DEF Settled
<1> HIDE DEF v
<1>5. ASSUME NEW k \in DOMAIN (C \o v) PROVE ~Same((C \o v)[k].name, x.name)
  <2>1. CASE k \in 1 .. Len(C)
    <3>1. (C \o v)[k] = C[k] /\ k \in DOMAIN C
      BY <1>2, <1>3, <2>1
    <3> QED BY <1>2, <3>1 DEF Free
  <2>2. CASE k \notin 1 .. Len(C)
    <3>1. k - Len(C) \in 1 .. Len(v) /\ (C \o v)[k] = v[k - Len(C)]
      BY <1>2, <1>3, <2>2
    <3> QED BY <1>4, <3>1
  <2> QED BY <2>1, <2>2
<1> QED BY <1>5 DEF Free

(* What a duplicate of an event begins with.                               *)
CloneOf(e) == [Created("CLONE", e.subclass) EXCEPT !.id = e.id, !.uniq = e.uniq]

LEMMA CloneOfFacts ==
  ASSUME NEW e, Sound(e)
  PROVE  LET g == CloneOf(e)
         IN /\ Sound(g) /\ g.id = e.id /\ g.uniq = e.uniq /\ g.subclass = e.subclass
            /\ e.subclass = NULL => g.headers = <<>>
            /\ \A i \in 1 .. Len(g.headers) : g.headers[i].name = "Event-Subclass"
<1> DEFINE c == Created("CLONE", e.subclass)
           g == CloneOf(e)
<1>1. e.subclass \in Text \cup {NULL} /\ e.id \in EventType /\ e.uniq \in BOOLEAN
  BY EventFacts DEF Sound
<1>2. /\ Sound(c) /\ c.subclass = e.subclass
      /\ e.subclass = NULL => c.headers = <<>>
      /\ \A i \in 1 .. Len(c.headers) : c.headers[i].name = "Event-Subclass"
  BY <1>1, CloneOwn
<1>3. g = [c EXCEPT !.id = e.id, !.uniq = e.uniq]
  BY DEF CloneOf
<1> HIDE DEF c, g
<1>4. /\ g \in Event /\ g.headers = c.headers /\ g.last = c.last /\ g.subclass = c.subclass
      /\ g.id = e.id /\ g.uniq = e.uniq
  BY <1>1, <1>2, <1>3 DEF Sound, Event
<1>5. Sound(g)
  BY <1>2, <1>4 DEF Sound
<1> QED BY <1>2, <1>4, <1>5 DEF g

(* The names of the headers that a duplicate copies one by one.            *)
CopiedName(e) ==
  {name \in String : /\ name # "_body"
                     /\ e.subclass = NULL \/ ~Same(name, "Event-Subclass")}

LEMMA CloneApart ==
  ASSUME NEW e, Sound(e)
  PROVE  Apart(CloneOf(e).headers, CopiedName(e))
<1> DEFINE C == CloneOf(e).headers
<1>1. Sound(CloneOf(e))
      /\ (e.subclass = NULL => C = <<>>)
      /\ \A i \in 1 .. Len(C) : C[i].name = "Event-Subclass"
  BY CloneOfFacts
<1>2. C \in Seq(Header) /\ DOMAIN C = 1 .. Len(C)
  BY <1>1, EventFacts DEF Sound
<1> HIDE DEF C
<1>3. ASSUME NEW name \in CopiedName(e) PROVE Free(C, name)
  <2>1. CASE e.subclass = NULL
    BY <1>1, <2>1 DEF Free
  <2>2. CASE e.subclass # NULL
    <3>1. ~Same(name, "Event-Subclass")
      BY <1>3, <2>2 DEF CopiedName
    <3>2. ASSUME NEW i \in DOMAIN C PROVE ~Same(C[i].name, name)
      <4>1. C[i].name = "Event-Subclass"
        BY <1>1, <1>2
      <4> QED BY <3>1, <4>1, SameFacts
    <3> QED BY <3>2 DEF Free
  <2> QED BY <2>1, <2>2
<1>4. CopiedName(e) \subseteq String /\ "_body" \notin CopiedName(e)
  BY DEF CopiedName
<1> QED BY <1>2, <1>3, <1>4 DEF Apart, C

(* A duplicate of a sound event is its first header and settled ones.      *)
LEMMA DuplicateTrails ==
  ASSUME NEW e, Sound(e), NoBodyHeader(e),
         SpellsItsSubclass(e), Duplicate(e).ok
  PROVE  LET d == Duplicate(e).ev
             g == CloneOf(e)
         IN /\ Sound(d) /\ d.id = e.id /\ d.uniq = e.uniq /\ d.subclass = e.subclass
            /\ \E rest : Trailing(d, g.headers, rest, e.uniq, CopiedName(e))
<1> DEFINE s == e.headers
           own == "Event-Subclass"
           K == {h \in Header : e.subclass = NULL \/ h.name # own}
           hs == CopiedHeaders(e)
           g == CloneOf(e)
           C == g.headers
           N == CopiedName(e)
           r == AllTransferred(g, hs)
           d == [r.ev EXCEPT !.body = e.body]
<1>1. s \in Seq(Header) /\ DOMAIN s = 1 .. Len(s) /\ e.body \in Text \cup {NULL}
  BY EventFacts DEF Sound
<1>2. hs = Only(s, K)
  BY DEF CopiedHeaders
<1>3. hs \in Seq(Header)
  BY <1>1, <1>2, OnlyType
<1>4. ASSUME NEW i \in 1 .. Len(hs) PROVE hs[i].name \in N
  <2> HIDE DEF hs, K, N, s
  <2>1. hs[i] \in K /\ \E j \in 1 .. Len(s) : hs[i] = s[j]
    BY <1>1, <1>2, OnlyFrom
  <2>2. PICK j \in 1 .. Len(s) : hs[i] = s[j]
    BY <2>1
  <2>3. s[j] \in Header /\ s[j].name \in String /\ s[j].name # "_body"
    <3>1. j \in DOMAIN e.headers /\ s[j] = e.headers[j] /\ s[j] \in Header
      BY <1>1 DEF s
    <3>2. s[j].name # "_body"
      BY <3>1 DEF NoBodyHeader
    <3> QED BY <3>1, <3>2, HeaderFacts
  <2>4. e.subclass = NULL \/ s[j].name # own
    BY <2>1, <2>2 DEF K
  <2>5. e.subclass = NULL \/ ~Same(s[j].name, own)
    BY <1>1, <2>4 DEF SpellsItsSubclass, s
  <2> QED BY <2>2, <2>3, <2>5 DEF N, CopiedName
<1>5. Duplicate(e) = Finished(r, e.body)
  BY DEF Duplicate, CloneOf
<1>6. Sound(g) /\ g.id = e.id /\ g.uniq = e.uniq /\ g.subclass = e.subclass
  BY CloneOfFacts
<1>7. Apart(C, N)
  BY CloneApart
<1>8. g \in Trails(C, N, g)
  <2>1. C \in Seq(Header)
    BY <1>7 DEF Apart
  <2> HIDE DEF g, N
  <2>2. Trailing(g, C, <<>>, g.uniq, N)
    <3>1. <<>> \in Seq(Header) /\ C \o <<>> = C
      BY <2>1
    <3>2. Settled(g.uniq, N, <<>>)
      BY DEF Settled
    <3> QED BY <3>1, <3>2 DEF Trailing
  <2> QED BY <1>6, <2>2, TrailsOf
<1> HIDE DEF g, hs, N
<1>9. r \in Results(C, N, g)
  <2> HIDE DEF C
  <2> QED BY <1>3, <1>4, <1>7, <1>8, TrailsCopied
<1> HIDE DEF r
<1>10. /\ r.ev \in Event /\ Sound(r.ev) /\ r.ev.id = e.id /\ r.ev.uniq = e.uniq
       /\ r.ev.subclass = e.subclass
       /\ \E rest : Trailing(r.ev, C, rest, e.uniq, N)
  <2>1. r.ev \in Trails(C, N, g)
    BY <1>9 DEF Results
  <2> HIDE DEF C
  <2> QED BY <1>6, <2>1, TrailsFacts
<1>11. Duplicate(e).ev = d
  <2>1. r.ok
    BY <1>5 DEF Finished, Failed
  <2> QED BY <1>5, <2>1 DEF Finished, Done
<1>12. /\ d \in Event /\ d.headers = r.ev.headers /\ d.last = r.ev.last /\ d.id = r.ev.id
       /\ d.uniq = r.ev.uniq /\ d.subclass = r.ev.subclass
  BY <1>1, <1>10 DEF Event
<1> HIDE DEF d
<1>13. Sound(d)
  BY <1>10, <1>12 DEF Sound
<1>14. \E rest : Trailing(d, C, rest, e.uniq, N)
  BY <1>10, <1>12 DEF Trailing
<1> QED BY <1>10, <1>11, <1>12, <1>13, <1>14 DEF g, C, N

(* The duplicate of such an event succeeds and has the same headers.       *)
LEMMA DuplicateOfTrails ==
  ASSUME NEW e, Sound(e), NEW rest,
         Trailing(e, CloneOf(e).headers, rest, e.uniq, CopiedName(e))
  PROVE  Duplicate(e).ok = TRUE /\ Shows(Duplicate(e).ev) = Shows(e)
<1> DEFINE own == "Event-Subclass"
           K == {h \in Header : e.subclass = NULL \/ h.name # own}
           hs == CopiedHeaders(e)
           g == CloneOf(e)
           C == g.headers
           N == CopiedName(e)
           r == AllTransferred(g, hs)
<1>1. rest \in Seq(Header) /\ e.headers = C \o rest /\ Settled(e.uniq, N, rest)
  BY DEF Trailing
<1>2. /\ Sound(g) /\ g.id = e.id /\ g.uniq = e.uniq
      /\ e.subclass = NULL => C = <<>>
      /\ \A i \in 1 .. Len(C) : C[i].name = own
  BY CloneOfFacts
<1>3. Apart(C, N) /\ C \in Seq(Header)
  BY CloneApart DEF Apart
<1>4. Duplicate(e) = Finished(r, e.body)
  BY DEF Duplicate, CloneOf
<1>5. hs = Only(e.headers, K)
  BY DEF CopiedHeaders
<1> HIDE DEF g, hs
<1>6. Only(C, K) = <<>>
  <2>1. CASE e.subclass = NULL
    BY <1>2, <2>1, OnlyEmpty
  <2>2. CASE e.subclass # NULL
    <3>1. \A i \in 1 .. Len(C) : C[i] \notin K
      BY <1>2, <2>2
    <3> HIDE DEF C, K
    <3> QED BY <1>3, <3>1, OnlyNone
  <2> QED BY <2>1, <2>2
<1>7. Only(rest, K) = rest
  <2>1. \A i \in 1 .. Len(rest) : rest[i] \in K
    <3> TAKE i \in 1 .. Len(rest)
    <3>1. rest[i] \in Header /\ rest[i].name \in N
      BY <1>1 DEF Settled
    <3>2. e.subclass = NULL \/ rest[i].name # own
      BY <3>1, SameFacts DEF CopiedName
    <3> QED BY <3>1, <3>2
  <2> HIDE DEF K
  <2> QED BY <1>1, <2>1, OnlyAll
<1>8. hs = rest
  <2> HIDE DEF K, C
  <2>1. Only(C \o rest, K) = Only(C, K) \o Only(rest, K)
    BY <1>1, <1>3, OnlyConcat
  <2>2. <<>> \o rest = rest
    BY <1>1
  <2> QED BY <1>1, <1>5, <1>6, <1>7, <2>1, <2>2
<1> HIDE DEF N
<1>9. \A i \in 1 .. Len(hs) : Copyable(hs[i])
  BY <1>1, <1>8 DEF Settled
<1>10. \A i \in 1 .. Len(hs) : \/ Free(C \o SubSeq(hs, 1, i - 1), hs[i].name)
                               \/ (~g.uniq /\ hs[i].array = <<>>)
  <2> HIDE DEF C
  <2> QED BY <1>1, <1>2, <1>3, <1>8, SettledBehind
<1>11. r.ok = TRUE /\ Sound(r.ev) /\ r.ev.headers = C \o hs /\ r.ev.id = g.id
  BY <1>1, <1>2, <1>8, <1>9, <1>10, AllTransferredBehind
<1> HIDE DEF r
<1> DEFINE d == Duplicate(e)
<1>12. d.ok = TRUE /\ d.ev.headers = e.headers /\ d.ev.id = e.id /\ d.ev.body = e.body
  <2> DEFINE f == Finished(r, e.body)
  <2>1. f.ok = TRUE /\ f.ev.headers = r.ev.headers /\ f.ev.id = r.ev.id /\ f.ev.body = e.body
    BY <1>11, FinishedFacts
  <2>2. d = f
    BY <1>4
  <2> HIDE DEF d, f, C
  <2> QED BY <1>1, <1>2, <1>8, <1>11, <2>1, <2>2
<1> HIDE DEF d
<1>13. Shows(d.ev) = Shows(e)
  BY <1>12, ShowsSame
<1> QED BY <1>12, <1>13 DEF d

(* A duplicate of a duplicate shows what the duplicate shows.              *)
LEMMA InOrderSettles == InOrder => DuplicatesSettle
<1> SUFFICES ASSUME InOrder, ev # NULL, NoBodyHeader(ev),
                    SpellsItsSubclass(ev), Duplicate(ev).ok
             PROVE  Duplicate(Duplicate(ev).ev).ok
                    /\ Shows(Duplicate(Duplicate(ev).ev).ev) = Shows(Duplicate(ev).ev)
  BY DEF DuplicatesSettle
<1> DEFINE d == Duplicate(ev).ev
<1>1. Sound(ev)
  BY DEF InOrder
<1>2. /\ Sound(d) /\ d.id = ev.id /\ d.uniq = ev.uniq /\ d.subclass = ev.subclass
      /\ \E rest : Trailing(d, CloneOf(ev).headers, rest, ev.uniq, CopiedName(ev))
  BY <1>1, DuplicateTrails
<1> HIDE DEF d
<1>3. CloneOf(d) = CloneOf(ev) /\ CopiedName(d) = CopiedName(ev)
  BY <1>2 DEF CloneOf, CopiedName
<1>4. PICK rest : Trailing(d, CloneOf(d).headers, rest, d.uniq, CopiedName(d))
  BY <1>2, <1>3
<1>5. Duplicate(d).ok = TRUE /\ Shows(Duplicate(d).ev) = Shows(d)
  BY <1>2, <1>4, DuplicateOfTrails
<1> QED BY <1>5 DEF d

-----------------------------------------------------------------------------
(* The theorems.                                                           *)

(* Whatever is called and whatever allocation fails, the events of an      *)
(* application are in order: they have the types they should have,         *)
(* last_header is the last header of the list, and no header is left       *)
(* without a value and without an array.                                   *)
THEOREM EventsInOrder == Spec => []InOrder
BY InOrderInit, InOrderNext, PTL DEF Spec

(* A call on the headers of one name leaves all others alone.              *)
THEOREM CallsSpareOthers == Spec => OthersUntouched
<1>1. InOrder /\ [Next]_vars =>
        [ev # NULL /\ call'.op \in {"add", "add at", "array", "delete", "priority"}
           => Others(ev', call'.name) = Others(ev, call'.name)]_vars
  BY NextObserved DEF Observed
<1> QED BY <1>1, InOrderInit, InOrderNext, PTL DEF Spec, OthersUntouched

(* A push keeps the items of a header, whatever allocation fails.          *)
THEOREM PushesKeepItems == Spec => PushKeepsItems
<1>1. InOrder /\ [Next]_vars =>
        [/\ ev # NULL /\ call'.op = "add" /\ call'.stack \in {"PUSH", "UNSHIFT"}
         /\ call'.name # "_body" /\ Find(ev, call'.name) # 0
         => LET i == Find(ev, call'.name)
                before == Items(ev.headers[i])
                after == Items(ev'.headers[i])
            IN \/ after = Append(before, call'.data)
               \/ ~call'.ok /\ after = before]_vars
  BY NextObserved DEF Observed
<1> QED BY <1>1, InOrderInit, InOrderNext, PTL DEF Spec, PushKeepsItems

(* A successful call leaves the value of every array in step with its      *)
(* elements, except where the code is known to part them.                  *)
THEOREM ValuesFollowArrays == Spec => ValueFollowsArray
<1>1. InOrder /\ [Next]_vars =>
        [/\ ev # NULL /\ ev' # NULL /\ AllInStep(ev) /\ call'.ok
         /\ ~(call'.op \in {"add", "priority"} /\ call'.stack = "TOP")
         /\ call'.op # "add at"
         => AllInStep(ev')]_vars
  BY NextObserved DEF Observed
<1> QED BY <1>1, InOrderInit, InOrderNext, PTL DEF Spec, ValueFollowsArray

(* A duplicate of a regular event, and either serialized form read back,   *)
(* shows every header, its elements, the id and the body as the event had  *)
(* them, in the order and with the changes that the copying code makes.    *)
THEOREM CopiesFaithful == Spec => []CopiesAreFaithful
BY InOrderInit, InOrderNext, InOrderCopies, PTL DEF Spec

(* A duplicate is a fixed point of esl_event_dup: whatever the calls have  *)
(* made of an event, its duplicate is duplicated without a failure and     *)
(* shows every header, its elements, the id and the body again.            *)
THEOREM DuplicatesSettled == Spec => []DuplicatesSettle
BY InOrderInit, InOrderNext, InOrderSettles, PTL DEF Spec
=============================================================================
