---------------------------- MODULE NamesProofs ----------------------------
(***************************************************************************)
(* For any logins and chat names, whatever characters they are made of,    *)
(* and any sizes of the buffers: tokens are good for their owner or for    *)
(* nobody; plain names reach the handler they are meant for; and the paths *)
(* of histories keep dialogs apart.                                        *)
(***************************************************************************)
EXTENDS Names, SequenceTheorems, FiniteSetTheorems, WellFoundedInduction, TLAPS

-----------------------------------------------------------------------------
(* Texts. *)

Text == Seq(Nat)

\* What holds at some index holds at a first one.
LEMMA FirstIndex ==
  ASSUME NEW n \in Nat, NEW T, T \subseteq 1..n, T # {}
  PROVE  \E i \in T : \A j \in 1..(i - 1) : j \notin T
<1>1. T \subseteq Nat
  OBVIOUS
<1>2. PICK i \in T : \A j \in T : ~(<<j, i>> \in OpToRel(<, Nat))
  BY <1>1, NatLessThanWellFounded, WFMin
<1>3. \A j \in T : ~(j < i)
  BY <1>1, <1>2 DEF OpToRel
<1> QED
  BY <1>1, <1>3

\* One text after another.
LEMMA Joined ==
  ASSUME NEW a \in Text, NEW b \in Text
  PROVE  /\ a \o b \in Text /\ Len(a) \in Nat /\ Len(b) \in Nat
         /\ Len(a \o b) = Len(a) + Len(b)
         /\ \A i \in 1..Len(a) : (a \o b)[i] = a[i]
         /\ \A i \in 1..Len(b) : (a \o b)[Len(a) + i] = b[i]
<1>1. /\ a \o b \in Text /\ Len(a \o b) = Len(a) + Len(b)
      /\ \A i \in 1..Len(a) + Len(b) : (a \o b)[i] = IF i <= Len(a) THEN a[i] ELSE b[i - Len(a)]
  BY ConcatProperties DEF Text
<1>2. Len(a) \in Nat /\ Len(b) \in Nat
  BY LenProperties DEF Text
<1>3. \A i \in 1..Len(a) : (a \o b)[i] = a[i]
  BY <1>1, <1>2
<1>4. ASSUME NEW i \in 1..Len(b) PROVE (a \o b)[Len(a) + i] = b[i]
  <2>1. Len(a) + i \in 1..Len(a) + Len(b) /\ ~(Len(a) + i <= Len(a)) /\ (Len(a) + i) - Len(a) = i
    BY <1>2
  <2> QED
    BY <1>1, <2>1
<1> QED
  BY <1>1, <1>2, <1>3, <1>4

\* A part of a text.
LEMMA PartOf ==
  ASSUME NEW s \in Text, NEW m \in Int, NEW n \in Int, m >= 1, n <= Len(s)
  PROVE  /\ SubSeq(s, m, n) \in Text
         /\ Len(SubSeq(s, m, n)) = IF m <= n THEN n - m + 1 ELSE 0
         /\ \A i \in 1..(n - m + 1) : SubSeq(s, m, n)[i] = s[m + i - 1]
<1>1. Len(s) \in Nat /\ \A i \in 1..Len(s) : s[i] \in Nat
  BY LenProperties, ElementOfSeq DEF Text
<1>2. \A i \in m..n : s[i] \in Nat
  BY <1>1
<1> QED
  BY <1>2, SubSeqProperties DEF Text

\* Texts with the same characters are the same.
LEMMA SameText ==
  ASSUME NEW s \in Text, NEW t \in Text, Len(s) = Len(t), \A i \in 1..Len(s) : s[i] = t[i]
  PROVE  s = t
BY SeqEqual DEF Text

\* The parts a text was joined of.
LEMMA PartsOfJoined ==
  ASSUME NEW a \in Text, NEW b \in Text
  PROVE  /\ SubSeq(a \o b, 1, Len(a)) = a
         /\ SubSeq(a \o b, Len(a) + 1, Len(a) + Len(b)) = b
<1> DEFINE s == a \o b
<1>1. /\ s \in Text /\ Len(a) \in Nat /\ Len(b) \in Nat /\ Len(s) = Len(a) + Len(b)
      /\ \A i \in 1..Len(a) : s[i] = a[i]
      /\ \A i \in 1..Len(b) : s[Len(a) + i] = b[i]
  BY Joined
<1> HIDE DEF s
<1>2. SubSeq(s, 1, Len(a)) = a
  <2>1. /\ SubSeq(s, 1, Len(a)) \in Text
        /\ Len(SubSeq(s, 1, Len(a))) = IF 1 <= Len(a) THEN Len(a) - 1 + 1 ELSE 0
        /\ \A i \in 1..(Len(a) - 1 + 1) : SubSeq(s, 1, Len(a))[i] = s[1 + i - 1]
    BY <1>1, PartOf
  <2>2. Len(SubSeq(s, 1, Len(a))) = Len(a)
        /\ \A i \in 1..Len(a) : SubSeq(s, 1, Len(a))[i] = a[i]
    BY <1>1, <2>1
  <2> QED
    BY <2>1, <2>2, SameText
<1>3. SubSeq(s, Len(a) + 1, Len(a) + Len(b)) = b
  <2> DEFINE p == SubSeq(s, Len(a) + 1, Len(a) + Len(b))
             m == Len(a) + 1
             n == Len(a) + Len(b)
  <2>0. m \in Int /\ n \in Int /\ m >= 1 /\ n <= Len(s) /\ n - m + 1 = Len(b)
        /\ \A i \in 1..Len(b) : m + i - 1 = Len(a) + i
    BY <1>1
  <2> HIDE DEF m, n
  <2>1. /\ SubSeq(s, m, n) \in Text
        /\ Len(SubSeq(s, m, n)) = IF m <= n THEN n - m + 1 ELSE 0
        /\ \A i \in 1..(n - m + 1) : SubSeq(s, m, n)[i] = s[m + i - 1]
    BY <1>1, <2>0, PartOf
  <2>2. m <= n \/ Len(b) = 0
    BY <1>1, <2>0
  <2>3. Len(SubSeq(s, m, n)) = Len(b)
    BY <1>1, <2>0, <2>1, <2>2
  <2>4. \A i \in 1..Len(b) : SubSeq(s, m, n)[i] = b[i]
    BY <1>1, <2>0, <2>1
  <2>5. SubSeq(s, m, n) = b
    BY <2>1, <2>3, <2>4, SameText
  <2> QED
    BY <2>5 DEF m, n
<1> QED
  BY <1>1, <1>2, <1>3 DEF s

\* Where a character is first, and last.
LEMMA FirstAtIs ==
  ASSUME NEW s, NEW c, NEW i \in 1..Len(s), Len(s) \in Nat, s[i] = c,
         \A j \in 1..(i - 1) : s[j] # c
  PROVE  FirstAt(s, c) = i
<1>1. ASSUME NEW k \in 1..Len(s), s[k] = c, \A j \in 1..(k - 1) : s[j] # c PROVE k = i
  <2>1. ~(k < i) /\ ~(i < k)
    BY <1>1
  <2> QED
    BY <2>1
<1> QED
  BY <1>1 DEF FirstAt

\* strrchr finds the last one.
LEMMA LastAtIs ==
  ASSUME NEW s, NEW c, NEW i \in 1..Len(s), Len(s) \in Nat, s[i] = c,
         \A j \in (i + 1)..Len(s) : s[j] # c
  PROVE  LastAt(s, c) = i
<1>1. ASSUME NEW k \in 1..Len(s), s[k] = c, \A j \in (k + 1)..Len(s) : s[j] # c PROVE k = i
  <2>1. ~(k < i) /\ ~(i < k)
    BY <1>1
  <2> QED
    BY <2>1
<1> QED
  BY <1>1 DEF LastAt

\* strchr finds what occurs.
LEMMA FirstAtFound ==
  ASSUME NEW s \in Text, NEW c, Occurs(c, s)
  PROVE  FirstAt(s, c) \in 1..Len(s)
<1>1. Len(s) \in Nat
  BY LenProperties DEF Text
<1> DEFINE T == {i \in 1..Len(s) : s[i] = c}
<1>2. T \subseteq 1..Len(s) /\ T # {}
  BY DEF Occurs
<1> HIDE DEF T
<1>3. PICK i \in T : \A j \in 1..(i - 1) : j \notin T
  BY <1>1, <1>2, FirstIndex
<1>4. i \in 1..Len(s) /\ s[i] = c
  BY <1>3 DEF T
<1>5. \A j \in 1..(i - 1) : j \in 1..Len(s)
  BY <1>1, <1>4
<1>6. \A j \in 1..(i - 1) : s[j] # c
  BY <1>3, <1>5 DEF T
<1> QED
  BY <1>1, <1>4, <1>6, FirstAtIs

\* A text that is cut is a text, and one that fits is not cut.
LEMMA CutText ==
  ASSUME NEW s \in Text, NEW size \in Nat
  PROVE  Cut(s, size) \in Text /\ (Len(s) < size => Cut(s, size) = s)
<1>1. Len(s) \in Nat
  BY LenProperties DEF Text
<1> DEFINE n == IF Len(s) < size THEN Len(s) ELSE size - 1
<1>2. n \in Int /\ n <= Len(s)
  BY <1>1
<1>3. SubSeq(s, 1, n) \in Text
  <2> HIDE DEF n
  <2> QED
    BY <1>2, PartOf
<1>4. Len(s) < size => SubSeq(s, 1, n) = s
  BY SubSeqFull DEF Text
<1> QED
  BY <1>3, <1>4 DEF Cut

\* Two ways to join three texts.
LEMMA Rejoined ==
  ASSUME NEW p \in Text, NEW q \in Text, NEW r \in Text
  PROVE  (p \o q) \o r = p \o (q \o r)
<1>1. p \in Seq(Nat) /\ q \in Seq(Nat) /\ r \in Seq(Nat)
  BY DEF Text
<1> QED
  BY <1>1, ConcatAssociative, SMTT(30)

\* Two texts and a separator between them.
Separated(a, c, u) == a \o (<<c>> \o u)

\* What comes before the first separator, and after it.
LEMMA SplitAtFirst ==
  ASSUME NEW c \in Nat, NEW a \in Text, NEW u \in Text, ~Occurs(c, a)
  PROVE  /\ Separated(a, c, u) \in Text /\ Len(a) \in Nat /\ Len(u) \in Nat
         /\ Len(Separated(a, c, u)) = Len(a) + 1 + Len(u)
         /\ Occurs(c, Separated(a, c, u)) /\ FirstAt(Separated(a, c, u), c) = Len(a) + 1
         /\ SubSeq(Separated(a, c, u), 1, Len(a)) = a
         /\ SubSeq(Separated(a, c, u), Len(a) + 2, Len(Separated(a, c, u))) = u
         /\ \A i \in 1..Len(Separated(a, c, u)) :
              Separated(a, c, u)[i] = c <=> \/ i = Len(a) + 1
                                            \/ i - (Len(a) + 1) \in 1..Len(u)
                                               /\ u[i - (Len(a) + 1)] = c
<1> DEFINE s == Separated(a, c, u)
           sep == <<c>>
           ac == a \o sep
           n == Len(a) + 1
<1>1. sep \in Text /\ Len(sep) = 1 /\ sep[1] = c
  BY DEF Text
<1> HIDE DEF sep
<1>2. /\ ac \in Text /\ Len(a) \in Nat /\ Len(ac) = n
      /\ \A i \in 1..Len(a) : ac[i] = a[i]
      /\ ac[n] = c
  <2>1. /\ ac \in Text /\ Len(a) \in Nat /\ Len(ac) = Len(a) + Len(sep)
        /\ \A i \in 1..Len(a) : ac[i] = a[i]
        /\ \A i \in 1..Len(sep) : ac[Len(a) + i] = sep[i]
    BY <1>1, Joined
  <2> QED
    BY <1>1, <2>1
<1>3. SubSeq(ac, 1, Len(a)) = a
  BY <1>1, PartsOfJoined
<1>4. s = ac \o u
  <2>1. a \in Seq(Nat) /\ sep \in Seq(Nat) /\ u \in Seq(Nat)
    BY <1>1 DEF Text
  <2>2. (a \o sep) \o u = a \o (sep \o u)
    BY <2>1, ConcatAssociative, SMTT(30)
  <2> QED
    BY <2>2 DEF sep, Separated
<1> HIDE DEF ac, s
<1>5. /\ s \in Text /\ Len(s) = n + Len(u) /\ Len(u) \in Nat
      /\ \A i \in 1..n : s[i] = ac[i]
      /\ \A i \in 1..Len(u) : s[n + i] = u[i]
      /\ SubSeq(s, 1, n) = ac /\ SubSeq(s, n + 1, n + Len(u)) = u
  <2>1. /\ s \in Text /\ Len(s) = Len(ac) + Len(u) /\ Len(u) \in Nat
        /\ \A i \in 1..Len(ac) : s[i] = ac[i]
        /\ \A i \in 1..Len(u) : s[Len(ac) + i] = u[i]
    <3>1. ac \in Text
      BY <1>2
    <3>2. /\ ac \o u \in Text /\ Len(ac \o u) = Len(ac) + Len(u) /\ Len(u) \in Nat
          /\ \A i \in 1..Len(ac) : (ac \o u)[i] = ac[i]
          /\ \A i \in 1..Len(u) : (ac \o u)[Len(ac) + i] = u[i]
      BY <3>1, Joined
    <3> QED
      BY <1>4, <3>2
  <2>2. SubSeq(s, 1, Len(ac)) = ac /\ SubSeq(s, Len(ac) + 1, Len(ac) + Len(u)) = u
    BY <1>2, <1>4, PartsOfJoined
  <2> HIDE DEF n
  <2> QED
    BY <1>2, <2>1, <2>2
<1> HIDE DEF n
<1>6. n = Len(a) + 1 /\ n \in Nat /\ n \in 1..n /\ n \in 1..Len(s) /\ n - 1 = Len(a)
      /\ \A i \in 1..Len(a) : i \in 1..n
  BY <1>2, <1>5 DEF n
<1>7. s[n] = c
  BY <1>2, <1>5, <1>6
<1>8. \A i \in 1..Len(a) : s[i] = a[i] /\ s[i] # c
  BY <1>2, <1>5, <1>6 DEF Occurs
<1>9. Occurs(c, s)
  BY <1>6, <1>7 DEF Occurs
<1>10. FirstAt(s, c) = n
  <2>1. Len(s) \in Nat /\ \A j \in 1..(n - 1) : s[j] # c
    BY <1>5, <1>6, <1>8
  <2> QED
    BY <1>6, <1>7, <2>1, FirstAtIs
<1>11. SubSeq(s, 1, Len(a)) = a
  <2>1. /\ SubSeq(s, 1, Len(a)) \in Text
        /\ Len(SubSeq(s, 1, Len(a))) = IF 1 <= Len(a) THEN Len(a) - 1 + 1 ELSE 0
        /\ \A i \in 1..(Len(a) - 1 + 1) : SubSeq(s, 1, Len(a))[i] = s[1 + i - 1]
    <3>1. 1 \in Int /\ Len(a) \in Int /\ Len(a) <= Len(s) /\ 1 >= 1
      BY <1>2, <1>5, <1>6
    <3> QED
      BY <1>5, <3>1, PartOf
  <2>2. Len(SubSeq(s, 1, Len(a))) = Len(a)
        /\ \A i \in 1..Len(a) : SubSeq(s, 1, Len(a))[i] = s[i]
    BY <1>2, <2>1
  <2> QED
    BY <1>8, <2>1, <2>2, SameText
<1>12. ASSUME NEW i \in 1..Len(s)
       PROVE  s[i] = c <=> i = n \/ (i - n \in 1..Len(u) /\ u[i - n] = c)
  <2>1. CASE i < n
    <3>1. i \in 1..Len(a) /\ i # n /\ ~(i - n \in 1..Len(u))
      BY <1>2, <1>5, <1>6, <2>1
    <3> QED
      BY <1>8, <3>1
  <2>2. CASE i = n
    BY <1>7, <2>2
  <2>3. CASE i > n
    <3>1. i - n \in 1..Len(u) /\ n + (i - n) = i /\ i # n
      BY <1>5, <1>6, <2>3
    <3> QED
      BY <1>5, <3>1
  <2> QED
    BY <1>6, <2>1, <2>2, <2>3
<1>13. n + 1 = Len(a) + 2 /\ n + Len(u) = Len(s)
  BY <1>2, <1>5, <1>6
<1> QED
  BY <1>2, <1>5, <1>6, <1>9, <1>10, <1>11, <1>12, <1>13 DEF s, n

-----------------------------------------------------------------------------
(* Tokens. *)

\* validate_token finds the login the token was made for, or none.
LEMMA LoginOfToken ==
  ASSUME NEW token, NEW owner
  PROVE  TokenLogin(token, owner) \in {owner, Nobody}
<1> DEFINE c == FirstAt(token, Colon)
           l == SubSeq(token, 1, c - 1)
           t == Number(SubSeq(token, c + 1, Len(token)))
<1>1. CASE SealMatches(l, t, token, owner)
  <2>1. <<l, t>> = <<owner, Time>>
    BY <1>1 DEF SealMatches, Sign
  <2>2. l = owner
    BY <2>1
  <2> QED
    BY <2>2 DEF TokenLogin
<1>2. CASE ~SealMatches(l, t, token, owner)
  BY <1>2 DEF TokenLogin
<1> QED
  BY <1>1, <1>2

\* A login without a colon that fits is what its token is split into.
LEMMA PlainTokenIsGood ==
  ASSUME NEW l \in Text, PlainLogin(l)
  PROVE  TokenLogin(Token(l), l) = l
<1> DEFINE rest == <<Colon, Time, Colon, Sealed>>
           t == Token(l)
           n == Len(l)
<1>1. rest \in Text /\ Len(rest) = 4 /\ rest[1] = Colon /\ rest[2] = Time /\ rest[3] = Colon
      /\ rest[4] = Sealed
  BY DEF Text, Colon, Time, Sealed
<1> HIDE DEF rest
<1>2. /\ t \in Text /\ n \in Nat /\ Len(t) = n + 4
      /\ \A i \in 1..n : t[i] = l[i]
      /\ \A i \in 1..4 : t[n + i] = rest[i]
  BY <1>1, Joined DEF Token, rest
<1>3. t[n + 1] = Colon /\ t[n + 2] = Time /\ t[n + 3] = Colon /\ t[n + 4] = Sealed
  BY <1>1, <1>2
<1>4. SubSeq(t, 1, n) = l
  BY <1>1, PartsOfJoined DEF Token, rest
<1>5. \A i \in 1..n : t[i] # Colon
  BY <1>2 DEF PlainLogin, Occurs
<1> HIDE DEF t, n
<1>6. FirstAt(t, Colon) = n + 1
  <2>1. n + 1 \in 1..Len(t) /\ (n + 1) - 1 = n
    BY <1>2
  <2> QED
    BY <1>2, <1>3, <1>5, <2>1, FirstAtIs
<1>7. LastAt(t, Colon) = n + 3
  <2> DEFINE k == n + 3
  <2>1. k \in 1..Len(t) /\ \A j \in (k + 1)..Len(t) : j = n + 4
    BY <1>2
  <2>2. t[n + 4] # Colon
    BY <1>3 DEF Sealed, Colon
  <2>3. t[k] = Colon /\ Len(t) \in Nat
    BY <1>2, <1>3
  <2> HIDE DEF k
  <2>4. \A j \in (k + 1)..Len(t) : t[j] # Colon
    BY <2>1, <2>2
  <2>5. LastAt(t, Colon) = k
    BY <2>1, <2>3, <2>4, LastAtIs
  <2> QED
    BY <2>5 DEF k
<1>8. Number(SubSeq(t, n + 2, Len(t))) = Time
  <2> DEFINE s == SubSeq(t, n + 2, Len(t))
  <2>1. /\ s \in Text /\ Len(s) = IF n + 2 <= n + 4 THEN (n + 4) - (n + 2) + 1 ELSE 0
        /\ \A i \in 1..((n + 4) - (n + 2) + 1) : s[i] = t[(n + 2) + i - 1]
    <3> DEFINE m == n + 2
               e == n + 4
    <3>1. m \in Int /\ e \in Int /\ m >= 1 /\ e <= Len(t) /\ Len(t) = e /\ t \in Text
      BY <1>2
    <3> HIDE DEF m, e
    <3>2. /\ SubSeq(t, m, e) \in Text
          /\ Len(SubSeq(t, m, e)) = IF m <= e THEN e - m + 1 ELSE 0
          /\ \A i \in 1..(e - m + 1) : SubSeq(t, m, e)[i] = t[m + i - 1]
      BY <3>1, PartOf
    <3> QED
      BY <3>1, <3>2 DEF m, e
  <2> HIDE DEF s
  <2>2. Len(s) = 3 /\ s[1] = t[n + 2]
    <3>1. n \in Nat /\ (n + 4) - (n + 2) + 1 = 3 /\ n + 2 <= n + 4 /\ (n + 2) + 1 - 1 = n + 2
      BY <1>2
    <3>2. s[1] = t[(n + 2) + 1 - 1]
      BY <2>1, <3>1
    <3> QED
      BY <2>1, <3>1, <3>2
  <2>3. s # <<>>
    BY <2>2, EmptySeq
  <2>4. Head(s) = s[1]
    <3>1. SubSeq(s, 1, 3) = s /\ 1 \in 1..Len(s) /\ 3 \in 1..Len(s)
      <4>1. Len(s) = 3 /\ s \in Seq(Nat)
        BY <2>1, <2>2 DEF Text
      <4> QED
        BY <4>1, SubSeqFull
    <3>2. Head(SubSeq(s, 1, 3)) = s[1]
      BY <2>1, <3>1, HeadTailOfSubSeq DEF Text
    <3> QED
      BY <3>1, <3>2
  <2> QED
    BY <1>3, <2>2, <2>3, <2>4 DEF Number, s
<1>9. n + 1 # n + 3 /\ (n + 1) - 1 = n /\ (n + 1) + 1 = n + 2
  BY <1>2
<1>10. SealMatches(l, Number(SubSeq(t, n + 2, Len(t))), t, l)
  BY <1>8 DEF SealMatches
<1>11. Len(l) < MaxLogin
  BY DEF PlainLogin
<1>12. TokenLogin(t, l) = l
  BY <1>4, <1>6, <1>7, <1>9, <1>10, <1>11 DEF TokenLogin
<1> QED
  BY <1>12 DEF t

-----------------------------------------------------------------------------
(* The paths of dialogs. *)

\* Before is antisymmetric: where the shorter prefix ends, the texts differ.
LEMMA NotBothBefore ==
  ASSUME NEW s \in Text, NEW t \in Text, Before(s, t), Before(t, s)
  PROVE  FALSE
<1>0. /\ Len(s) \in Nat /\ Len(t) \in Nat
      /\ \A i \in 1..Len(s) : s[i] \in Nat
      /\ \A i \in 1..Len(t) : t[i] \in Nat
  BY LenProperties, ElementOfSeq DEF Text
<1>1. ASSUME NEW a \in Text, NEW b \in Text, NEW k \in Nat, k <= Len(a), k <= Len(b),
             Len(a) \in Nat, Len(b) \in Nat, SubSeq(a, 1, k) = SubSeq(b, 1, k)
      PROVE  \A j \in 1..k : a[j] = b[j]
  <2>1. /\ \A j \in 1..(k - 1 + 1) : SubSeq(a, 1, k)[j] = a[1 + j - 1]
        /\ \A j \in 1..(k - 1 + 1) : SubSeq(b, 1, k)[j] = b[1 + j - 1]
    BY <1>1, PartOf
  <2>2. ASSUME NEW j \in 1..k PROVE j \in 1..(k - 1 + 1) /\ 1 + j - 1 = j
    BY <1>1
  <2> QED
    BY <1>1, <2>1, <2>2
<1>2. PICK i \in 0..Len(s) :
        /\ i <= Len(t) /\ SubSeq(s, 1, i) = SubSeq(t, 1, i)
        /\ i < Len(t) /\ (i = Len(s) \/ s[i + 1] < t[i + 1])
  BY DEF Before
<1>3. PICK j \in 0..Len(t) :
        /\ j <= Len(s) /\ SubSeq(t, 1, j) = SubSeq(s, 1, j)
        /\ j < Len(s) /\ (j = Len(t) \/ t[j + 1] < s[j + 1])
  BY DEF Before
<1>4. /\ \A k \in 1..i : s[k] = t[k]
      /\ \A k \in 1..j : s[k] = t[k]
  BY <1>0, <1>1, <1>2, <1>3
<1>5. CASE i < j
  <2>1. i + 1 \in 1..j /\ i + 1 \in 1..Len(s) /\ i # Len(s)
    BY <1>0, <1>2, <1>3, <1>5
  <2>2. s[i + 1] = t[i + 1] /\ s[i + 1] < t[i + 1] /\ s[i + 1] \in Nat
    BY <1>0, <1>2, <1>4, <2>1
  <2> QED
    BY <2>2
<1>6. CASE j < i
  <2>1. j + 1 \in 1..i /\ j + 1 \in 1..Len(s) /\ j # Len(t)
    BY <1>0, <1>2, <1>3, <1>6
  <2>2. s[j + 1] = t[j + 1] /\ t[j + 1] < s[j + 1] /\ s[j + 1] \in Nat
    BY <1>0, <1>3, <1>4, <2>1
  <2> QED
    BY <2>2
<1>7. CASE i = j
  <2>1. i + 1 \in 1..Len(s) /\ i + 1 \in 1..Len(t) /\ i # Len(s) /\ i # Len(t)
    BY <1>0, <1>2, <1>3, <1>7
  <2>2. s[i + 1] < t[i + 1] /\ t[i + 1] < s[i + 1] /\ s[i + 1] \in Nat /\ t[i + 1] \in Nat
    BY <1>0, <1>2, <1>3, <1>7, <2>1
  <2> QED
    BY <2>2
<1> QED
  BY <1>0, <1>2, <1>3, <1>5, <1>6, <1>7

\* Texts that agree up to k have the same first k characters.
LEMMA SamePrefix ==
  ASSUME NEW a \in Text, NEW b \in Text, NEW k \in Nat, k <= Len(a), k <= Len(b),
         \A j \in 1..k : a[j] = b[j]
  PROVE  SubSeq(a, 1, k) = SubSeq(b, 1, k)
<1>1. /\ SubSeq(a, 1, k) \in Text /\ SubSeq(b, 1, k) \in Text
      /\ Len(SubSeq(a, 1, k)) = IF 1 <= k THEN k - 1 + 1 ELSE 0
      /\ Len(SubSeq(b, 1, k)) = IF 1 <= k THEN k - 1 + 1 ELSE 0
      /\ \A j \in 1..(k - 1 + 1) : SubSeq(a, 1, k)[j] = a[1 + j - 1]
      /\ \A j \in 1..(k - 1 + 1) : SubSeq(b, 1, k)[j] = b[1 + j - 1]
  BY PartOf
<1>2. Len(SubSeq(a, 1, k)) = k /\ Len(SubSeq(b, 1, k)) = k
  BY <1>1
<1>3. \A j \in 1..k : j \in 1..(k - 1 + 1) /\ 1 + j - 1 = j
  OBVIOUS
<1>4. \A j \in 1..k : SubSeq(a, 1, k)[j] = SubSeq(b, 1, k)[j]
  BY <1>1, <1>3
<1> QED
  BY <1>1, <1>2, <1>4, SameText

\* Before is total: two texts differ at a first place, or one continues the other.
LEMMA OneIsBefore ==
  ASSUME NEW s \in Text, NEW t \in Text, s # t
  PROVE  Before(s, t) \/ Before(t, s)
<1>0. /\ Len(s) \in Nat /\ Len(t) \in Nat
      /\ \A i \in 1..Len(s) : s[i] \in Nat
      /\ \A i \in 1..Len(t) : t[i] \in Nat
  BY LenProperties, ElementOfSeq DEF Text
<1> DEFINE T == {k \in 1..Len(s) : k > Len(t) \/ s[k] # t[k]}
<1>1. CASE T = {}
  <2>1. \A k \in 1..Len(s) : k <= Len(t) /\ s[k] = t[k]
    BY <1>0, <1>1
  <2>2. Len(s) <= Len(t)
    <3>1. Len(s) = 0 \/ Len(s) \in 1..Len(s)
      BY <1>0
    <3> QED
      BY <1>0, <2>1, <3>1
  <2>3. Len(s) < Len(t)
    <3>1. Len(s) # Len(t)
      BY <2>1, SameText
    <3> QED
      BY <1>0, <2>2, <3>1
  <2>4. SubSeq(s, 1, Len(s)) = SubSeq(t, 1, Len(s))
    BY <1>0, <2>1, <2>2, SamePrefix
  <2>5. Len(s) \in 0..Len(s)
    BY <1>0
  <2> QED
    BY <2>2, <2>3, <2>4, <2>5 DEF Before
<1>2. CASE T # {}
  <2>0. T \subseteq 1..Len(s)
    OBVIOUS
  <2> HIDE DEF T
  <2>1. PICK k \in T : \A j \in 1..(k - 1) : j \notin T
    BY <1>0, <1>2, <2>0, FirstIndex
  <2>2. k \in 1..Len(s) /\ (k > Len(t) \/ s[k] # t[k])
    BY <2>1 DEF T
  <2>3. \A j \in 1..(k - 1) : j \in 1..Len(s)
    BY <1>0, <2>2
  <2>4. \A j \in 1..(k - 1) : j <= Len(t) /\ s[j] = t[j]
    BY <1>0, <2>1, <2>3 DEF T
  <2>5. k - 1 \in Nat /\ k - 1 <= Len(s) /\ k - 1 < Len(s) /\ (k - 1) + 1 = k
    BY <1>0, <2>2
  <2>6. k - 1 <= Len(t)
    <3>1. k - 1 = 0 \/ k - 1 \in 1..(k - 1)
      BY <2>5
    <3> QED
      BY <1>0, <2>4, <2>5, <3>1
  <2>7. SubSeq(s, 1, k - 1) = SubSeq(t, 1, k - 1)
    BY <2>4, <2>5, <2>6, SamePrefix
  <2>8. k - 1 \in 0..Len(s) /\ k - 1 \in 0..Len(t)
    BY <1>0, <2>5, <2>6
  <2>9. CASE k > Len(t)
    <3>1. k - 1 = Len(t)
      BY <1>0, <2>2, <2>6, <2>9
    <3> QED
      BY <2>5, <2>7, <2>8, <3>1 DEF Before
  <2>10. CASE k <= Len(t)
    <3>1. k - 1 < Len(t) /\ k \in 1..Len(t)
      BY <1>0, <2>2, <2>10
    <3>2. s[k] # t[k] /\ s[k] \in Nat /\ t[k] \in Nat
      BY <1>0, <2>2, <2>10, <3>1
    <3>3. CASE s[k] < t[k]
      BY <2>5, <2>6, <2>7, <2>8, <3>1, <3>3 DEF Before
    <3>4. CASE t[k] < s[k]
      BY <2>5, <2>6, <2>7, <2>8, <3>1, <3>4 DEF Before
    <3> QED
      BY <3>2, <3>3, <3>4
  <2> QED
    BY <1>0, <2>2, <2>9, <2>10
<1> QED
  BY <1>1, <1>2

\* get_private_path: whoever of the two is first.
LEMMA PathEitherWay ==
  ASSUME NEW a \in Text, NEW b \in Text
  PROVE  PrivatePath(a, b) = PrivatePath(b, a)
<1>1. CASE a = b
  BY <1>1
<1>2. CASE a # b
  BY <1>2, OneIsBefore, NotBothBefore DEF PrivatePath
<1> QED
  BY <1>1, <1>2

\* The path of two logins in this order.
Dashed(a, b) == a \o <<Dash>> \o b

\* The first dash splits a path into its users.
LEMMA PathIsSplit ==
  ASSUME NEW a \in Text, NEW b \in Text, NEW c \in Text, NEW d \in Text,
         ~Occurs(Dash, a), ~Occurs(Dash, c),
         Dashed(a, b) = Dashed(c, d)
  PROVE  a = c /\ b = d
<1> DEFINE dash == <<Dash>>
           p == Separated(a, Dash, b)
           q == Separated(c, Dash, d)
<1>1. p = q
  <2>1. dash \in Text
    BY DEF Text, Dash
  <2> HIDE DEF dash
  <2>2. (a \o dash) \o b = a \o (dash \o b)
    BY <2>1, Rejoined
  <2>3. (c \o dash) \o d = c \o (dash \o d)
    BY <2>1, Rejoined
  <2> QED
    BY <2>2, <2>3 DEF Dashed, Separated, dash
<1>2. Dash \in Nat
  BY DEF Dash
<1>3. /\ FirstAt(p, Dash) = Len(a) + 1 /\ Len(a) \in Nat
      /\ SubSeq(p, 1, Len(a)) = a /\ SubSeq(p, Len(a) + 2, Len(p)) = b
  BY <1>2, SplitAtFirst
<1>4. /\ FirstAt(q, Dash) = Len(c) + 1 /\ Len(c) \in Nat
      /\ SubSeq(q, 1, Len(c)) = c /\ SubSeq(q, Len(c) + 2, Len(q)) = d
  BY <1>2, SplitAtFirst
<1> HIDE DEF p, q
<1>5. FirstAt(p, Dash) = FirstAt(q, Dash)
  BY <1>1
<1>6. Len(a) = Len(c)
  <2>1. Len(a) + 1 = Len(c) + 1
    BY <1>3, <1>4, <1>5
  <2>2. Len(a) \in Nat /\ Len(c) \in Nat
    BY <1>3, <1>4
  <2> QED
    BY <2>1, <2>2
<1> QED
  BY <1>1, <1>3, <1>4, <1>6

\* Users without a dash share a path if and only if they are the same two.
LEMMA PathsApart ==
  ASSUME NEW a \in Text, NEW b \in Text, NEW c \in Text, NEW d \in Text,
         \A l \in {a, b, c, d} : ~Occurs(Dash, l)
  PROVE  PrivatePath(a, b) = PrivatePath(c, d) <=> {a, b} = {c, d}
<1>1. ASSUME PrivatePath(a, b) = PrivatePath(c, d) PROVE {a, b} = {c, d}
  <2>1. \E x, y \in {a, b} : {x, y} = {a, b} /\ PrivatePath(a, b) = Dashed(x, y)
    BY DEF PrivatePath, Dashed
  <2>2. \E x, y \in {c, d} : {x, y} = {c, d} /\ PrivatePath(c, d) = Dashed(x, y)
    BY DEF PrivatePath, Dashed
  <2>3. PICK x \in {a, b}, y \in {a, b} :
          {x, y} = {a, b} /\ PrivatePath(a, b) = Dashed(x, y)
    BY <2>1
  <2>4. PICK u \in {c, d}, v \in {c, d} :
          {u, v} = {c, d} /\ PrivatePath(c, d) = Dashed(u, v)
    BY <2>2
  <2>5. x \in Text /\ y \in Text /\ u \in Text /\ v \in Text
        /\ ~Occurs(Dash, x) /\ ~Occurs(Dash, u)
    OBVIOUS
  <2>6. Dashed(x, y) = Dashed(u, v)
    BY <1>1, <2>3, <2>4
  <2>7. x = u /\ y = v
    BY <2>5, <2>6, PathIsSplit
  <2> QED
    BY <2>3, <2>4, <2>7
<1>2. ASSUME {a, b} = {c, d} PROVE PrivatePath(a, b) = PrivatePath(c, d)
  <2>1. (a = c /\ b = d) \/ (a = d /\ b = c)
    BY <1>2
  <2> QED
    BY <2>1, PathEitherWay
<1> QED
  BY <1>1, <1>2

-----------------------------------------------------------------------------
(* Routes. *)

\* A text after a slash.
Slashed(t) == <<Slash>> \o t

\* The same of a slash.
LEMMA SplitAtSlash ==
  ASSUME NEW a \in Text, NEW u \in Text, ~Occurs(Slash, a)
  PROVE  /\ Occurs(Slash, Separated(a, Slash, u)) /\ Len(a) \in Nat
         /\ FirstAt(Separated(a, Slash, u), Slash) = Len(a) + 1
         /\ SubSeq(Separated(a, Slash, u), 1, Len(a)) = a
<1>1. Slash \in Nat
  BY DEF Slash
<1> QED
  BY <1>1, SplitAtFirst, SMTT(30)

\* What is left of a route from its i-th segment on.
Rest(route, i) == SubSeq(Relative(route), Start(Relative(route), i), Len(Relative(route)))

\* The last segment is all that is left.
LEMMA LastSegmentIs ==
  ASSUME NEW route, NEW i, i < Depth(route), NEW a, Len(a) < MaxRoute,
         ~Occurs(Slash, a), Rest(route, i) = a
  PROVE  Segment(route, i) = a
BY DEF Segment, Rest

\* A segment before it is what comes before the next slash.
LEMMA SegmentIs ==
  ASSUME NEW route, NEW i, i < Depth(route), NEW a \in Text, NEW u \in Text,
         Len(a) < MaxRoute, ~Occurs(Slash, a), Rest(route, i) = Separated(a, Slash, u)
  PROVE  Segment(route, i) = a
<1> DEFINE s == Rest(route, i)
<1>1. /\ Occurs(Slash, s) /\ FirstAt(s, Slash) = Len(a) + 1 /\ Len(a) \in Nat
      /\ SubSeq(s, 1, Len(a)) = a
  BY SplitAtSlash
<1> HIDE DEF s
<1>2. (Len(a) + 1) - 1 = Len(a)
  BY <1>1
<1>3. SubSeq(s, 1, FirstAt(s, Slash) - 1) = a
  BY <1>1, <1>2
<1>4. (IF Occurs(Slash, s) THEN SubSeq(s, 1, FirstAt(s, Slash) - 1) ELSE s) = a
  BY <1>1, <1>3
<1> QED
  BY <1>4 DEF Segment, Rest, s

\* Segments start after the slashes.
LEMMA StartsAfterSlash ==
  ASSUME NEW s, NEW x \in Nat, NEW y \in Nat, x <= y, SlashesIn(s) = {x, y}
  PROVE  /\ Start(s, 0) = 1 /\ Start(s, 1) = x + 1
         /\ x # y => Start(s, 2) = y + 1
         /\ Cardinality(SlashesIn(s)) = IF x = y THEN 1 ELSE 2
<1>1. \A k \in {x, y} : {j \in SlashesIn(s) : j <= k} = IF k = x THEN {x} ELSE {x, y}
  OBVIOUS
<1>2. Cardinality({x}) = 1 /\ IsFiniteSet({x})
  BY FS_Singleton
<1>3. x # y => Cardinality({x, y}) = 2
  <2>1. {x, y} = {x} \cup {y}
    OBVIOUS
  <2>2. x # y => Cardinality({x} \cup {y}) = Cardinality({x}) + 1
    BY <1>2, FS_AddElement
  <2> QED
    BY <1>2, <2>1, <2>2
<1>4. (CHOOSE k \in SlashesIn(s) : Cardinality({j \in SlashesIn(s) : j <= k}) = 1) = x
  <2>1. Cardinality({j \in SlashesIn(s) : j <= x}) = 1 /\ x \in SlashesIn(s)
    BY <1>1, <1>2
  <2>2. \A k \in SlashesIn(s) : k # x => Cardinality({j \in SlashesIn(s) : j <= k}) = 2
    BY <1>1, <1>3
  <2> QED
    BY <2>1, <2>2
<1>5. x # y =>
        (CHOOSE k \in SlashesIn(s) : Cardinality({j \in SlashesIn(s) : j <= k}) = 2) = y
  <2>1. Cardinality({j \in SlashesIn(s) : j <= x}) = 1
    BY <1>1, <1>2
  <2>2. x # y => Cardinality({j \in SlashesIn(s) : j <= y}) = 2 /\ y \in SlashesIn(s)
    BY <1>1, <1>3
  <2>3. \A k \in SlashesIn(s) : k = x \/ k = y
    OBVIOUS
  <2> QED
    BY <2>1, <2>2, <2>3
<1>6. Cardinality(SlashesIn(s)) = IF x = y THEN 1 ELSE 2
  <2>1. x = y => SlashesIn(s) = {x}
    OBVIOUS
  <2> QED
    BY <1>2, <1>3, <2>1
<1> QED
  <2>1. Start(s, 0) = 1
    BY DEF Start
  <2>2. Start(s, 1) = 1 + x
    BY <1>4, 1 # 0 DEF Start
  <2>3. x # y => Start(s, 2) = 1 + y
    BY <1>5, 2 # 0 DEF Start
  <2> QED
    BY <1>6, <2>1, <2>2, <2>3

\* The first character of a text.
LEMMA HeadIs ==
  ASSUME NEW s \in Text, s # <<>>
  PROVE  Head(s) = s[1] /\ Len(s) \in Nat \ {0}
<1>1. s \in Seq(Nat) /\ Len(s) \in Nat
  BY LenProperties DEF Text
<1>2. Len(s) # 0
  BY <1>1, EmptySeq
<1>3. SubSeq(s, 1, Len(s)) = s
  BY <1>1, SubSeqFull
<1>4. 1 \in 1..Len(s) /\ Len(s) \in 1..Len(s)
  BY <1>1, <1>2
<1>5. Head(SubSeq(s, 1, Len(s))) = s[1]
  BY <1>1, <1>4, HeadTailOfSubSeq
<1> QED
  BY <1>1, <1>2, <1>3, <1>5

\* The server takes the leading slash away.
LEMMA RelativeIs ==
  ASSUME NEW t \in Text
  PROVE  Relative(Slashed(t)) = t
<1> DEFINE slash == <<Slash>>
           s == slash \o t
<1>1. slash \in Text /\ Len(slash) = 1 /\ slash[1] = Slash
  BY DEF Text, Slash
<1> HIDE DEF slash
<1>2. /\ s \in Text /\ Len(t) \in Nat /\ Len(s) = 1 + Len(t)
      /\ s[1] = Slash
  <2>1. /\ s \in Text /\ Len(t) \in Nat /\ Len(s) = Len(slash) + Len(t)
        /\ \A i \in 1..Len(slash) : s[i] = slash[i]
    BY <1>1, Joined
  <2> HIDE DEF s
  <2>2. 1 \in 1..Len(slash)
    BY <1>1
  <2>3. s[1] = Slash
    BY <1>1, <2>1, <2>2
  <2>4. Len(s) = 1 + Len(t)
    BY <1>1, <2>1
  <2> QED
    BY <2>1, <2>3, <2>4
<1>3. SubSeq(s, 2, 1 + Len(t)) = t
  <2>1. SubSeq(s, Len(slash) + 1, Len(slash) + Len(t)) = t
    BY <1>1, PartsOfJoined
  <2> HIDE DEF s
  <2>2. Len(slash) + 1 = 2 /\ Len(slash) + Len(t) = 1 + Len(t)
    BY <1>1
  <2> QED
    BY <2>1, <2>2
<1> HIDE DEF s
<1>4. s # <<>>
  BY <1>2, EmptySeq
<1>5. Head(s) = Slash
  BY <1>2, <1>4, HeadIs
<1>6. Tail(s) = SubSeq(s, 2, Len(s))
  BY <1>2, <1>4, TailIsSubSeq DEF Text
<1>7. Relative(s) = t
  BY <1>2, <1>3, <1>4, <1>5, <1>6 DEF Relative
<1> QED
  BY <1>7 DEF s, slash, Slashed

\* Where the slashes of two parts are.
LEMMA SlashesOfTwo ==
  ASSUME NEW a \in Text, NEW u \in Text, ~Occurs(Slash, a)
  PROVE  /\ Separated(a, Slash, u) \in Text /\ Len(a) \in Nat /\ Len(u) \in Nat
         /\ Len(Separated(a, Slash, u)) = Len(a) + 1 + Len(u)
         /\ SubSeq(Separated(a, Slash, u), Len(a) + 2, Len(Separated(a, Slash, u))) = u
         /\ SubSeq(Separated(a, Slash, u), 1, Len(Separated(a, Slash, u))) = Separated(a, Slash, u)
         /\ SlashesIn(Separated(a, Slash, u)) =
              {Len(a) + 1} \cup {Len(a) + 1 + i : i \in SlashesIn(u)}
<1> DEFINE s == Separated(a, Slash, u)
<1>0. Slash \in Nat
  BY DEF Slash
<1>1. /\ s \in Text /\ Len(s) = Len(a) + 1 + Len(u) /\ Len(a) \in Nat /\ Len(u) \in Nat
      /\ SubSeq(s, Len(a) + 2, Len(s)) = u
      /\ \A i \in 1..Len(s) : s[i] = Slash <=> \/ i = Len(a) + 1
                                               \/ i - (Len(a) + 1) \in 1..Len(u)
                                                  /\ u[i - (Len(a) + 1)] = Slash
  BY <1>0, SplitAtFirst
<1> HIDE DEF s
<1>2. SubSeq(s, 1, Len(s)) = s
  BY <1>1, SubSeqFull DEF Text
<1>3. ASSUME NEW i \in SlashesIn(s)
      PROVE  i \in {Len(a) + 1} \cup {Len(a) + 1 + j : j \in SlashesIn(u)}
  <2>1. i \in 1..Len(s) /\ s[i] = Slash
    BY DEF SlashesIn
  <2>2. CASE i = Len(a) + 1
    BY <2>2
  <2>3. CASE i # Len(a) + 1
    <3>1. i - (Len(a) + 1) \in SlashesIn(u)
      BY <1>1, <2>1, <2>3 DEF SlashesIn
    <3>2. Len(a) + 1 + (i - (Len(a) + 1)) = i
      BY <1>1, <2>1
    <3> QED
      BY <3>1, <3>2
  <2> QED
    BY <2>2, <2>3
<1>4. Len(a) + 1 \in SlashesIn(s)
  <2>1. Len(a) + 1 \in 1..Len(s)
    BY <1>1
  <2> QED
    BY <1>1, <2>1 DEF SlashesIn
<1>5. ASSUME NEW j \in SlashesIn(u) PROVE Len(a) + 1 + j \in SlashesIn(s)
  <2>1. j \in 1..Len(u) /\ u[j] = Slash
    BY DEF SlashesIn
  <2>2. Len(a) + 1 + j \in 1..Len(s) /\ (Len(a) + 1 + j) - (Len(a) + 1) = j
    BY <1>1, <2>1
  <2>3. s[Len(a) + 1 + j] = Slash
    BY <1>1, <2>1, <2>2
  <2> QED
    BY <2>2, <2>3 DEF SlashesIn
<1> QED
  BY <1>1, <1>2, <1>3, <1>4, <1>5 DEF s

\* route_segment and route_depth of a route with two segments.
LEMMA TwoSegments ==
  ASSUME NEW a \in Text, NEW b \in Text, NEW route, route = Slashed(Separated(a, Slash, b)),
         ~Occurs(Slash, a), ~Occurs(Slash, b), Len(a) < MaxRoute, Len(b) < MaxRoute
  PROVE  Depth(route) = 2 /\ Segment(route, 0) = a /\ Segment(route, 1) = b
<1> DEFINE s == Separated(a, Slash, b)
           x == Len(a) + 1
<1>1. SlashesIn(b) = {}
  BY DEF SlashesIn, Occurs
<1>2. /\ s \in Text /\ Len(s) = Len(a) + 1 + Len(b) /\ Len(a) \in Nat /\ Len(b) \in Nat
      /\ SubSeq(s, Len(a) + 2, Len(s)) = b /\ SubSeq(s, 1, Len(s)) = s
      /\ SlashesIn(s) = {Len(a) + 1} \cup {Len(a) + 1 + i : i \in SlashesIn(b)}
  BY SlashesOfTwo
<1>3. Relative(route) = s
  BY <1>2, RelativeIs
<1>4. s = Separated(a, Slash, b)
  OBVIOUS
<1> HIDE DEF s
<1>5. SlashesIn(s) = {x, x} /\ x \in Nat /\ x + 1 = Len(a) + 2
  BY <1>1, <1>2
<1> HIDE DEF x
<1>6. Start(s, 0) = 1 /\ Start(s, 1) = x + 1 /\ Cardinality(SlashesIn(s)) = 1
  <2> DEFINE y == x
  <2>1. SlashesIn(s) = {x, y} /\ y \in Nat /\ x <= y /\ x = y
    BY <1>5
  <2> HIDE DEF y
  <2> QED
    BY <1>5, <2>1, StartsAfterSlash
<1>7. Depth(route) = 2
  <2>1. s # <<>>
    BY <1>2, EmptySeq
  <2> QED
    BY <1>3, <1>6, <2>1 DEF Depth
<1>8. Segment(route, 0) = a
  <2>1. Rest(route, 0) = s
    BY <1>2, <1>3, <1>6 DEF Rest
  <2> QED
    BY <1>4, <1>7, <2>1, 0 < 2, SegmentIs
<1>9. Segment(route, 1) = b
  <2>1. Rest(route, 1) = b
    BY <1>2, <1>3, <1>5, <1>6 DEF Rest
  <2> QED
    BY <1>7, <2>1, 1 < 2, LastSegmentIs
<1> QED
  BY <1>7, <1>8, <1>9

\* route_segment and route_depth of a route with three segments.
LEMMA ThreeSegments ==
  ASSUME NEW a \in Text, NEW b \in Text, NEW c \in Text, NEW route,
         route = Slashed(Separated(a, Slash, Separated(b, Slash, c))),
         ~Occurs(Slash, a), ~Occurs(Slash, b), ~Occurs(Slash, c),
         Len(a) < MaxRoute, Len(b) < MaxRoute, Len(c) < MaxRoute, c # <<>>
  PROVE  /\ Depth(route) = 3
         /\ Segment(route, 0) = a /\ Segment(route, 1) = b /\ Segment(route, 2) = c
<1> DEFINE t == Separated(b, Slash, c)
           s == Separated(a, Slash, t)
           x == Len(a) + 1
           y == Len(a) + 1 + (Len(b) + 1)
<1>1. SlashesIn(c) = {}
  BY DEF SlashesIn, Occurs
<1>2. /\ t \in Text /\ Len(t) = Len(b) + 1 + Len(c) /\ Len(b) \in Nat /\ Len(c) \in Nat
      /\ SubSeq(t, Len(b) + 2, Len(t)) = c
      /\ SlashesIn(t) = {Len(b) + 1} \cup {Len(b) + 1 + i : i \in SlashesIn(c)}
  BY SlashesOfTwo
<1>3. t = Separated(b, Slash, c)
  OBVIOUS
<1> HIDE DEF t
<1>4. /\ s \in Text /\ Len(s) = Len(a) + 1 + Len(t) /\ Len(a) \in Nat
      /\ SubSeq(s, Len(a) + 2, Len(s)) = t /\ SubSeq(s, 1, Len(s)) = s
      /\ SlashesIn(s) = {Len(a) + 1} \cup {Len(a) + 1 + i : i \in SlashesIn(t)}
  BY <1>2, SlashesOfTwo
<1>5. Relative(route) = s /\ s = Separated(a, Slash, t)
  BY <1>3, <1>4, RelativeIs
<1> HIDE DEF s
<1>6. SlashesIn(t) = {Len(b) + 1}
  BY <1>1, <1>2
<1>7. SlashesIn(s) = {x, y}
  BY <1>4, <1>6
<1>8. x \in Nat /\ y \in Nat /\ x <= y /\ x # y /\ x + 1 = Len(a) + 2
  BY <1>2, <1>4
<1>9. SubSeq(s, y + 1, Len(s)) = c
  <2> DEFINE m == Len(a) + 2
             k == Len(b) + 2
  <2>1. Len(c) # 0
    BY <1>2, EmptySeq DEF Text
  <2>2. /\ m \in 1..Len(s) /\ Len(s) \in 1..Len(s)
        /\ k \in 1..(Len(s) - m + 1) /\ Len(t) \in 1..(Len(s) - m + 1)
        /\ m + k - 1 = y + 1 /\ m + Len(t) - 1 = Len(s)
    BY <1>2, <1>4, <2>1
  <2> HIDE DEF m, k
  <2>3. SubSeq(SubSeq(s, m, Len(s)), k, Len(t)) = SubSeq(s, m + k - 1, m + Len(t) - 1)
    <3>1. s \in Seq(Nat) /\ t \in Seq(Nat)
      BY <1>2, <1>4 DEF Text
    <3>2. Len(s) - m + 1 \in Int
      BY <1>4, <2>2
    <3> DEFINE n == Len(s)  l == Len(t)
    <3>3. m \in 1..n /\ n \in 1..Len(s) /\ k \in 1..(n - m + 1) /\ l \in 1..(n - m + 1)
      BY <2>2
    <3> HIDE DEF n, l
    <3>4. SubSeq(SubSeq(s, m, n), k, l) = SubSeq(s, m + k - 1, m + l - 1)
      BY <3>1, <3>3, SubSeqOfSubSeq
    <3> QED
      BY <3>4 DEF n, l
  <2>4. SubSeq(s, m, Len(s)) = t /\ SubSeq(t, k, Len(t)) = c
    BY <1>2, <1>4 DEF m, k
  <2> QED
    BY <2>2, <2>3, <2>4
<1> HIDE DEF x, y
<1>10. /\ Start(s, 0) = 1 /\ Start(s, 1) = x + 1 /\ Start(s, 2) = y + 1
       /\ Cardinality(SlashesIn(s)) = 2
  BY <1>7, <1>8, StartsAfterSlash
<1>11. Depth(route) = 3
  <2>1. s # <<>>
    BY <1>2, <1>4, EmptySeq
  <2> QED
    BY <1>5, <1>10, <2>1 DEF Depth
<1>12. Segment(route, 0) = a
  <2>1. Rest(route, 0) = s
    BY <1>4, <1>5, <1>10 DEF Rest
  <2> QED
    BY <1>2, <1>5, <1>11, <2>1, 0 < 3, SegmentIs
<1>13. Segment(route, 1) = b
  <2>1. Rest(route, 1) = t
    BY <1>4, <1>5, <1>8, <1>10 DEF Rest
  <2> QED
    BY <1>3, <1>11, <2>1, 1 < 3, SegmentIs
<1>14. Segment(route, 2) = c
  <2>1. Rest(route, 2) = c
    BY <1>5, <1>9, <1>10 DEF Rest
  <2> QED
    BY <1>11, <2>1, 2 < 3, LastSegmentIs
<1> QED
  BY <1>11, <1>12, <1>13, <1>14

\* The fixed words of routes.
LEMMA Words ==
  /\ <<Slash>> \in Text /\ Len(<<Slash>>) = 1
  /\ ChatsWord \in Text /\ Len(ChatsWord) = 1 /\ ~Occurs(Slash, ChatsWord) /\ ChatsWord # <<>>
  /\ UsersWord \in Text /\ Len(UsersWord) = 2 /\ ~Occurs(Slash, UsersWord) /\ UsersWord # <<>>
  /\ MessagesWord \in Text /\ Len(MessagesWord) = 2 /\ ~Occurs(Slash, MessagesWord)
  /\ MessagesWord # <<>>
  /\ ChatsWord # UsersWord /\ UsersWord # MessagesWord /\ ChatsWord # MessagesWord
<1>1. <<Slash>> \in Text /\ Len(<<Slash>>) = 1
  BY DEF Text, Slash
<1>2. /\ ChatsWord \in Text /\ Len(ChatsWord) = 1 /\ ChatsWord[1] = 12
  BY DEF Text, ChatsWord
<1>3. /\ UsersWord \in Text /\ Len(UsersWord) = 2 /\ UsersWord[1] = 13 /\ UsersWord[2] = 14
  BY DEF Text, UsersWord
<1>4. /\ MessagesWord \in Text /\ Len(MessagesWord) = 2
      /\ MessagesWord[1] = 15 /\ MessagesWord[2] = 16
  BY DEF Text, MessagesWord
<1>5. /\ ~Occurs(Slash, ChatsWord) /\ ~Occurs(Slash, UsersWord) /\ ~Occurs(Slash, MessagesWord)
  BY <1>2, <1>3, <1>4 DEF Occurs, Slash
<1>6. ChatsWord # <<>> /\ UsersWord # <<>> /\ MessagesWord # <<>>
  <2>1. Len(<<>>) = 0
    OBVIOUS
  <2> QED
    BY <1>2, <1>3, <1>4, <2>1
<1>7. ChatsWord # UsersWord /\ UsersWord # MessagesWord /\ ChatsWord # MessagesWord
  BY <1>2, <1>3, <1>4
<1> QED
  BY <1>1, <1>2, <1>3, <1>4, <1>5, <1>6, <1>7

FromLeft(p, q, r, n, t) == (((p \o q) \o r) \o n) \o t
FromRight(p, q, r, n, t) == p \o (q \o (r \o (n \o t)))

\* Two ways to join five texts.
LEMMA RejoinedFive ==
  ASSUME NEW p \in Text, NEW q \in Text, NEW r \in Text, NEW n \in Text, NEW t \in Text
  PROVE  FromLeft(p, q, r, n, t) = FromRight(p, q, r, n, t)
<1> DEFINE pq == p \o q
           pqr == pq \o r
           nt == n \o t
           rnt == r \o nt
<1>1. pq \in Text /\ nt \in Text
  BY Joined
<1> HIDE DEF nt
<1>2. rnt \in Text
  BY <1>1, Joined
<1> HIDE DEF rnt
<1>3. (p \o q) \o rnt = p \o (q \o rnt)
  BY <1>2, Rejoined, SMTT(30)
<1> HIDE DEF pq
<1>4. pqr \in Text
  BY <1>1, Joined
<1>5. (pq \o r) \o nt = pq \o (r \o nt)
  BY <1>1, Rejoined, SMTT(30)
<1> HIDE DEF pqr
<1>6. (pqr \o n) \o t = pqr \o (n \o t)
  BY <1>4, Rejoined, SMTT(30)
<1> QED
  BY <1>3, <1>5, <1>6 DEF pq, pqr, nt, rnt, FromLeft, FromRight

\* What every route of a chat starts with.
ChatsPath == <<Slash>> \o ChatsWord \o <<Slash>>

\* The routes of chats and dialogs, by their segments.
LEMMA ChatRouteIs ==
  ASSUME NEW n \in Text, NEW w \in Text
  PROVE  /\ ChatRoute(n, Under(w)) = Slashed(Separated(ChatsWord, Slash, Separated(n, Slash, w)))
         /\ ChatRoute(n, Under(w)) = ChatsPath \o Separated(n, Slash, w)
         /\ ChatRoute(n, Under(w)) \in Text /\ Len(ChatRoute(n, Under(w))) = Len(n) + Len(w) + 4
<1> DEFINE slash == <<Slash>>
<1>1. slash \in Text /\ Len(slash) = 1 /\ ChatsWord \in Text /\ Len(ChatsWord) = 1
  BY Words
<1> HIDE DEF slash
<1> DEFINE t == slash \o w
<1>2. t \in Text /\ Len(t) = 1 + Len(w) /\ Len(w) \in Nat
  <2>1. t \in Text /\ Len(t) = Len(slash) + Len(w) /\ Len(w) \in Nat
    BY <1>1, Joined
  <2> QED
    BY <1>1, <2>1
<1> HIDE DEF t
<1> DEFINE p == (slash \o ChatsWord) \o slash
           r == (p \o n) \o t
<1>3. /\ r = slash \o (ChatsWord \o (slash \o (n \o t)))
      /\ r = p \o (n \o t)
      /\ slash \o ChatsWord \in Text /\ p \in Text /\ n \o t \in Text
  <2>1. (((slash \o ChatsWord) \o slash) \o n) \o t
          = slash \o (ChatsWord \o (slash \o (n \o t)))
    <3>1. FromLeft(slash, ChatsWord, slash, n, t) = FromRight(slash, ChatsWord, slash, n, t)
      BY <1>1, <1>2, RejoinedFive
    <3> QED
      BY <3>1 DEF FromLeft, FromRight
  <2>2. slash \o ChatsWord \in Text /\ n \o t \in Text
    BY <1>1, <1>2, Joined
  <2>3. p \in Text
    BY <1>1, <2>2, Joined
  <2>4. (p \o n) \o t = p \o (n \o t)
    <3> HIDE DEF p
    <3> QED
      BY <1>2, <2>3, Rejoined
  <2> QED
    BY <2>1, <2>2, <2>3, <2>4
<1>4. Len(p) = 3
  <2>1. Len(slash \o ChatsWord) = Len(slash) + Len(ChatsWord)
    BY <1>1, Joined
  <2>2. Len(p) = Len(slash \o ChatsWord) + Len(slash)
    BY <1>1, <1>3, Joined
  <2> QED
    BY <1>1, <2>1, <2>2
<1>5. Len(n \o t) = Len(n) + Len(t) /\ Len(n) \in Nat
  BY <1>2, Joined
<1>6. p \o (n \o t) \in Text /\ Len(p \o (n \o t)) = Len(p) + Len(n \o t)
  BY <1>3, Joined
<1>7. ChatRoute(n, Under(w)) = r
  BY DEF ChatRoute, Under, slash, t
<1>8. /\ slash \o (ChatsWord \o (slash \o (n \o t)))
           = Slashed(Separated(ChatsWord, Slash, Separated(n, Slash, w)))
      /\ p \o (n \o t) = ChatsPath \o Separated(n, Slash, w)
  BY DEF Separated, Slashed, ChatsPath, slash, t
<1> HIDE DEF p, r
<1>9. Len(r) = Len(n) + Len(w) + 4
  BY <1>2, <1>3, <1>4, <1>5, <1>6
<1> QED
  BY <1>3, <1>6, <1>7, <1>8, <1>9

\* The route of a chat without more.
LEMMA BareChatRouteIs ==
  ASSUME NEW n \in Text
  PROVE  /\ ChatRoute(n, <<>>) = Slashed(Separated(ChatsWord, Slash, n))
         /\ ChatRoute(n, <<>>) \in Text /\ Len(ChatRoute(n, <<>>)) = Len(n) + 3
         /\ ChatRoute(<<>>, <<>>) = ChatsPath /\ ChatsPath \in Text /\ Len(ChatsPath) = 3
         /\ ChatsPath[2] = 12
<1> DEFINE slash == <<Slash>>
           none == <<>>
           p == (slash \o ChatsWord) \o slash
<1>1. slash \in Text /\ Len(slash) = 1 /\ ChatsWord \in Text /\ Len(ChatsWord) = 1
  BY Words
<1>2. none \in Text /\ Len(none) = 0
  BY DEF Text
<1>3. ChatsWord[1] = 12
  BY DEF ChatsWord
<1> HIDE DEF slash, none
<1>4. ASSUME NEW a \in Text PROVE a \o none = a
  BY ConcatSimplifications DEF Text, none
<1>5. slash \o ChatsWord \in Text /\ p \in Text
  <2>1. slash \o ChatsWord \in Text
    BY <1>1, Joined
  <2> QED
    BY <1>1, <2>1, Joined
<1>6. /\ Len(slash \o ChatsWord) = Len(slash) + Len(ChatsWord)
      /\ \A i \in 1..Len(ChatsWord) : (slash \o ChatsWord)[Len(slash) + i] = ChatsWord[i]
  BY <1>1, Joined
<1>7. /\ Len(p) = Len(slash \o ChatsWord) + Len(slash)
      /\ \A i \in 1..Len(slash \o ChatsWord) : p[i] = (slash \o ChatsWord)[i]
  BY <1>1, <1>5, Joined
<1> DEFINE sc == slash \o ChatsWord
<1>8. Len(p) = 3 /\ p[2] = 12
  <2> HIDE DEF sc
  <2>1. Len(sc) = 2 /\ sc[2] = 12
    BY <1>1, <1>3, <1>6 DEF sc
  <2>2. Len(p) = Len(sc) + Len(slash) /\ \A i \in 1..Len(sc) : p[i] = sc[i]
    BY <1>7 DEF sc
  <2> HIDE DEF p
  <2> QED
    BY <1>1, <2>1, <2>2
<1>9. ((p \o n) \o none) = slash \o (ChatsWord \o (slash \o (n \o none)))
  <2>1. FromLeft(slash, ChatsWord, slash, n, none) = FromRight(slash, ChatsWord, slash, n, none)
    BY <1>1, <1>2, RejoinedFive
  <2> QED
    BY <2>1 DEF FromLeft, FromRight
<1>10. p \o n \in Text /\ Len(p \o n) = Len(p) + Len(n) /\ Len(n) \in Nat
  BY <1>5, Joined
<1>11. n \o none = n /\ p \o none = p /\ (p \o none) \o none = p /\ (p \o n) \o none = p \o n
  BY <1>4, <1>5, <1>10
<1>12. ChatRoute(n, <<>>) = p \o n /\ ChatRoute(n, <<>>) = slash \o (ChatsWord \o (slash \o n))
  BY <1>9, <1>11 DEF ChatRoute, slash, none
<1>13. ChatRoute(<<>>, <<>>) = p /\ ChatsPath = p
  BY <1>11 DEF ChatRoute, ChatsPath, slash, none
<1>14. ChatRoute(n, <<>>) = Slashed(Separated(ChatsWord, Slash, n))
  BY <1>12 DEF Separated, Slashed, slash
<1> HIDE DEF p
<1>15. Len(p \o n) = Len(n) + 3
  BY <1>8, <1>10
<1> QED
  BY <1>5, <1>8, <1>10, <1>12, <1>13, <1>14, <1>15

\* The route of a dialog.
LEMMA DialogRouteIs ==
  ASSUME NEW n \in Text
  PROVE  /\ DialogRoute(n) = Slashed(Separated(UsersWord, Slash, Separated(n, Slash, MessagesWord)))
         /\ DialogRoute(n) \in Text /\ Len(DialogRoute(n)) = Len(n) + 7 /\ Len(n) \in Nat
         /\ DialogRoute(n)[2] = 13
<1> DEFINE slash == <<Slash>>
           t == slash \o MessagesWord
           u == n \o t
           v == slash \o u
           w == UsersWord \o v
           r == slash \o w
<1>1. /\ slash \in Text /\ Len(slash) = 1
      /\ UsersWord \in Text /\ Len(UsersWord) = 2
      /\ MessagesWord \in Text /\ Len(MessagesWord) = 2
  BY Words
<1>2. UsersWord[1] = 13
  BY DEF UsersWord
<1> HIDE DEF slash
<1>3. t \in Text /\ Len(t) = Len(slash) + Len(MessagesWord)
  BY <1>1, Joined
<1>4. (((slash \o UsersWord) \o slash) \o n) \o t = slash \o (UsersWord \o (slash \o (n \o t)))
  <2>1. FromLeft(slash, UsersWord, slash, n, t) = FromRight(slash, UsersWord, slash, n, t)
    BY <1>1, <1>3, RejoinedFive
  <2> QED
    BY <2>1 DEF FromLeft, FromRight
<1>5. ((((slash \o UsersWord) \o slash) \o n) \o slash) \o MessagesWord
        = (((slash \o UsersWord) \o slash) \o n) \o t
  <2>1. slash \o UsersWord \in Text
    BY <1>1, Joined
  <2>2. (slash \o UsersWord) \o slash \in Text
    BY <1>1, <2>1, Joined
  <2>3. ((slash \o UsersWord) \o slash) \o n \in Text
    BY <2>2, Joined
  <2> QED
    BY <1>1, <2>3, Rejoined
<1>6. DialogRoute(n) = r
  BY <1>4, <1>5 DEF DialogRoute, slash
<1>7. r = Slashed(Separated(UsersWord, Slash, Separated(n, Slash, MessagesWord)))
  BY DEF Separated, Slashed, slash
<1> HIDE DEF t
<1>8. u \in Text /\ Len(u) = Len(n) + Len(t) /\ Len(n) \in Nat
  BY <1>3, Joined
<1> HIDE DEF u
<1>9. v \in Text /\ Len(v) = Len(slash) + Len(u)
  BY <1>1, <1>8, Joined
<1> HIDE DEF v
<1>10. w \in Text /\ Len(w) = Len(UsersWord) + Len(v) /\ \A i \in 1..Len(UsersWord) : w[i] = UsersWord[i]
  BY <1>1, <1>9, Joined
<1> HIDE DEF w
<1>11. r \in Text /\ Len(r) = Len(slash) + Len(w) /\ \A i \in 1..Len(w) : r[Len(slash) + i] = w[i]
  BY <1>1, <1>10, Joined
<1> HIDE DEF r
<1>12. Len(r) = Len(n) + 7
  BY <1>1, <1>3, <1>8, <1>9, <1>10, <1>11
<1>13. r[2] = 13
  <2>1. 1 \in 1..Len(UsersWord) /\ 1 \in 1..Len(w) /\ Len(slash) + 1 = 2
    BY <1>1, <1>3, <1>8, <1>9, <1>10
  <2> QED
    BY <1>2, <1>10, <1>11, <2>1
<1> QED
  BY <1>6, <1>7, <1>8, <1>11, <1>12, <1>13

-----------------------------------------------------------------------------
(* Which handler a whole route reaches. *)

Ops == {"read", "readuser", "members", "add", "remove", "leave", "delete", "post", "postuser"}
Dialogs == {"readuser", "postuser"}
RouteOf(op, n) ==
  IF op \in Dialogs THEN DialogRoute(n)
  ELSE IF op = "delete" THEN ChatRoute(n, <<>>)
  ELSE ChatRoute(n, Under(IF op \in {"read", "post"} THEN MessagesWord ELSE UsersWord))
TypeOf(op) ==
  IF op \in {"read", "readuser", "members"} THEN "GET"
  ELSE IF op \in {"add", "post", "postuser"} THEN "POST" ELSE "DELETE"
MeantBy(op) == IF op = "leave" THEN "remove" ELSE op

\* A whole route reaches the handler it was made for.
LEMMA WholeRouteArrives ==
  ASSUME NEW n \in Text, ~Occurs(Slash, n), Len(n) + 6 < MaxRoute, NEW op \in Ops
  PROVE  /\ Handler(TypeOf(op), RouteOf(op, n)) = MeantBy(op)
         /\ Segment(RouteOf(op, n), 1) = n
<1> DEFINE route == RouteOf(op, n)
<1>1. /\ Len(n) \in Nat /\ Len(n) < MaxRoute /\ 2 < MaxRoute /\ 1 < MaxRoute
  BY LenProperties, NamesAssumption DEF Text
<1>2. ASSUME NEW w \in {UsersWord, MessagesWord}
      PROVE  /\ Depth(ChatRoute(n, Under(w))) = 3
             /\ Segment(ChatRoute(n, Under(w)), 0) = ChatsWord
             /\ Segment(ChatRoute(n, Under(w)), 1) = n
             /\ Segment(ChatRoute(n, Under(w)), 2) = w
  <2>1. /\ w \in Text /\ ~Occurs(Slash, w) /\ w # <<>> /\ Len(w) < MaxRoute
        /\ ChatsWord \in Text /\ ~Occurs(Slash, ChatsWord) /\ Len(ChatsWord) < MaxRoute
    BY <1>1, Words
  <2>2. ChatRoute(n, Under(w)) = Slashed(Separated(ChatsWord, Slash, Separated(n, Slash, w)))
    BY <2>1, ChatRouteIs
  <2> QED
    BY <1>1, <2>1, <2>2, ThreeSegments
<1>3. /\ Depth(DialogRoute(n)) = 3
      /\ Segment(DialogRoute(n), 0) = UsersWord
      /\ Segment(DialogRoute(n), 1) = n
      /\ Segment(DialogRoute(n), 2) = MessagesWord
  <2>1. /\ UsersWord \in Text /\ ~Occurs(Slash, UsersWord) /\ Len(UsersWord) < MaxRoute
        /\ MessagesWord \in Text /\ ~Occurs(Slash, MessagesWord) /\ Len(MessagesWord) < MaxRoute
        /\ MessagesWord # <<>>
    BY <1>1, Words
  <2>2. DialogRoute(n) = Slashed(Separated(UsersWord, Slash, Separated(n, Slash, MessagesWord)))
    BY DialogRouteIs
  <2> QED
    BY <1>1, <2>1, <2>2, ThreeSegments
<1>4. /\ Depth(ChatRoute(n, <<>>)) = 2
      /\ Segment(ChatRoute(n, <<>>), 0) = ChatsWord
      /\ Segment(ChatRoute(n, <<>>), 1) = n
  <2>1. ChatsWord \in Text /\ ~Occurs(Slash, ChatsWord) /\ Len(ChatsWord) < MaxRoute
    BY <1>1, Words
  <2>2. ChatRoute(n, <<>>) = Slashed(Separated(ChatsWord, Slash, n))
    BY BareChatRouteIs
  <2> QED
    BY <1>1, <2>1, <2>2, TwoSegments
<1>5. ChatsWord # UsersWord /\ UsersWord # MessagesWord /\ ChatsWord # MessagesWord
  BY Words
<1>6. CASE op = "readuser"
  BY <1>3, <1>5, <1>6 DEF Handler, RouteOf, TypeOf, MeantBy, Dialogs
<1>7. CASE op = "postuser"
  BY <1>3, <1>5, <1>7 DEF Handler, RouteOf, TypeOf, MeantBy, Dialogs
<1>8. CASE op = "delete"
  BY <1>4, <1>5, <1>8 DEF Handler, RouteOf, TypeOf, MeantBy, Dialogs
<1>9. CASE op = "read"
  BY <1>2, <1>5, <1>9 DEF Handler, RouteOf, TypeOf, MeantBy, Dialogs
<1>10. CASE op = "post"
  BY <1>2, <1>5, <1>10 DEF Handler, RouteOf, TypeOf, MeantBy, Dialogs
<1>11. CASE op = "members"
  BY <1>2, <1>5, <1>11 DEF Handler, RouteOf, TypeOf, MeantBy, Dialogs
<1>12. CASE op = "add"
  BY <1>2, <1>5, <1>12 DEF Handler, RouteOf, TypeOf, MeantBy, Dialogs
<1>13. CASE op \in {"remove", "leave"}
  BY <1>2, <1>5, <1>13 DEF Handler, RouteOf, TypeOf, MeantBy, Dialogs
<1> QED
  BY <1>6, <1>7, <1>8, <1>9, <1>10, <1>11, <1>12, <1>13 DEF Ops

\* The length of a text that is cut, and its characters.
LEMMA CutChars ==
  ASSUME NEW s \in Text, NEW size \in Nat \ {0}
  PROVE  /\ Len(s) \in Nat /\ Len(Cut(s, size)) = IF Len(s) < size THEN Len(s) ELSE size - 1
         /\ \A i \in 1..Len(Cut(s, size)) : Cut(s, size)[i] = s[i]
<1>1. Len(s) \in Nat
  BY LenProperties DEF Text
<1> DEFINE n == IF Len(s) < size THEN Len(s) ELSE size - 1
<1>2. n \in Nat /\ n <= Len(s)
  BY <1>1
<1>3. Cut(s, size) = SubSeq(s, 1, n)
  BY DEF Cut
<1> HIDE DEF n
<1>4. /\ Len(SubSeq(s, 1, n)) = IF 1 <= n THEN n - 1 + 1 ELSE 0
      /\ \A i \in 1..(n - 1 + 1) : SubSeq(s, 1, n)[i] = s[1 + i - 1]
  BY <1>2, PartOf
<1>5. Len(SubSeq(s, 1, n)) = n /\ \A i \in 1..n : SubSeq(s, 1, n)[i] = s[i]
  BY <1>2, <1>4
<1> QED
  BY <1>1, <1>3, <1>5 DEF n

\* current_chat_name finds the name in the route of a chat that was not cut.
LEMMA NameOfCurrent ==
  ASSUME NEW n \in Text, ~Occurs(Slash, n), current = ChatRoute(n, Under(MessagesWord))
  PROVE  CurrentName = n
<1> DEFINE t == Separated(n, Slash, MessagesWord)
<1>1. current = ChatsPath \o t /\ ChatsPath \in Text /\ Len(ChatsPath) = 3 /\ MessagesWord \in Text
  BY Words, ChatRouteIs, BareChatRouteIs
<1>2. /\ Occurs(Slash, t) /\ FirstAt(t, Slash) = Len(n) + 1 /\ SubSeq(t, 1, Len(n)) = n
      /\ Len(n) \in Nat
  BY <1>1, SplitAtSlash
<1>3. t \in Text
  BY <1>1, SlashesOfTwo
<1> HIDE DEF t
<1>4. SubSeq(current, Len(ChatsPath) + 1, Len(ChatsPath) + Len(t)) = t
  BY <1>1, <1>3, PartsOfJoined, ZenonT(40)
<1>5. Len(current) = Len(ChatsPath) + Len(t)
  <2>1. Len(ChatsPath \o t) = Len(ChatsPath) + Len(t)
    BY <1>1, <1>3, Joined
  <2> QED
    BY <1>1, <2>1
<1>6. SubSeq(current, 4, Len(current)) = t
  BY <1>1, <1>4, <1>5
<1>7. (Len(n) + 1) - 1 = Len(n)
  BY <1>2
<1> QED
  BY <1>2, <1>6, <1>7 DEF CurrentName

-----------------------------------------------------------------------------
(* The invariant: what is kept are texts, the current route is that of     *)
(* what is open, and a request about a plain name has a whole route.       *)

Typed ==
  /\ login \in Text \ {Nobody} /\ opened \in Text /\ current \in Text
  /\ req.name \in Text /\ req.route \in Text
  /\ handled.name \in Text /\ handled.by \in Text
  /\ written = NothingWritten \/ \E a, b \in Text : written = Written(a, b)

ChatRead(n) == ChatRoute(Cut(n, MaxRoute), Under(MessagesWord))
DialogRead(l) == Cut(DialogRoute(Cut(l, MaxLogin)), MaxRoute)

CurrentIsOpened ==
  current \in {<<>>, Cut(ChatRead(opened), MaxRoute), Cut(DialogRead(opened), MaxRoute)}

PlainFor(op, n) ==
  /\ ~Occurs(Slash, n)
  /\ IF op \in Dialogs THEN Len(n) < MaxLogin /\ Len(n) + 7 < MaxRoute
                       ELSE Len(n) + 6 < MaxRoute

AskedRight(op, n, type, route) ==
  /\ op = "read" => route = ChatRead(n)
  /\ op = "readuser" => route = DialogRead(n)
  /\ PlainFor(op, n) => op \in Ops /\ route = RouteOf(op, n) /\ type = TypeOf(op)

Asked == req # NoRequest => AskedRight(req.op, req.name, req.type, req.route)

NInv == Typed /\ CurrentIsOpened /\ Asked /\ TokenOfOwner /\ ReachesHandler

\* A text over fewer characters is a text.
LEMMA NamesAreTexts == Users \cup ChatNames \subseteq Text /\ <<>> \in Text
<1> DEFINE C == {Dash, Slash, Colon} \cup Letters \cup {13, 14}
<1>1. C \subseteq Nat
  BY DEF Dash, Slash, Colon, Letters
<1> HIDE DEF C
<1>2. ASSUME NEW s \in Seq(C) PROVE s \in Seq(Nat)
  <2>1. Len(s) \in Nat /\ DOMAIN s = 1..Len(s) /\ s = [i \in 1..Len(s) |-> s[i]]
        /\ \A i \in 1..Len(s) : s[i] \in C
    BY SeqDef, LenProperties, ElementOfSeq
  <2>2. s \in [1..Len(s) -> Nat]
    BY <1>1, <2>1
  <2> QED
    BY <2>1, <2>2, SeqDef
<1> QED
  BY <1>2, NamesAssumption, EmptySeq DEF C, Text

\* A segment of a text is a text.
LEMMA SegmentText ==
  ASSUME NEW route \in Text
  PROVE  Segment(route, 1) \in Text
<1> DEFINE s == Relative(route)
           T == SlashesIn(s)
           k == CHOOSE j \in T : Cardinality({i \in T : i <= j}) = 1
           from == SubSeq(s, k + 1, Len(s))
           seg == IF Occurs(Slash, from) THEN SubSeq(from, 1, FirstAt(from, Slash) - 1) ELSE from
<1>1. s \in Text
  BY HeadTailProperties DEF Relative, Text
<1> HIDE DEF s
<1>2. T \subseteq 1..Len(s) /\ Len(s) \in Nat
  BY <1>1, LenProperties DEF SlashesIn, Text
<1>3. CASE 1 < Depth(route)
  <2>1. T # {}
    <3>1. T = {} => Cardinality(T) + 1 = 1
      BY FS_EmptySet
    <3> QED
      BY <1>3, <3>1 DEF Depth, s
  <2> HIDE DEF T
  <2>2. PICK j \in T : \A i \in 1..(j - 1) : i \notin T
    BY <1>2, <2>1, FirstIndex
  <2>3. {i \in T : i <= j} = {j}
    <3>1. \A i \in T : i <= j => i = j \/ i \in 1..(j - 1)
      BY <1>2
    <3>2. j \in T /\ j <= j /\ \A i \in T : i <= j => i = j
      BY <1>2, <2>2, <3>1
    <3> QED
      BY <3>2
  <2>4. Cardinality({i \in T : i <= j}) = 1
    BY <2>3, FS_Singleton
  <2>5. k \in T
    BY <2>4
  <2> HIDE DEF k
  <2>6. k + 1 \in Int /\ Len(s) \in Int /\ k + 1 >= 1
    BY <1>2, <2>5
  <2>7. from \in Text
    <3> DEFINE m == k + 1
    <3>1. m \in Int /\ m >= 1 /\ Len(s) <= Len(s)
      BY <1>2, <2>6
    <3> HIDE DEF m
    <3>2. SubSeq(s, m, Len(s)) \in Text
      BY <1>1, <2>6, <3>1, PartOf
    <3> QED
      BY <3>2 DEF m
  <2> HIDE DEF from
  <2>8. seg \in Text
    <3>1. CASE Occurs(Slash, from)
      <4> DEFINE f == FirstAt(from, Slash)
                 g == f - 1
      <4>1. f \in 1..Len(from) /\ Len(from) \in Nat
        BY <2>7, <3>1, FirstAtFound, LenProperties DEF Text
      <4> HIDE DEF f
      <4>2. g \in Int /\ g <= Len(from)
        BY <4>1
      <4> HIDE DEF g
      <4>3. SubSeq(from, 1, g) \in Text
        BY <2>7, <4>2, PartOf
      <4> QED
        BY <3>1, <4>3 DEF f, g
    <3> QED
      BY <2>7, <3>1
  <2> HIDE DEF seg
  <2>9. Segment(route, 1) = IF 1 < Depth(route) /\ Len(seg) < MaxRoute THEN seg ELSE <<>>
    <3>1. Start(s, 1) = 1 + k
      BY 1 # 0 DEF Start, k, T
    <3>2. 1 + k = k + 1
      BY <1>2, <2>5
    <3>3. SubSeq(s, Start(s, 1), Len(s)) = from
      BY <3>1, <3>2 DEF from
    <3> QED
      BY <3>3 DEF Segment, s, seg
  <2> QED
    BY <2>8, <2>9, NamesAreTexts
<1>4. CASE ~(1 < Depth(route))
  BY <1>4, NamesAreTexts DEF Segment
<1> QED
  BY <1>3, <1>4

\* The route of what was read, and what is left of it in the buffers.
LEMMA ReadsAreTexts ==
  ASSUME NEW n \in Text
  PROVE  /\ ChatRead(n) \in Text /\ DialogRead(n) \in Text
         /\ Cut(ChatRead(n), MaxRoute) \in Text /\ Cut(DialogRead(n), MaxRoute) \in Text
<1>1. MaxRoute \in Nat /\ MaxLogin \in Nat
  BY NamesAssumption
<1>2. ChatRead(n) \in Text
  BY <1>1, CutText, ChatRouteIs, Words DEF ChatRead
<1>3. DialogRead(n) \in Text
  BY <1>1, CutText, DialogRouteIs DEF DialogRead
<1> QED
  BY <1>1, <1>2, <1>3, CutText

\* A plain name is in the whole route that was read for it.
LEMMA PlainIsWhole ==
  ASSUME NEW n \in Text, Len(n) + 6 < MaxRoute
  PROVE  /\ ChatRead(n) = ChatRoute(n, Under(MessagesWord))
         /\ Cut(ChatRead(n), MaxRoute) = ChatRoute(n, Under(MessagesWord))
         /\ Cut(ChatRoute(n, Under(UsersWord)), MaxRoute) = ChatRoute(n, Under(UsersWord))
         /\ Cut(ChatRoute(n, Under(UsersWord)), 2 * MaxRoute) = ChatRoute(n, Under(UsersWord))
         /\ Cut(ChatRoute(Cut(n, MaxRoute), <<>>), MaxRoute) = ChatRoute(n, <<>>)
         /\ Len(n) < MaxLogin /\ Len(n) + 7 < MaxRoute =>
              /\ DialogRead(n) = DialogRoute(n)
              /\ Cut(DialogRead(n), MaxRoute) = DialogRoute(n)
<1>1. MaxRoute \in Nat /\ MaxLogin \in Nat /\ 2 * MaxRoute \in Nat /\ Len(n) \in Nat
  BY NamesAssumption, LenProperties DEF Text
<1>2. Len(n) < MaxRoute /\ Len(n) + 3 < MaxRoute /\ Len(n) + 6 < 2 * MaxRoute
  BY <1>1
<1>3. Cut(n, MaxRoute) = n
  BY <1>1, <1>2, CutText
<1>4. ASSUME NEW w \in {UsersWord, MessagesWord}
      PROVE  ChatRoute(n, Under(w)) \in Text /\ Len(ChatRoute(n, Under(w))) = Len(n) + 6
  <2>1. w \in Text /\ Len(w) = 2
    BY Words
  <2>2. ChatRoute(n, Under(w)) \in Text /\ Len(ChatRoute(n, Under(w))) = Len(n) + Len(w) + 4
    BY <2>1, ChatRouteIs
  <2> QED
    BY <1>1, <2>1, <2>2
<1>5. ChatRoute(n, <<>>) \in Text /\ Len(ChatRoute(n, <<>>)) = Len(n) + 3
  BY BareChatRouteIs
<1>6. DialogRoute(n) \in Text /\ Len(DialogRoute(n)) = Len(n) + 7
  BY DialogRouteIs
<1>7. ChatRead(n) = ChatRoute(n, Under(MessagesWord))
  BY <1>3 DEF ChatRead
<1>8. Cut(ChatRead(n), MaxRoute) = ChatRoute(n, Under(MessagesWord))
  BY <1>1, <1>4, <1>7, CutText
<1>9. /\ Cut(ChatRoute(n, Under(UsersWord)), MaxRoute) = ChatRoute(n, Under(UsersWord))
      /\ Cut(ChatRoute(n, Under(UsersWord)), 2 * MaxRoute) = ChatRoute(n, Under(UsersWord))
  BY <1>1, <1>2, <1>4, CutText
<1>10. Cut(ChatRoute(Cut(n, MaxRoute), <<>>), MaxRoute) = ChatRoute(n, <<>>)
  BY <1>1, <1>2, <1>3, <1>5, CutText
<1>11. ASSUME Len(n) < MaxLogin /\ Len(n) + 7 < MaxRoute
       PROVE  DialogRead(n) = DialogRoute(n) /\ Cut(DialogRead(n), MaxRoute) = DialogRoute(n)
  <2>1. Cut(n, MaxLogin) = n
    BY <1>1, <1>11, CutText
  <2>2. Cut(DialogRoute(n), MaxRoute) = DialogRoute(n)
    BY <1>1, <1>6, <1>11, CutText
  <2> QED
    BY <2>1, <2>2 DEF DialogRead
<1> QED
  BY <1>7, <1>8, <1>9, <1>10, <1>11

\* What Asking does to the invariant, when the route is right.
LEMMA AskingKeeps ==
  ASSUME NInv, NEW op, NEW n \in Text, NEW type, NEW route \in Text,
         Asking(op, n, type, route), AskedRight(op, n, type, route)
  PROVE  NInv'
<1>1. /\ req' = [op |-> op, name |-> n, type |-> type, route |-> route]
      /\ handled' = NotHandled
      /\ login' = login /\ opened' = opened /\ current' = current /\ written' = written
  BY DEF Asking
<1>2. req'.op = op /\ req'.name = n /\ req'.type = type /\ req'.route = route
  BY <1>1
<1>3. NotHandled.name = <<>> /\ NotHandled.by = <<>>
  BY DEF NotHandled, Nobody
<1>4. Typed'
  BY <1>1, <1>2, <1>3, NamesAreTexts DEF NInv, Typed
<1>5. CurrentIsOpened'
  BY <1>1 DEF NInv, CurrentIsOpened
<1>6. Asked'
  BY <1>2 DEF Asked
<1>7. TokenOfOwner' /\ ReachesHandler'
  BY <1>1, <1>3 DEF TokenOfOwner, ReachesHandler, Nobody
<1> QED
  BY <1>4, <1>5, <1>6, <1>7 DEF NInv

\* Requests that are made for a name of the lists.
LEMMA OpenChatKeeps ==
  ASSUME NInv, NEW n \in ChatNames, OpenChat(n)
  PROVE  NInv'
<1>1. n \in Text /\ ChatRead(n) \in Text
  BY NamesAreTexts, ReadsAreTexts
<1>2. AskedRight("read", n, "GET", ChatRead(n))
  BY <1>1, PlainIsWhole DEF AskedRight, PlainFor, Ops, Dialogs, RouteOf, TypeOf
<1> QED
  BY <1>1, <1>2, AskingKeeps DEF OpenChat, ChatRead

\* A dialog is opened from the list of users.
LEMMA OpenDialogKeeps ==
  ASSUME NInv, NEW l \in Users, OpenDialog(l)
  PROVE  NInv'
<1>1. l \in Text /\ DialogRead(l) \in Text
  BY NamesAreTexts, ReadsAreTexts
<1>2. AskedRight("readuser", l, "GET", DialogRead(l))
  <2>1. ASSUME PlainFor("readuser", l) PROVE DialogRead(l) = DialogRoute(l)
    <3>1. Len(l) < MaxLogin /\ Len(l) + 7 < MaxRoute
      BY <2>1 DEF PlainFor, Dialogs
    <3>2. Len(l) + 6 < MaxRoute
      BY <3>1, NamesAssumption, LenProperties, <1>1 DEF Text
    <3> QED
      BY <1>1, <3>1, <3>2, PlainIsWhole
  <2> QED
    BY <2>1 DEF AskedRight, Ops, Dialogs, RouteOf, TypeOf
<1> QED
  BY <1>1, <1>2, AskingKeeps DEF OpenDialog, DialogRead

\* A chat is deleted.
LEMMA DeleteKeeps ==
  ASSUME NInv, NEW n \in ChatNames, Delete(n)
  PROVE  NInv'
<1> DEFINE route == Cut(ChatRoute(Cut(n, MaxRoute), <<>>), MaxRoute)
<1>1. n \in Text /\ route \in Text
  BY NamesAreTexts, NamesAssumption, CutText, BareChatRouteIs
<1>2. AskedRight("delete", n, "DELETE", route)
  BY <1>1, PlainIsWhole DEF AskedRight, PlainFor, Ops, Dialogs, RouteOf, TypeOf
<1> HIDE DEF route
<1> QED
  BY <1>1, <1>2, AskingKeeps DEF Delete, route

\* What is in g_current_chat when the screen is a chat, or a dialog, and what
\* is open has a plain name.
LEMMA CurrentOfChat ==
  ASSUME NInv, InChat, ~Occurs(Slash, opened), Len(opened) + 6 < MaxRoute
  PROVE  current = ChatRoute(opened, Under(MessagesWord)) /\ CurrentName = opened
<1>1. opened \in Text /\ current \in Text /\ MaxRoute \in Nat \ {0}
  BY NamesAssumption, LenProperties DEF NInv, Typed, Text
<1>2. current = ChatRoute(opened, Under(MessagesWord))
  <2>1. CASE current = <<>>
    BY <2>1 DEF InChat
  <2>2. CASE current = Cut(ChatRead(opened), MaxRoute)
    BY <1>1, <2>2, PlainIsWhole
  <2>3. CASE current = Cut(DialogRead(opened), MaxRoute)
    <3> DEFINE d == DialogRoute(Cut(opened, MaxLogin))
               e == Cut(d, MaxRoute)
    <3>1. d \in Text /\ d[2] = 13
      BY <1>1, NamesAssumption, CutText, DialogRouteIs
    <3> HIDE DEF d
    <3>2. e \in Text /\ \A i \in 1..Len(e) : e[i] = d[i]
      BY <1>1, <3>1, CutText, CutChars
    <3>3. Len(e) \in Nat /\ Len(Cut(e, MaxRoute)) <= Len(e)
          /\ \A i \in 1..Len(Cut(e, MaxRoute)) : Cut(e, MaxRoute)[i] = e[i]
      <4> HIDE DEF e
      <4> QED
        BY <1>1, <3>2, CutChars
    <3>4. current = Cut(e, MaxRoute)
      BY <2>3 DEF DialogRead, d
    <3> HIDE DEF e
    <3>5. Len(current) > 2 /\ Len(current) \in Nat
      BY <1>1, LenProperties DEF InChat, Text
    <3>6. current[2] = 13
      <4>1. 2 \in 1..Len(current) /\ 2 \in 1..Len(e)
        BY <3>3, <3>4, <3>5
      <4> QED
        BY <3>1, <3>2, <3>3, <3>4, <4>1
    <3>7. SubSeq(current, 1, 3)[2] = current[2]
      <4>1. \A i \in 1..(3 - 1 + 1) : SubSeq(current, 1, 3)[i] = current[1 + i - 1]
        BY <1>1, <3>5, PartOf
      <4> QED
        BY <4>1
    <3>8. SubSeq(current, 1, 3)[2] = 12
      BY <1>1, BareChatRouteIs DEF InChat
    <3> QED
      BY <3>6, <3>7, <3>8
  <2> QED
    BY <2>1, <2>2, <2>3 DEF NInv, CurrentIsOpened
<1> QED
  BY <1>1, <1>2, NameOfCurrent

\* The same of a dialog.
LEMMA CurrentOfDialog ==
  ASSUME NInv, InDialog, Len(opened) < MaxLogin, Len(opened) + 7 < MaxRoute
  PROVE  current = DialogRoute(opened)
<1>1. opened \in Text /\ current \in Text /\ Len(opened) \in Nat /\ Len(opened) + 6 < MaxRoute
  BY NamesAssumption, LenProperties DEF NInv, Typed, Text
<1>2. CASE current = Cut(ChatRead(opened), MaxRoute)
  <2> DEFINE t == Separated(opened, Slash, MessagesWord)
  <2>1. current = ChatsPath \o t /\ t \in Text
    BY <1>1, <1>2, PlainIsWhole, ChatRouteIs, Words, Joined DEF Separated
  <2>2. ChatsPath \in Text /\ Len(ChatsPath) = 3 /\ ChatRoute(<<>>, <<>>) = ChatsPath
    BY <1>1, BareChatRouteIs
  <2>3. SubSeq(current, 1, 3) = ChatsPath
    BY <2>1, <2>2, PartsOfJoined, ZenonT(40)
  <2>4. Len(current) = Len(opened) + 6
    <3>1. MessagesWord \in Text /\ Len(MessagesWord) = 2
      BY Words
    <3>2. current = ChatRoute(opened, Under(MessagesWord))
      BY <1>1, <1>2, PlainIsWhole
    <3>3. Len(ChatRoute(opened, Under(MessagesWord))) = Len(opened) + Len(MessagesWord) + 4
      BY <1>1, <3>1, ChatRouteIs
    <3> QED
      BY <1>1, <3>1, <3>2, <3>3
  <2> QED
    BY <1>1, <2>2, <2>3, <2>4 DEF InDialog, InChat
<1>3. CASE current = Cut(DialogRead(opened), MaxRoute)
  BY <1>1, <1>3, PlainIsWhole
<1> QED
  BY <1>2, <1>3 DEF NInv, CurrentIsOpened, InDialog

\* The name in the current route is a text.
LEMMA CurrentNameText == ASSUME NInv, InChat PROVE CurrentName \in Text
<1> DEFINE p == SubSeq(current, 4, Len(current))
<1>1. current \in Text /\ Len(current) \in Nat
  BY LenProperties DEF NInv, Typed, Text
<1>2. p \in Text
  <2> DEFINE n == Len(current)
  <2>1. n \in Int /\ n <= Len(current)
    BY <1>1
  <2> HIDE DEF n
  <2>2. SubSeq(current, 4, n) \in Text
    BY <1>1, <2>1, PartOf
  <2> QED
    BY <2>2 DEF n
<1> HIDE DEF p
<1>3. CASE Occurs(Slash, p)
  <2> DEFINE g == FirstAt(p, Slash) - 1
  <2>1. FirstAt(p, Slash) \in 1..Len(p) /\ Len(p) \in Nat
    BY <1>2, <1>3, FirstAtFound, LenProperties DEF Text
  <2>2. g \in Int /\ g <= Len(p)
    BY <2>1
  <2> HIDE DEF g
  <2>3. SubSeq(p, 1, g) \in Text
    BY <1>2, <2>2, PartOf
  <2> QED
    BY <1>3, <2>3 DEF CurrentName, p, g
<1>4. CASE ~Occurs(Slash, p)
  BY <1>2, <1>4 DEF CurrentName, p
<1> QED
  BY <1>3, <1>4

\* Requests about the chat that is open.
LEMMA MembersKeeps ==
  ASSUME NInv, Members
  PROVE  NInv'
<1> DEFINE route == Cut(ChatRoute(CurrentName, Under(UsersWord)), 2 * MaxRoute)
<1>1. opened \in Text
  BY DEF NInv, Typed
<1>2. route \in Text
  <2>1. CurrentName \in Text /\ 2 * MaxRoute \in Nat
    BY CurrentNameText, NamesAssumption DEF Members
  <2> QED
    BY <2>1, CutText, ChatRouteIs, Words
<1>3. AskedRight("members", opened, "GET", route)
  <2>1. ASSUME PlainFor("members", opened) PROVE route = ChatRoute(opened, Under(UsersWord))
    <3>1. ~Occurs(Slash, opened) /\ Len(opened) + 6 < MaxRoute
      BY <2>1 DEF PlainFor, Dialogs
    <3>2. CurrentName = opened
      BY <3>1, CurrentOfChat DEF Members
    <3> QED
      BY <1>1, <3>1, <3>2, PlainIsWhole
  <2> HIDE DEF route
  <2> QED
    BY <2>1 DEF AskedRight, Ops, Dialogs, RouteOf, TypeOf
<1> HIDE DEF route
<1>4. Asking("members", opened, "GET", route)
  BY DEF Members, route
<1> QED
  BY <1>1, <1>2, <1>3, <1>4, AskingKeeps

\* Members are added, removed, or leave.
LEMMA ChangeKeeps ==
  ASSUME NInv, NEW op, NEW type,
         <<op, type>> \in {<<"add", "POST">>, <<"remove", "DELETE">>, <<"leave", "DELETE">>},
         Change(op, type)
  PROVE  NInv'
<1> DEFINE route == Cut(ChatRoute(CurrentName, Under(UsersWord)), MaxRoute)
<1>1. opened \in Text
  BY DEF NInv, Typed
<1>2. route \in Text
  <2>1. CurrentName \in Text
    BY CurrentNameText DEF Change
  <2> QED
    BY <2>1, NamesAssumption, CutText, ChatRouteIs, Words
<1>3. AskedRight(op, opened, type, route)
  <2>1. ASSUME PlainFor(op, opened) PROVE route = ChatRoute(opened, Under(UsersWord))
    <3>1. ~Occurs(Slash, opened) /\ Len(opened) + 6 < MaxRoute
      BY <2>1 DEF PlainFor, Dialogs
    <3>2. CurrentName = opened
      BY <3>1, CurrentOfChat DEF Change
    <3> QED
      BY <1>1, <3>1, <3>2, PlainIsWhole
  <2> HIDE DEF route
  <2>2. CASE op = "add" /\ type = "POST"
    BY <2>1, <2>2 DEF AskedRight, Ops, Dialogs, RouteOf, TypeOf
  <2>3. CASE op \in {"remove", "leave"} /\ type = "DELETE"
    BY <2>1, <2>3 DEF AskedRight, Ops, Dialogs, RouteOf, TypeOf
  <2> QED
    BY <2>2, <2>3
<1> HIDE DEF route
<1>4. Asking(op, opened, type, route)
  BY DEF Change, route
<1> QED
  BY <1>1, <1>2, <1>3, <1>4, AskingKeeps

\* What is sent goes to the route that is open, as it is.
LEMMA PostKeeps ==
  ASSUME NInv, PostToChat \/ PostToUser
  PROVE  NInv'
<1>1. opened \in Text /\ current \in Text
  BY DEF NInv, Typed
<1>2. CASE PostToChat
  <2>1. AskedRight("post", opened, "POST", current)
    <3>1. ASSUME PlainFor("post", opened)
          PROVE  current = ChatRoute(opened, Under(MessagesWord))
      <4>1. ~Occurs(Slash, opened) /\ Len(opened) + 6 < MaxRoute
        BY <3>1 DEF PlainFor, Dialogs
      <4> QED
        BY <1>2, <4>1, CurrentOfChat DEF PostToChat
    <3> QED
      BY <3>1 DEF AskedRight, Ops, Dialogs, RouteOf, TypeOf
  <2> QED
    BY <1>1, <1>2, <2>1, AskingKeeps DEF PostToChat
<1>3. CASE PostToUser
  <2>1. AskedRight("postuser", opened, "POST", current)
    <3>1. ASSUME PlainFor("postuser", opened) PROVE current = DialogRoute(opened)
      <4>1. Len(opened) < MaxLogin /\ Len(opened) + 7 < MaxRoute
        BY <3>1 DEF PlainFor, Dialogs
      <4> QED
        BY <1>3, <4>1, CurrentOfDialog DEF PostToUser
    <3> QED
      BY <3>1 DEF AskedRight, Ops, Dialogs, RouteOf, TypeOf
  <2> QED
    BY <1>1, <1>3, <2>1, AskingKeeps DEF PostToUser
<1> QED
  BY <1>2, <1>3

\* What the server makes of a request.
LEMMA ServeKeeps ==
  ASSUME NInv, Serve
  PROVE  NInv'
<1> DEFINE by == TokenLogin(Token(login), login)
           op == IF by = Nobody THEN "unauthorized" ELSE Handler(req.type, req.route)
           name == Segment(req.route, 1)
<1>1. /\ req # NoRequest
      /\ handled' = [op |-> op, name |-> name, by |-> by]
      /\ login' = login /\ req' = req
      /\ \/ /\ req.op \in Reading
            /\ current' = Cut(req.route, MaxRoute) /\ opened' = req.name
         \/ current' = current /\ opened' = opened
      /\ written' = written \/ written' = Written(by, name)
  BY DEF Serve
<1>2. /\ login \in Text /\ login # Nobody /\ req.name \in Text /\ req.route \in Text
      /\ current \in Text /\ opened \in Text
  BY DEF NInv, Typed
<1>3. by \in {login, Nobody} /\ by \in Text /\ name \in Text
  BY <1>2, LoginOfToken, SegmentText, NamesAreTexts DEF Nobody
<1>4. AskedRight(req.op, req.name, req.type, req.route)
  BY <1>1 DEF NInv, Asked
<1>5. Typed'
  <2> HIDE DEF by, op, name
  <2>1. handled'.name \in Text /\ handled'.by \in Text
    BY <1>1, <1>3
  <2>2. current' \in Text /\ opened' \in Text
    BY <1>1, <1>2, NamesAssumption, CutText
  <2>3. written' = NothingWritten \/ \E a, b \in Text : written' = Written(a, b)
    BY <1>1, <1>3 DEF NInv, Typed
  <2>4. login' \in Text \ {Nobody} /\ req'.name \in Text /\ req'.route \in Text
    BY <1>1, <1>2
  <2> QED
    BY <2>1, <2>2, <2>3, <2>4 DEF Typed, Written
<1>6. CurrentIsOpened'
  <2> HIDE DEF by, op, name
  <2>1. CASE req.op = "read" /\ current' = Cut(req.route, MaxRoute) /\ opened' = req.name
    <3>1. req.route = ChatRead(req.name)
      BY <1>4, <2>1 DEF AskedRight
    <3>2. current' = Cut(ChatRead(opened'), MaxRoute)
      BY <2>1, <3>1
    <3> QED
      BY <3>2 DEF CurrentIsOpened, ChatRead, DialogRead, Cut, ChatRoute, DialogRoute, Under
  <2>2. CASE req.op = "readuser" /\ current' = Cut(req.route, MaxRoute) /\ opened' = req.name
    <3>1. req.route = DialogRead(req.name)
      BY <1>4, <2>2 DEF AskedRight
    <3>2. current' = Cut(DialogRead(opened'), MaxRoute)
      BY <2>2, <3>1
    <3> QED
      BY <3>2 DEF CurrentIsOpened, ChatRead, DialogRead, Cut, ChatRoute, DialogRoute, Under
  <2>3. CASE current' = current /\ opened' = opened
    BY <2>3 DEF NInv, CurrentIsOpened
  <2> QED
    BY <1>1, <2>1, <2>2, <2>3 DEF Reading
<1>7. Asked'
  BY <1>1 DEF NInv, Asked
<1>8. TokenOfOwner'
  BY <1>1, <1>3 DEF TokenOfOwner
<1>9. ReachesHandler'
  <2>1. ASSUME PlainLogin(login), PlainName(req.name)
        PROVE  handled' = [op |-> Meant, name |-> req.name, by |-> login]
    <3>1. by = login /\ login # Nobody
      BY <1>2, <2>1, PlainTokenIsGood
    <3>2. PlainFor(req.op, req.name)
      BY <2>1 DEF PlainFor, PlainName, Dialogs
    <3>3. /\ req.op \in Ops /\ req.route = RouteOf(req.op, req.name)
          /\ req.type = TypeOf(req.op)
      BY <1>4, <3>2 DEF AskedRight
    <3>4. ~Occurs(Slash, req.name) /\ Len(req.name) + 6 < MaxRoute
      BY <1>2, <3>2, NamesAssumption, LenProperties DEF PlainFor, Text
    <3>5. Handler(req.type, req.route) = MeantBy(req.op) /\ name = req.name
      BY <1>2, <3>3, <3>4, WholeRouteArrives
    <3> QED
      BY <1>1, <3>1, <3>5 DEF Meant, MeantBy
  <2> HIDE DEF by, op, name
  <2> QED
    BY <1>1, <2>1 DEF ReachesHandler, PlainLogin, PlainName, Meant
<1> QED
  BY <1>5, <1>6, <1>7, <1>8, <1>9 DEF NInv

\* Another user logs in.
LEMMA LoginKeeps ==
  ASSUME NInv, NEW l \in Users, Login(l)
  PROVE  NInv'
<1>1. /\ login' = l /\ current' = <<>> /\ opened' = <<>> /\ req' = NoRequest
      /\ handled' = NotHandled /\ written' = written
  BY DEF Login
<1>2. /\ NoRequest.name = <<>> /\ NoRequest.route = <<>>
      /\ NotHandled.name = <<>> /\ NotHandled.by = <<>>
  BY DEF NoRequest, NotHandled, Nobody
<1>3. Typed'
  BY <1>1, <1>2, NamesAreTexts, NamesAssumption DEF NInv, Typed, Nobody
<1>4. CurrentIsOpened'
  BY <1>1 DEF CurrentIsOpened
<1>5. Asked'
  BY <1>1 DEF Asked
<1>6. TokenOfOwner' /\ ReachesHandler'
  BY <1>1, <1>2 DEF TokenOfOwner, ReachesHandler, Nobody
<1> QED
  BY <1>3, <1>4, <1>5, <1>6 DEF NInv

\* The invariant holds at the start.
LEMMA NamesInit == ASSUME Init PROVE NInv
<1>1. /\ login \in Users /\ opened = <<>> /\ current = <<>>
      /\ req = NoRequest /\ handled = NotHandled /\ written = NothingWritten
  BY DEF Init
<1>2. /\ NoRequest.name = <<>> /\ NoRequest.route = <<>>
      /\ NotHandled.name = <<>> /\ NotHandled.by = <<>>
  BY DEF NoRequest, NotHandled, Nobody
<1>3. Typed
  BY <1>1, <1>2, NamesAreTexts, NamesAssumption DEF Typed, Nobody
<1>4. CurrentIsOpened /\ Asked
  BY <1>1 DEF CurrentIsOpened, Asked
<1>5. TokenOfOwner /\ ReachesHandler
  BY <1>1, <1>2 DEF TokenOfOwner, ReachesHandler, Nobody
<1> QED
  BY <1>3, <1>4, <1>5 DEF NInv

\* Every step keeps it.
LEMMA NamesNext == ASSUME NInv, [Next]_vars PROVE NInv'
<1>1. CASE UNCHANGED vars
  <2>1. /\ login' = login /\ opened' = opened /\ current' = current /\ req' = req
        /\ handled' = handled /\ written' = written
    BY <1>1 DEF vars
  <2> QED
    BY <2>1 DEF NInv, Typed, CurrentIsOpened, Asked, TokenOfOwner, ReachesHandler, PlainName,
       Meant
<1>2. ASSUME NEW n \in ChatNames, OpenChat(n) \/ Delete(n) PROVE NInv'
  BY <1>2, OpenChatKeeps, DeleteKeeps
<1>3. ASSUME NEW l \in Users, OpenDialog(l) \/ Login(l) PROVE NInv'
  BY <1>3, OpenDialogKeeps, LoginKeeps
<1>4. CASE Members
  BY <1>4, MembersKeeps
<1>5. CASE Change("add", "POST") \/ Change("remove", "DELETE") \/ Change("leave", "DELETE")
  BY <1>5, ChangeKeeps
<1>6. CASE PostToChat \/ PostToUser
  BY <1>6, PostKeeps
<1>7. CASE Serve
  BY <1>7, ServeKeeps
<1> QED
  BY <1>1, <1>2, <1>3, <1>4, <1>5, <1>6, <1>7 DEF Next

\* Whatever was written, and whatever is written now, the paths tell the users.
LEMMA PathsTell == ASSUME NInv PROVE DialogsApart
<1>1. CASE written = NothingWritten
  BY <1>1 DEF DialogsApart
<1>2. CASE \E a, b \in Text : written = Written(a, b)
  <2>1. PICK a \in Text, b \in Text : written = Written(a, b)
    BY <1>2
  <2> DEFINE c == handled.by
             d == handled.name
             now == Written(c, d)
  <2>2. c \in Text /\ d \in Text
    BY DEF NInv, Typed
  <2>3. /\ written.path = PrivatePath(a, b) /\ written.users = {a, b}
        /\ now.path = PrivatePath(c, d) /\ now.users = {c, d}
    BY <2>1 DEF Written
  <2> HIDE DEF c, d, now
  <2>4. (\A l \in now.users \cup written.users : ~Occurs(Dash, l))
          => (now.path = written.path <=> now.users = written.users)
    BY <2>2, <2>3, PathsApart
  <2> QED
    BY <2>4 DEF DialogsApart, c, d, now
<1> QED
  BY <1>1, <1>2 DEF NInv, Typed

\* The invariant, for any names.
LEMMA NamesKept == Spec => []NInv
<1>1. Init => NInv
  BY NamesInit
<1>2. NInv /\ [Next]_vars => NInv'
  BY NamesNext
<1> QED
  BY <1>1, <1>2, PTL DEF Spec

\* A token is good for the login it was made for, or for nobody: TokenOfOwner,
\* for any logins.
THEOREM TokensAreOwn == Spec => []TokenOfOwner
<1>1. NInv => TokenOfOwner
  BY DEF NInv
<1> QED
  BY <1>1, NamesKept, PTL

\* What is asked about a plain name by a plain login is done, to that name and
\* as that login: ReachesHandler, for any names and any sizes of the buffers.
THEOREM PlainNamesArrive == Spec => []ReachesHandler
<1>1. NInv => ReachesHandler
  BY DEF NInv
<1> QED
  BY <1>1, NamesKept, PTL

\* The path of a history tells the two users: DialogsApart, for any names.
THEOREM HistoriesApart == Spec => []DialogsApart
<1>1. NInv => DialogsApart
  BY PathsTell
<1> QED
  BY <1>1, NamesKept, PTL
=============================================================================
