---------------------------- MODULE QueriesProofs -----------------------------
(***************************************************************************)
(* For every cube, every request and whatever is written meanwhile: the    *)
(* rows of an answer say what the request means and what was read of the   *)
(* cells gives, they come in the display order of their dimensions, a      *)
(* formula leaves its row empty where a measure it needs has no visible    *)
(* cell, and a page is the stretch of the sorted rows that was asked for.  *)
(***************************************************************************)
EXTENDS Queries, SequenceTheorems, FiniteSetTheorems, WellFoundedInduction, TLAPS

-------------------------------------------------------------------------------
(* Numbers and sequences.                                                  *)

LEMMA SetInduction ==
  ASSUME NEW S, 0 \in S, \A n \in Nat : n \in S => n + 1 \in S
  PROVE  Nat \subseteq S
<1> SUFFICES ASSUME Nat \ S # {} PROVE FALSE
  OBVIOUS
<1>1. IsWellFoundedOn({ss \in Nat \X Nat : ss[1] < ss[2]}, Nat)
  BY NatLessThanWellFounded DEF OpToRel
<1>2. PICK n \in Nat \ S : \A m \in Nat \ S : ~(<<m, n>> \in {ss \in Nat \X Nat : ss[1] < ss[2]})
  BY <1>1, WFMin
<1>3. n - 1 \in Nat /\ n - 1 < n
  BY <1>2
<1>4. n - 1 \in S
  BY <1>2, <1>3
<1> QED BY <1>3, <1>4

LEMMA LeastExists ==
  ASSUME NEW S, S \subseteq Nat, S # {}
  PROVE  \E n \in S : \A m \in S : n <= m
<1>1. IsWellFoundedOn({ss \in Nat \X Nat : ss[1] < ss[2]}, Nat)
  BY NatLessThanWellFounded DEF OpToRel
<1>2. PICK n \in S : \A m \in S : ~(<<m, n>> \in {ss \in Nat \X Nat : ss[1] < ss[2]})
  BY <1>1, WFMin
<1>3. ASSUME NEW m \in S PROVE n <= m
  <2>1. m \in Nat /\ n \in Nat
    OBVIOUS
  <2>2. ~(m < n)
    BY <1>2, <2>1
  <2> QED BY <2>1, <2>2
<1> QED BY <1>3

LEMMA SeqIs ==
  ASSUME NEW S, NEW s \in Seq(S)
  PROVE  /\ Len(s) \in Nat /\ DOMAIN s = 1..Len(s) /\ Range(s) \subseteq S
         /\ \A j \in 1..Len(s) : s[j] \in S /\ s[j] \in Range(s)
         /\ \A x \in Range(s) : \E j \in 1..Len(s) : s[j] = x
         /\ IsInjective(s) <=> \A j, k \in 1..Len(s) : s[j] = s[k] => j = k
         /\ s \in Seq(Range(s)) /\ s = [j \in 1..Len(s) |-> s[j]]
<1>1. Len(s) \in Nat /\ DOMAIN s = 1..Len(s) /\ \A j \in 1..Len(s) : s[j] \in S
  BY LenProperties, ElementOfSeq
<1>2. \A j \in 1..Len(s) : s[j] \in Range(s)
  BY <1>1 DEF Range
<1>3. s = [j \in 1..Len(s) |-> s[j]]
  BY <1>1, LenProperties
<1>4. s \in [1..Len(s) -> Range(s)]
  BY <1>2, <1>3
<1>5. s \in Seq(Range(s))
  BY <1>1, <1>4, SeqDef
<1> QED BY <1>1, <1>2, <1>3, <1>5 DEF Range, IsInjective

LEMMA JoinIs ==
  ASSUME NEW S, NEW s \in Seq(S), NEW t \in Seq(S)
  PROVE  /\ s \o t \in Seq(S) /\ Len(s \o t) = Len(s) + Len(t)
         /\ Range(s \o t) = Range(s) \cup Range(t)
         /\ \A i \in 1..Len(s) : (s \o t)[i] = s[i]
         /\ \A i \in 1..Len(t) : (s \o t)[Len(s) + i] = t[i]
<1>1. PICK u : u = s \o t
  OBVIOUS
<1>2. /\ u \in Seq(S) /\ Len(u) = Len(s) + Len(t)
      /\ \A i \in 1..(Len(s) + Len(t)) : u[i] = IF i <= Len(s) THEN s[i] ELSE t[i - Len(s)]
  BY <1>1, ConcatProperties
<1>3. Len(s) \in Nat /\ Len(t) \in Nat
  BY SeqIs
<1>4. \A i \in 1..Len(s) : i \in 1..Len(u) /\ u[i] = s[i]
  BY <1>2, <1>3
<1>5. ASSUME NEW i \in 1..Len(t) PROVE Len(s) + i \in 1..Len(u) /\ u[Len(s) + i] = t[i]
  <2>1. PICK j : j = Len(s) + i
    OBVIOUS
  <2>2. j \in 1..(Len(s) + Len(t)) /\ ~(j <= Len(s)) /\ j - Len(s) = i
    BY <1>3, <2>1
  <2> QED BY <1>2, <2>1, <2>2
<1>6. ASSUME NEW i \in 1..Len(u)
      PROVE  \/ i \in 1..Len(s) /\ u[i] = s[i]
             \/ i - Len(s) \in 1..Len(t) /\ u[i] = t[i - Len(s)]
  BY <1>2, <1>3
<1>7. ASSUME NEW x \in Range(u) PROVE x \in Range(s) \cup Range(t)
  <2>1. PICK i \in 1..Len(u) : u[i] = x
    BY <1>2, SeqIs
  <2>2. CASE i \in 1..Len(s) /\ u[i] = s[i]
    BY <2>1, <2>2, SeqIs
  <2>3. CASE i - Len(s) \in 1..Len(t) /\ u[i] = t[i - Len(s)]
    BY <2>1, <2>3, SeqIs
  <2> QED BY <1>6, <2>2, <2>3
<1>8. ASSUME NEW x \in Range(s) PROVE x \in Range(u)
  <2>1. PICK i \in 1..Len(s) : s[i] = x
    BY SeqIs
  <2> QED BY <1>2, <1>4, <2>1, SeqIs
<1>9. ASSUME NEW x \in Range(t) PROVE x \in Range(u)
  <2>1. PICK i \in 1..Len(t) : t[i] = x
    BY SeqIs
  <2> QED BY <1>2, <1>5, <2>1, SeqIs
<1> QED BY <1>1, <1>2, <1>4, <1>5, <1>7, <1>8, <1>9

LEMMA OneIs ==
  ASSUME NEW S, NEW x \in S
  PROVE  <<x>> \in Seq(S) /\ Len(<<x>>) = 1 /\ <<x>>[1] = x /\ Range(<<x>>) = {x}
<1>1. PICK s : s = <<x>>
  OBVIOUS
<1>2. s \in Seq(S) /\ Len(s) = 1 /\ s[1] = x
  BY <1>1
<1>3. \A j \in 1..Len(s) : j = 1
  BY <1>2
<1>4. 1 \in 1..Len(s)
  BY <1>2
<1>5. Range(s) = {x}
  BY <1>2, <1>3, <1>4, SeqIs
<1> QED BY <1>1, <1>2, <1>5

LEMMA NoneIs ==
  ASSUME NEW S
  PROVE  <<>> \in Seq(S) /\ Len(<<>>) = 0 /\ Range(<<>>) = {} /\ DOMAIN <<>> = {}
<1>1. PICK s : s = <<>>
  OBVIOUS
<1>2. s \in Seq(S) /\ Len(s) = 0
  BY <1>1, EmptySeq
<1>3. DOMAIN s = {}
  BY <1>2, SeqIs
<1> QED BY <1>1, <1>2, <1>3 DEF Range

-------------------------------------------------------------------------------
(* Concat, one sequence after the other.                                   *)
Upto(w, n, parts) == w = [i \in 0..n |-> IF i = 0 THEN <<>> ELSE w[i - 1] \o parts[i]]

LEMMA UptoExists ==
  ASSUME NEW n \in Nat, NEW parts
  PROVE  \E w : Upto(w, n, parts)
<1>1. PICK T : T = {m \in Nat : \E w : Upto(w, m, parts)}
  OBVIOUS
<1>2. 0 \in T
  <2>1. PICK w : w = [i \in 0..0 |-> <<>>]
    OBVIOUS
  <2>2. \A i \in 0..0 : i = 0
    OBVIOUS
  <2>3. Upto(w, 0, parts)
    BY <2>1, <2>2 DEF Upto
  <2> QED BY <1>1, <2>3
<1>3. ASSUME NEW m \in Nat, m \in T PROVE m + 1 \in T
  <2>1. PICK w : Upto(w, m, parts)
    BY <1>1, <1>3
  <2>2. PICK x : x = [i \in 0..(m + 1) |-> IF i = m + 1 THEN w[m] \o parts[i] ELSE w[i]]
    OBVIOUS
  <2>3. ASSUME NEW i \in 0..(m + 1) PROVE x[i] = IF i = 0 THEN <<>> ELSE x[i - 1] \o parts[i]
    <3>1. CASE i = m + 1
      <4>1. i # 0 /\ i - 1 = m /\ m \in 0..(m + 1) /\ m # m + 1
        BY <3>1
      <4>2. x[m] = w[m] /\ x[i] = w[m] \o parts[i]
        BY <2>2, <3>1, <4>1
      <4> QED BY <4>1, <4>2
    <3>2. CASE i # m + 1 /\ i # 0
      <4>1. i \in 0..m /\ i - 1 \in 0..(m + 1) /\ i - 1 # m + 1
        BY <3>2
      <4>2. x[i] = w[i] /\ x[i - 1] = w[i - 1]
        BY <2>2, <3>2, <4>1
      <4>3. w[i] = w[i - 1] \o parts[i]
        BY <2>1, <3>2, <4>1 DEF Upto
      <4> QED BY <3>2, <4>2, <4>3
    <3>3. CASE i # m + 1 /\ i = 0
      <4>1. w[0] = <<>>
        BY <2>1 DEF Upto
      <4> QED BY <2>2, <3>3, <4>1
    <3> QED BY <3>1, <3>2, <3>3
  <2>4. Upto(x, m + 1, parts)
    BY <2>2, <2>3 DEF Upto
  <2> QED BY <1>1, <2>4
<1>4. n \in T
  BY <1>2, <1>3, SetInduction
<1> QED BY <1>1, <1>4

LEMMA ConcatSteps ==
  ASSUME NEW n \in Nat, NEW parts
  PROVE  \E w : /\ w[0] = <<>> /\ Concat(n, parts) = w[n]
                /\ \A i \in Nat : i + 1 <= n => w[i + 1] = w[i] \o parts[i + 1]
<1>1. PICK w : w = CHOOSE v : Upto(v, n, parts)
  OBVIOUS
<1>2. Upto(w, n, parts)
  BY <1>1, UptoExists
<1>3. Concat(n, parts) = w[n]
  BY <1>1 DEF Concat, Upto
<1>4. \A i \in 0..n : w[i] = IF i = 0 THEN <<>> ELSE w[i - 1] \o parts[i]
  BY <1>2 DEF Upto
<1>5. w[0] = <<>>
  BY <1>4
<1>6. ASSUME NEW i \in Nat, i + 1 <= n PROVE w[i + 1] = w[i] \o parts[i + 1]
  <2>1. i + 1 \in 0..n /\ i + 1 # 0 /\ (i + 1) - 1 = i
    BY <1>6
  <2> QED BY <1>4, <2>1
<1> QED BY <1>3, <1>5, <1>6

LEMMA ConcatIs ==
  ASSUME NEW n \in Nat, NEW S, NEW parts, \A i \in 1..n : parts[i] \in Seq(S)
  PROVE  /\ Concat(n, parts) \in Seq(S)
         /\ \A x : x \in Range(Concat(n, parts)) <=> \E i \in 1..n : x \in Range(parts[i])
<1>1. PICK w : /\ w[0] = <<>> /\ Concat(n, parts) = w[n]
               /\ \A i \in Nat : i + 1 <= n => w[i + 1] = w[i] \o parts[i + 1]
  BY ConcatSteps
<1>2. PICK T : T = {m \in Nat : m <= n =>
                        /\ w[m] \in Seq(S)
                        /\ \A x : x \in Range(w[m]) <=> \E i \in 1..m : x \in Range(parts[i])}
  OBVIOUS
<1>3. 0 \in T
  <2>1. 1..0 = {}
    OBVIOUS
  <2>2. w[0] \in Seq(S) /\ Range(w[0]) = {}
    BY <1>1, NoneIs
  <2> QED BY <1>2, <2>1, <2>2
<1>4. ASSUME NEW m \in Nat, m \in T PROVE m + 1 \in T
  <2> SUFFICES ASSUME m + 1 <= n
               PROVE  /\ w[m + 1] \in Seq(S)
                      /\ \A x : x \in Range(w[m + 1]) <=>
                                    \E i \in 1..(m + 1) : x \in Range(parts[i])
    BY <1>2
  <2>1. /\ w[m] \in Seq(S)
        /\ \A x : x \in Range(w[m]) <=> \E i \in 1..m : x \in Range(parts[i])
    BY <1>2, <1>4
  <2>2. m + 1 \in 1..n
    OBVIOUS
  <2>3. w[m + 1] = w[m] \o parts[m + 1] /\ parts[m + 1] \in Seq(S)
    BY <1>1, <2>2
  <2>4. w[m + 1] \in Seq(S) /\ Range(w[m + 1]) = Range(w[m]) \cup Range(parts[m + 1])
    BY <2>1, <2>3, JoinIs
  <2>5. \A i : i \in 1..(m + 1) <=> i \in 1..m \/ i = m + 1
    OBVIOUS
  <2> QED BY <2>1, <2>4, <2>5, Zenon
<1>5. n \in T
  BY <1>3, <1>4, SetInduction
<1> QED BY <1>1, <1>2, <1>5

(* Only keeps what is at its places, in the order it was in.               *)
Kept(u, s, I, m, f) ==
    /\ f \in [1..Len(u) -> (1..m) \cap I]
    /\ \A i \in 1..Len(u) : u[i] = s[f[i]]
    /\ \A i, j \in 1..Len(u) : i < j => f[i] < f[j]
    /\ \A k \in (1..m) \cap I : \E i \in 1..Len(u) : f[i] = k

LEMMA OnlyIs ==
  ASSUME NEW S, NEW s \in Seq(S), NEW I
  PROVE  Only(s, I) \in Seq(S) /\ \E f : Kept(Only(s, I), s, I, Len(s), f)
<1>1. PICK n \in Nat : n = Len(s) /\ DOMAIN s = 1..n /\ \A i \in 1..n : s[i] \in S
  BY SeqIs
<1>2. PICK parts : parts = [i \in DOMAIN s |-> IF i \in I THEN <<s[i]>> ELSE <<>>]
  OBVIOUS
<1>3. PICK w : /\ w[0] = <<>> /\ Concat(n, parts) = w[n]
               /\ \A i \in Nat : i + 1 <= n => w[i + 1] = w[i] \o parts[i + 1]
  BY ConcatSteps
<1>4. Only(s, I) = w[n]
  BY <1>1, <1>2, <1>3 DEF Only
<1>5. PICK T : T = {m \in Nat : m <= n => w[m] \in Seq(S) /\ \E f : Kept(w[m], s, I, m, f)}
  OBVIOUS
<1>6. 0 \in T
  <2>1. w[0] \in Seq(S) /\ Len(w[0]) = 0
    BY <1>3, NoneIs
  <2>2. 1..Len(w[0]) = {} /\ 1..0 = {}
    BY <2>1
  <2>3. PICK f : f = [i \in {} |-> 0]
    OBVIOUS
  <2>4. Kept(w[0], s, I, 0, f)
    BY <2>2, <2>3 DEF Kept
  <2> QED BY <1>5, <2>1, <2>4
<1>7. ASSUME NEW m \in Nat, m \in T PROVE m + 1 \in T
  <2> SUFFICES ASSUME m + 1 <= n
               PROVE  w[m + 1] \in Seq(S) /\ \E f : Kept(w[m + 1], s, I, m + 1, f)
    BY <1>5
  <2>1. w[m] \in Seq(S) /\ \E f : Kept(w[m], s, I, m, f)
    BY <1>1, <1>5, <1>7
  <2>2. PICK f : Kept(w[m], s, I, m, f)
    BY <2>1
  <2>3. PICK l \in Nat : l = Len(w[m])
    BY <2>1, SeqIs
  <2>4. m + 1 \in 1..n /\ s[m + 1] \in S
    BY <1>1
  <2>5. w[m + 1] = w[m] \o (IF m + 1 \in I THEN <<s[m + 1]>> ELSE <<>>)
    BY <1>1, <1>2, <1>3, <2>4
  <2>6. CASE m + 1 \notin I
    <3>1. w[m + 1] = w[m]
      BY <2>1, <2>5, <2>6, ConcatEmptySeq
    <3>2. (1..(m + 1)) \cap I = (1..m) \cap I
      BY <2>6
    <3>3. Kept(w[m + 1], s, I, m + 1, f)
      BY <2>2, <3>1, <3>2 DEF Kept
    <3> QED BY <2>1, <3>1, <3>3
  <2>7. CASE m + 1 \in I
    <3>1. <<s[m + 1]>> \in Seq(S) /\ Len(<<s[m + 1]>>) = 1 /\ <<s[m + 1]>>[1] = s[m + 1]
      BY <2>4, OneIs
    <3>2. /\ w[m + 1] \in Seq(S) /\ Len(w[m + 1]) = l + 1
          /\ \A i \in 1..l : w[m + 1][i] = w[m][i]
      BY <2>1, <2>3, <2>5, <2>7, <3>1, JoinIs
    <3>3. w[m + 1][l + 1] = s[m + 1]
      <4>1. 1 \in 1..Len(<<s[m + 1]>>)
        BY <3>1
      <4> QED BY <2>1, <2>3, <2>5, <2>7, <3>1, <4>1, JoinIs
    <3>4. PICK g : g = [i \in 1..(l + 1) |-> IF i = l + 1 THEN m + 1 ELSE f[i]]
      OBVIOUS
    <3>5. f \in [1..l -> (1..m) \cap I]
      BY <2>2, <2>3 DEF Kept
    <3>6. /\ \A i \in 1..l : g[i] = f[i] /\ g[i] \in (1..m) \cap I
          /\ g[l + 1] = m + 1
          /\ \A i \in 1..(l + 1) : i \in 1..l \/ i = l + 1
      BY <3>4, <3>5
    <3>7. g \in [1..(l + 1) -> (1..(m + 1)) \cap I]
      <4>1. ASSUME NEW i \in 1..(l + 1) PROVE g[i] \in (1..(m + 1)) \cap I
        <5>1. CASE i = l + 1
          BY <2>7, <3>6, <5>1
        <5>2. CASE i \in 1..l
          BY <3>6, <5>2
        <5> QED BY <3>6, <5>1, <5>2
      <4> QED BY <3>4, <4>1
    <3>8. ASSUME NEW i \in 1..(l + 1) PROVE w[m + 1][i] = s[g[i]]
      <4>1. CASE i = l + 1
        BY <3>3, <3>6, <4>1
      <4>2. CASE i \in 1..l
        BY <2>2, <2>3, <3>2, <3>6, <4>2 DEF Kept
      <4> QED BY <3>6, <4>1, <4>2
    <3>9. ASSUME NEW i \in 1..(l + 1), NEW j \in 1..(l + 1), i < j PROVE g[i] < g[j]
      <4>1. i \in 1..l
        BY <3>9
      <4>2. CASE j = l + 1
        BY <3>6, <4>1, <4>2
      <4>3. CASE j \in 1..l
        BY <2>2, <2>3, <3>6, <3>9, <4>1, <4>3 DEF Kept
      <4> QED BY <3>6, <4>2, <4>3
    <3>10. ASSUME NEW k \in (1..(m + 1)) \cap I PROVE \E i \in 1..(l + 1) : g[i] = k
      <4>1. CASE k = m + 1
        <5>1. l + 1 \in 1..(l + 1)
          OBVIOUS
        <5> QED BY <3>6, <4>1, <5>1
      <4>2. CASE k # m + 1
        <5>1. k \in (1..m) \cap I
          BY <4>2
        <5>2. PICK i \in 1..l : f[i] = k
          BY <2>2, <2>3, <5>1 DEF Kept
        <5>3. i \in 1..(l + 1)
          OBVIOUS
        <5> QED BY <3>6, <5>2, <5>3
      <4> QED BY <4>1, <4>2
    <3>11. Kept(w[m + 1], s, I, m + 1, g)
      BY <3>2, <3>7, <3>8, <3>9, <3>10 DEF Kept
    <3> QED BY <3>2, <3>11
  <2> QED BY <2>6, <2>7
<1>8. n \in T
  BY <1>6, <1>7, SetInduction
<1> QED BY <1>1, <1>4, <1>5, <1>8

LEMMA OnlyAllIs ==
  ASSUME NEW S, NEW s \in Seq(S), NEW I, DOMAIN s \subseteq I
  PROVE  Only(s, I) = s
<1>1. PICK n \in Nat : n = Len(s) /\ DOMAIN s = 1..n
  BY SeqIs
<1>2. PICK parts : parts = [i \in DOMAIN s |-> IF i \in I THEN <<s[i]>> ELSE <<>>]
  OBVIOUS
<1>3. PICK w : /\ w[0] = <<>> /\ Concat(n, parts) = w[n]
               /\ \A i \in Nat : i + 1 <= n => w[i + 1] = w[i] \o parts[i + 1]
  BY ConcatSteps
<1>4. Only(s, I) = w[n]
  BY <1>1, <1>2, <1>3 DEF Only
<1>5. PICK T : T = {m \in Nat : m <= n => /\ w[m] \in Seq(S) /\ Len(w[m]) = m
                                          /\ \A i \in 1..m : w[m][i] = s[i]}
  OBVIOUS
<1>6. 0 \in T
  <2>1. w[0] \in Seq(S) /\ Len(w[0]) = 0
    BY <1>3, NoneIs
  <2>2. 1..0 = {}
    OBVIOUS
  <2> QED BY <1>5, <2>1, <2>2
<1>7. ASSUME NEW m \in Nat, m \in T PROVE m + 1 \in T
  <2> SUFFICES ASSUME m + 1 <= n
               PROVE  /\ w[m + 1] \in Seq(S) /\ Len(w[m + 1]) = m + 1
                      /\ \A i \in 1..(m + 1) : w[m + 1][i] = s[i]
    BY <1>5
  <2>1. w[m] \in Seq(S) /\ Len(w[m]) = m /\ \A i \in 1..m : w[m][i] = s[i]
    BY <1>1, <1>5, <1>7
  <2>2. m + 1 \in 1..n /\ s[m + 1] \in S
    BY <1>1, SeqIs
  <2>3. w[m + 1] = w[m] \o <<s[m + 1]>>
    BY <1>1, <1>2, <1>3, <2>2
  <2>4. <<s[m + 1]>> \in Seq(S) /\ Len(<<s[m + 1]>>) = 1 /\ <<s[m + 1]>>[1] = s[m + 1]
    BY <2>2, OneIs
  <2>5. /\ w[m + 1] \in Seq(S) /\ Len(w[m + 1]) = m + 1
        /\ \A i \in 1..m : w[m + 1][i] = w[m][i]
    BY <2>1, <2>3, <2>4, JoinIs
  <2>6. w[m + 1][m + 1] = s[m + 1]
    <3>1. 1 \in 1..Len(<<s[m + 1]>>)
      BY <2>4
    <3> QED BY <2>1, <2>3, <2>4, <3>1, JoinIs
  <2>7. \A i \in 1..(m + 1) : i \in 1..m \/ i = m + 1
    OBVIOUS
  <2> QED BY <2>1, <2>5, <2>6, <2>7
<1>8. n \in T
  BY <1>6, <1>7, SetInduction
<1>9. w[n] \in Seq(S) /\ Len(w[n]) = n /\ \A i \in 1..n : w[n][i] = s[i]
  BY <1>5, <1>8
<1> QED BY <1>1, <1>4, <1>9, SeqEqual

-------------------------------------------------------------------------------
(* Display orders only grow, at their end, and what a query has brought up *)
(* to date has all the leaves that were there when its request came in.    *)
Begins(s, t) == Len(s) <= Len(t) /\ \A i \in 1..Len(s) : s[i] = t[i]

Fields == {"pc", "request", "at", "measures", "folds", "columns", "filters", "denied", "scope",
           "left", "groups", "rows", "page", "truncated", "asked", "snapshot", "joined"}

Early == {"measures", "filters", "order", "resolve", "scan"}
Late  == {"resolve", "scan", "fold", "join", "page", "done"}

Orders == [Axis -> Seq(Members)]

OrdersGrow ==
    /\ DOMAIN q = Fields
    /\ cube \in Cubes
    /\ known \in Orders /\ shown \in Orders /\ q.asked \in Orders
    /\ \A a \in Axis : /\ IsInjective(known[a])
                       /\ Begins(q.asked[a], known[a]) /\ Begins(shown[a], known[a])
    /\ q.pc = "order" => q.at \in Axis /\ \A a \in 1..(q.at - 1) : Begins(q.asked[a], shown[a])
    /\ q.pc \in Late => \A a \in Axis : Begins(q.asked[a], shown[a])

(* Rows are of groups of cells, and come in the order of their members.    *)
Sane ==
    /\ Pivoted \/ cube.measureAxis = 0
    /\ \A c \in DOMAIN q.snapshot : \A a \in Axis : c[a] \in Range(q.asked[a])

Follows(order, axes, k, l) ==
    \E s \in DOMAIN axes :
        /\ Place(order[axes[s]], k[s]) < Place(order[axes[s]], l[s])
        /\ \A t \in 1..(s - 1) : k[t] = l[t]

Keys == {At(c, KeyAxes) : c \in DOMAIN q.snapshot}

RowsInOrder ==
    /\ IsList(q.rows)
    /\ \A i \in DOMAIN q.rows : DOMAIN q.rows[i] = {"key", "values"} /\ q.rows[i].key \in Keys
    /\ DOMAIN q.groups \subseteq Keys /\ q.left \subseteq DOMAIN q.snapshot
    /\ q.left # {} => q.rows = <<>>
    /\ q.pc \in Early => q.rows = <<>> /\ q.groups = <<>>
    /\ Sane => /\ \A i, j \in DOMAIN q.rows :
                      i < j => Follows(q.asked, KeyAxes, q.rows[i].key, q.rows[j].key)
               /\ \A i \in DOMAIN q.rows : \A k \in DOMAIN q.groups :
                      Follows(q.asked, KeyAxes, q.rows[i].key, k)

LEMMA BeginsIs ==
  ASSUME NEW S, NEW s \in Seq(S), NEW t \in Seq(S), NEW u \in Seq(S)
  PROVE  /\ Begins(s, s) /\ Begins(<<>>, s)
         /\ Begins(s, t) /\ Begins(t, u) => Begins(s, u)
         /\ \A x \in S : Begins(s, t) => Begins(s, Append(t, x))
<1>1. Len(s) \in Nat /\ Len(t) \in Nat /\ Len(u) \in Nat
  BY SeqIs
<1>2. Begins(s, s)
  BY <1>1 DEF Begins
<1>3. Begins(<<>>, s)
  <2>1. Len(<<>>) = 0
    BY NoneIs
  <2> QED BY <1>1, <2>1 DEF Begins
<1>4. Begins(s, t) /\ Begins(t, u) => Begins(s, u)
  BY <1>1 DEF Begins
<1>5. ASSUME NEW x \in S, Begins(s, t) PROVE Begins(s, Append(t, x))
  <2>1. Len(Append(t, x)) = Len(t) + 1 /\ \A i \in 1..Len(t) : Append(t, x)[i] = t[i]
    BY <1>1, AppendProperties
  <2> QED BY <1>1, <1>5, <2>1 DEF Begins
<1> QED BY <1>2, <1>3, <1>4, <1>5

LEMMA PlaceIs ==
  ASSUME NEW S, NEW s \in Seq(S), NEW t \in Seq(S), Begins(s, t), IsInjective(t),
         NEW m \in Range(s)
  PROVE  /\ Place(s, m) \in 1..Len(s) /\ s[Place(s, m)] = m
         /\ Place(t, m) = Place(s, m)
<1>1. Len(s) \in Nat /\ Len(t) \in Nat /\ DOMAIN s = 1..Len(s) /\ DOMAIN t = 1..Len(t)
  BY SeqIs
<1>2. \E i \in DOMAIN s : s[i] = m
  BY <1>1, SeqIs
<1>3. Place(s, m) \in DOMAIN s /\ s[Place(s, m)] = m
  BY <1>2 DEF Place
<1>4. PICK p \in 1..Len(t) : p = Place(s, m) /\ t[p] = m
  BY <1>1, <1>3 DEF Begins
<1>5. m \in Range(t)
  BY <1>4, SeqIs
<1>6. \A i \in 1..Len(t) : t[i] = m => i = p
  BY <1>4, SeqIs
<1>7. Place(t, m) = p
  BY <1>1, <1>4, <1>5, <1>6 DEF Place
<1> QED BY <1>1, <1>3, <1>4, <1>7

(* The dimensions of a group are all columns, but for a pivot.             *)
LEMMA KeyAxesAre ==
  /\ KeyAxes \in Seq(Axis)
  /\ Pivoted \/ cube.measureAxis = 0 => RowAxes = KeyAxes
<1>1. [a \in Axis |-> a] \in Seq(Axis)
  <2>1. PICK n \in Nat : n = Dims /\ Axis = 1..n
    BY DimsAreCounted DEF Axis
  <2>2. [a \in Axis |-> a] \in [1..n -> Axis]
    BY <2>1
  <2> QED BY <2>1, <2>2, SeqDef
<1>2. PICK s, I : /\ s = [a \in Axis |-> a]
                  /\ I = {a \in Axis : IF a = cube.measureAxis THEN ~Pivoted
                                       ELSE a \in q.request.groupBy}
  OBVIOUS
<1>3. KeyAxes = Only(s, I)
  BY <1>2 DEF KeyAxes
<1>4. KeyAxes \in Seq(Axis) /\ \E f : Kept(KeyAxes, s, I, Len(s), f)
  BY <1>1, <1>2, <1>3, OnlyIs
<1>5. PICK f : Kept(KeyAxes, s, I, Len(s), f)
  BY <1>4
<1>6. ASSUME NEW i \in DOMAIN KeyAxes PROVE KeyAxes[i] \in I
  <2>1. i \in 1..Len(KeyAxes)
    BY <1>4, SeqIs
  <2>2. f[i] \in 1..Len(s) /\ f[i] \in I /\ KeyAxes[i] = s[f[i]]
    BY <1>5, <2>1 DEF Kept
  <2> QED BY <1>2, <2>2
<1>7. ASSUME Pivoted \/ cube.measureAxis = 0 PROVE RowAxes = KeyAxes
  <2>1. 0 \notin Axis
    BY DimsAreCounted DEF Axis
  <2>2. \A i \in DOMAIN KeyAxes : KeyAxes[i] \in q.request.groupBy
    BY <1>2, <1>6, <1>7, <2>1
  <2>3. PICK J : J = {i \in DOMAIN KeyAxes : KeyAxes[i] \in q.request.groupBy}
    OBVIOUS
  <2>4. DOMAIN KeyAxes \subseteq J
    BY <2>2, <2>3
  <2>5. RowAxes = Only(KeyAxes, J)
    BY <2>3 DEF RowAxes
  <2> QED BY <1>4, <2>4, <2>5, OnlyAllIs
<1> QED BY <1>4, <1>7

-------------------------------------------------------------------------------
(* Display orders, step by step.                                           *)

LEMMA InitOrders == Init => OrdersGrow /\ RowsInOrder
<1> SUFFICES ASSUME Init PROVE OrdersGrow /\ RowsInOrder
  OBVIOUS
<1>1. DOMAIN q = Fields /\ q.pc = "idle" /\ q.asked = Initial /\ q.rows = <<>>
      /\ q.groups = <<>> /\ q.left = {}
  BY DEF Init, Idle, Fields
<1>2. /\ cube \in Cubes /\ known = Initial
      /\ shown = Initial \/ shown = [a \in Axis |-> <<>>]
  BY DEF Init
<1>3. Initial \in Orders
  BY LeavesAreListedOnce DEF Orders
<1>4. shown \in Orders
  BY <1>2, <1>3, NoneIs DEF Orders
<1>5. ASSUME NEW a \in Axis
      PROVE  /\ IsInjective(known[a])
             /\ Begins(q.asked[a], known[a]) /\ Begins(shown[a], known[a])
  <2>1. Initial[a] \in Seq(Members)
    BY <1>3 DEF Orders
  <2>2. Begins(Initial[a], Initial[a]) /\ Begins(<<>>, Initial[a])
    BY <2>1, BeginsIs
  <2>3. IsInjective(Initial[a])
    BY LeavesAreListedOnce
  <2> QED BY <1>1, <1>2, <2>2, <2>3
<1>6. OrdersGrow
  BY <1>1, <1>2, <1>3, <1>4, <1>5 DEF OrdersGrow, Late
<1>7. IsList(<<>>) /\ DOMAIN <<>> = {}
  BY NoneIs DEF IsList
<1>8. RowsInOrder
  BY <1>1, <1>7 DEF RowsInOrder
<1> QED BY <1>6, <1>8

(* A step that brings some display orders up to date, and one that adds a  *)
(* leaf, while the query stays where it is or goes back to where nothing   *)
(* is asked of them.                                                       *)
LEMMA RefreshedOrders ==
  ASSUME OrdersGrow, NEW x, shown' = [shown EXCEPT ![x] = known[x]] \/ shown' = shown,
         known' = known
  PROVE  /\ shown' \in Orders
         /\ \A a \in Axis : Begins(shown'[a], known'[a])
         /\ \A a \in Axis : \A s \in Seq(Members) : 
                Begins(s, shown[a]) => Begins(s, shown'[a])
<1>1. known \in Orders /\ shown \in Orders
  BY DEF OrdersGrow
<1>2. shown' \in Orders
  BY <1>1 DEF Orders
<1>3. ASSUME NEW a \in Axis
      PROVE  /\ Begins(shown'[a], known'[a])
             /\ \A s \in Seq(Members) : Begins(s, shown[a]) => Begins(s, shown'[a])
  <2>1. shown'[a] = shown[a] \/ shown'[a] = known[a]
    BY <1>1 DEF Orders
  <2>2. known[a] \in Seq(Members) /\ shown[a] \in Seq(Members)
    BY <1>1 DEF Orders
  <2>3. Begins(shown[a], known[a]) /\ Begins(known[a], known[a])
    BY <2>2, BeginsIs DEF OrdersGrow
  <2>4. \A s \in Seq(Members) : Begins(s, shown[a]) => Begins(s, known[a])
    BY <2>2, <2>3, BeginsIs
  <2> QED BY <2>1, <2>3, <2>4
<1> QED BY <1>2, <1>3

LEMMA SameOrders ==
  ASSUME OrdersGrow, known' = known, cube' = cube,
         NEW x, shown' = [shown EXCEPT ![x] = known[x]] \/ shown' = shown,
         DOMAIN q' = Fields, q'.asked = q.asked,
         q'.pc = "order" => q.pc = "order" /\ q'.at = q.at,
         q'.pc \in Late => q.pc \in Late
  PROVE  OrdersGrow'
<1>1. /\ shown' \in Orders
      /\ \A a \in Axis : Begins(shown'[a], known'[a])
      /\ \A a \in Axis : \A s \in Seq(Members) : Begins(s, shown[a]) => Begins(s, shown'[a])
  BY RefreshedOrders
<1>2. \A a \in Axis : q.asked[a] \in Seq(Members)
  BY DEF OrdersGrow, Orders
<1>3. \A a \in Axis : Begins(q.asked[a], shown[a]) => Begins(q.asked[a], shown'[a])
  BY <1>1, <1>2
<1>4. ASSUME q'.pc = "order"
      PROVE  q'.at \in Axis /\ \A a \in 1..(q'.at - 1) : Begins(q'.asked[a], shown'[a])
  <2>1. q.at \in Axis /\ \A a \in 1..(q.at - 1) : a \in Axis /\ Begins(q.asked[a], shown[a])
    BY <1>4, DimsAreCounted DEF OrdersGrow, Axis
  <2> QED BY <1>3, <1>4, <2>1
<1>5. ASSUME q'.pc \in Late PROVE \A a \in Axis : Begins(q'.asked[a], shown'[a])
  BY <1>3, <1>5 DEF OrdersGrow
<1> QED BY <1>1, <1>4, <1>5 DEF OrdersGrow

-------------------------------------------------------------------------------
(* What each step of a query leaves alone, and where it goes.              *)
Moves(S) == DOMAIN q' = Fields /\ \A x \in Fields \ S : q'[x] = q[x]

LEMMA TakeMeasuresMoves ==
  ASSUME DOMAIN q = Fields, TakeMeasures
  PROVE  /\ Moves({"pc", "measures", "columns", "folds"})
         /\ q.pc = "measures" /\ q'.pc \in {"filters", "refused"}
<1>1. \/ q' = [q EXCEPT !.pc = "refused"]
      \/ q' = [q EXCEPT !.pc = "filters", !.measures = Titles(Expanded),
                        !.columns = [n \in Titles(Asked) |-> LastOf(Asked, n).expr],
                        !.folds = [n \in Titles(Recorded(Expanded)) |->
                                      LastOf(Recorded(Expanded), n).fold]]
  BY DEF TakeMeasures, Refuse
<1>2. PICK a, b, c : \/ q' = [q EXCEPT !.pc = "refused"]
                     \/ q' = [q EXCEPT !.pc = "filters", !.measures = a, !.columns = b, !.folds = c]
  BY <1>1
<1> QED BY <1>2 DEF Moves, Fields, TakeMeasures

LEMMA AddFilterMoves ==
  ASSUME DOMAIN q = Fields, AddFilter
  PROVE  Moves({"pc", "at", "filters"}) /\ q.pc = "filters" /\ q'.pc \in {"filters", "refused"}
  BY DEF AddFilter, Refuse, Moves, Fields

LEMMA EndFiltersMoves ==
  ASSUME DOMAIN q = Fields, EndFilters
  PROVE  Moves({"pc", "at", "filters", "denied"}) /\ q.pc = "filters" /\ q'.pc \in {"order", "refused"}
  BY DEF EndFilters, Refuse, Moves, Fields

LEMMA EnsureDisplayOrderMoves ==
  ASSUME DOMAIN q = Fields, EnsureDisplayOrder
  PROVE  Moves({"pc", "at"}) /\ q.pc = "order" /\ q'.pc \in {"order", "resolve"}
  BY DEF EnsureDisplayOrder, Moves, Fields

LEMMA ResolveMoves ==
  ASSUME DOMAIN q = Fields, Resolve
  PROVE  Moves({"pc", "at", "scope"}) /\ q.pc = "resolve" /\ q'.pc \in {"resolve", "scan", "refused"}
  BY DEF Resolve, Refuse, Moves, Fields

LEMMA ScanMoves ==
  ASSUME DOMAIN q = Fields, Scan
  PROVE  /\ Moves({"pc", "snapshot", "left"}) /\ q.pc = "scan" /\ q'.pc = "fold"
         /\ q'.snapshot = cells /\ q'.left = {c \in DOMAIN cells : InScope(c)}
  BY DEF Scan, Moves, Fields

LEMMA FoldMoves ==
  ASSUME DOMAIN q = Fields, NEW c, Fold(c)
  PROVE  Moves({"left", "groups"}) /\ q.pc = "fold" /\ q'.pc = "fold" /\ q'.left = q.left \ {c}
<1>1. PICK v : q' = [q EXCEPT !.left = q.left \ {c}, !.groups = v]
  BY DEF Fold
<1> QED BY <1>1 DEF Moves, Fields, Fold

LEMMA EmitMoves ==
  ASSUME DOMAIN q = Fields, NEW key, Emit(key)
  PROVE  /\ Moves({"rows", "groups"}) /\ q.pc = "fold" /\ q'.pc = "fold" /\ q.left = {}
         /\ q'.rows = Append(q.rows, Row(key)) /\ q'.groups = Restrict(q.groups, DOMAIN q.groups \ {key})
  BY DEF Emit, Moves, Fields

(* The rows with their formulas.                                           *)
Columns(row) ==
    [m \in DOMAIN q.columns |->
        IF q.columns[m] # None THEN Amount(Evaluate(q.columns[m], row.values)) ELSE row.values[m]]

LEMMA CalculateMoves ==
  ASSUME DOMAIN q = Fields, Calculate
  PROVE  /\ Moves({"pc", "rows"}) /\ q.pc = "fold" /\ q.left = {} /\ q.groups = <<>>
         /\ q'.pc \in {"join", "refused"}
         /\ q'.pc = "refused" => q'.rows = q.rows
         /\ q'.pc = "join" =>
                /\ \A i \in DOMAIN q.rows : \A m \in DOMAIN q.columns :
                       q.columns[m] # None => IsAmount(Evaluate(q.columns[m], q.rows[i].values))
                /\ \/ /\ q'.rows = q.rows
                      /\ \A m \in DOMAIN q.columns : q.columns[m] = None
                   \/ /\ q'.rows = [i \in DOMAIN q.rows |-> [q.rows[i] EXCEPT !.values = Columns(q.rows[i])]]
                      /\ \E m \in DOMAIN q.columns : q.columns[m] # None
<1>1. PICK F : F = {m \in DOMAIN q.columns : q.columns[m] # None}
  OBVIOUS
<1>2. PICK worth : worth = [i \in DOMAIN q.rows |->
                               [m \in F |-> Evaluate(q.columns[m], q.rows[i].values)]]
  OBVIOUS
<1>3. PICK rows : rows = [i \in DOMAIN q.rows |-> [q.rows[i] EXCEPT !.values =
                    [m \in DOMAIN q.columns |-> IF m \in F THEN Amount(worth[i][m])
                                                ELSE q.rows[i].values[m]]]]
  OBVIOUS
<1>4. IF \E i \in DOMAIN q.rows : \E m \in F : ~IsAmount(worth[i][m])
        THEN q' = [q EXCEPT !.pc = "refused"]
        ELSE q' = [q EXCEPT !.pc = "join", !.rows = IF F = {} THEN q.rows ELSE rows]
  BY <1>1, <1>2, <1>3 DEF Calculate, Refuse
<1>5. rows = [i \in DOMAIN q.rows |-> [q.rows[i] EXCEPT !.values = Columns(q.rows[i])]]
  <2>1. ASSUME NEW i \in DOMAIN q.rows
        PROVE  [m \in DOMAIN q.columns |-> IF m \in F THEN Amount(worth[i][m])
                                           ELSE q.rows[i].values[m]] = Columns(q.rows[i])
    BY <1>1, <1>2 DEF Columns
  <2> QED BY <1>3, <2>1
<1>6. PICK calculated : calculated = [i \in DOMAIN q.rows |-> [q.rows[i] EXCEPT !.values = Columns(q.rows[i])]]
  OBVIOUS
<1>7. q.pc = "fold" /\ q.left = {} /\ q.groups = <<>>
  BY DEF Calculate
<1>8. CASE \E i \in DOMAIN q.rows : \E m \in F : ~IsAmount(worth[i][m])
  <2>1. q' = [q EXCEPT !.pc = "refused"]
    BY <1>4, <1>8
  <2> QED BY <1>7, <2>1 DEF Moves, Fields
<1>9. CASE ~\E i \in DOMAIN q.rows : \E m \in F : ~IsAmount(worth[i][m])
  <2>1. q' = [q EXCEPT !.pc = "join", !.rows = IF F = {} THEN q.rows ELSE calculated]
    BY <1>4, <1>5, <1>6, <1>9
  <2>2. Moves({"pc", "rows"}) /\ q'.pc = "join" /\ q'.rows = IF F = {} THEN q.rows ELSE calculated
    BY <2>1 DEF Moves, Fields
  <2>3. \A i \in DOMAIN q.rows : \A m \in DOMAIN q.columns :
            q.columns[m] # None => IsAmount(Evaluate(q.columns[m], q.rows[i].values))
    BY <1>1, <1>2, <1>9
  <2>4. \/ q'.rows = q.rows /\ \A m \in DOMAIN q.columns : q.columns[m] = None
        \/ q'.rows = calculated /\ \E m \in DOMAIN q.columns : q.columns[m] # None
    BY <1>1, <2>2
  <2> QED BY <1>6, <1>7, <2>2, <2>3, <2>4
<1> QED BY <1>8, <1>9

LEMMA JoinMoves ==
  ASSUME DOMAIN q = Fields, Join
  PROVE  /\ Moves({"pc", "rows", "joined"}) /\ q.pc = "join" /\ q'.pc \in {"page", "refused"}
         /\ q'.pc = "refused" => q'.rows = q.rows
         /\ q'.pc = "page" =>
                \/ q'.rows = q.rows /\ Wanted = {}
                \/ /\ Sql \/ q.request.join.attributes \cap Measured = {}
                   /\ Joinable(q.request.join) /\ q.request.join # None
                   /\ q.request.join.attributes # {} /\ q'.joined = tags
                   /\ \E kept : /\ kept = Only(q.rows, {i \in DOMAIN q.rows :
                                                           Survives(q.rows[i], q.request.join)})
                                /\ q'.rows = [i \in DOMAIN kept |-> Attach(kept[i], q.request.join)]
<1>1. PICK j, I, kept : /\ j = q.request.join
                        /\ I = {i \in DOMAIN q.rows : Survives(q.rows[i], j)}
                        /\ kept = Only(q.rows, I)
  OBVIOUS
<1>2. PICK rows : rows = [i \in DOMAIN kept |-> Attach(kept[i], j)]
  OBVIOUS
<1>3. IF j = None THEN q' = [q EXCEPT !.pc = "page"]
      ELSE IF \/ ~ResolveJoin(j) \/ ~Joinable(j)
              \/ ~Sql /\ j.attributes \cap Measured # {}
        THEN q' = [q EXCEPT !.pc = "refused"]
      ELSE q' = [q EXCEPT !.pc = "page", !.joined = tags,
                          !.rows = IF j.attributes = {} THEN q.rows ELSE rows]
  BY <1>1, <1>2 DEF Join, Refuse
<1>4. q.pc = "join"
  BY DEF Join
<1>5. CASE j = None
  BY <1>1, <1>3, <1>4, <1>5 DEF Moves, Fields, Wanted
<1>6. CASE q' = [q EXCEPT !.pc = "refused"]
  BY <1>1, <1>4, <1>6 DEF Moves, Fields
<1>7. CASE j # None /\ q' # [q EXCEPT !.pc = "refused"]
  <2>1. /\ Sql \/ j.attributes \cap Measured = {}
        /\ Joinable(j)
        /\ q' = [q EXCEPT !.pc = "page", !.joined = tags,
                          !.rows = IF j.attributes = {} THEN q.rows ELSE rows]
    BY <1>3, <1>7
  <2>2. /\ Moves({"pc", "rows", "joined"}) /\ q'.pc = "page" /\ q'.joined = tags
        /\ q'.rows = IF j.attributes = {} THEN q.rows ELSE rows
    BY <2>1 DEF Moves, Fields
  <2>3. /\ kept = Only(q.rows, {i \in DOMAIN q.rows : Survives(q.rows[i], q.request.join)})
        /\ rows = [i \in DOMAIN kept |-> Attach(kept[i], q.request.join)]
    BY <1>1, <1>2
  <2>4. CASE j.attributes = {}
    BY <1>1, <1>4, <1>7, <2>2, <2>4 DEF Wanted
  <2>5. CASE j.attributes # {}
    <3>1. q'.rows = rows
      BY <2>2, <2>5
    <3>2. /\ Sql \/ q.request.join.attributes \cap Measured = {}
          /\ Joinable(q.request.join) /\ q.request.join # None
          /\ q.request.join.attributes # {}
      BY <1>1, <1>7, <2>1, <2>5
    <3>3. \E k : /\ k = Only(q.rows, {i \in DOMAIN q.rows : Survives(q.rows[i], q.request.join)})
                  /\ q'.rows = [i \in DOMAIN k |-> Attach(k[i], q.request.join)]
      BY <2>3, <3>1
    <3> HIDE <1>1, <1>2
    <3> QED BY <1>4, <2>2, <3>2, <3>3
  <2> QED BY <2>4, <2>5
<1> QED BY <1>5, <1>6, <1>7

LEMMA OrderAndLimitMoves ==
  ASSUME DOMAIN q = Fields, OrderAndLimit
  PROVE  /\ Moves({"pc", "page", "truncated"}) /\ q.pc = "page" /\ q'.pc \in {"done", "refused"}
         /\ q'.pc = "done" =>
                /\ q'.page = PageOf(q.rows) /\ q'.truncated = Cut(q.rows)
                /\ \A i \in DOMAIN q.request.order :
                       q.request.order[i].column \in q.request.groupBy \cup Measured \cup Wanted
  BY DEF OrderAndLimit, Refuse, Moves, Fields

LEMMA AskOrders ==
  ASSUME OrdersGrow, NEW r, Ask(r)
  PROVE  OrdersGrow'
<1>1. /\ DOMAIN q' = Fields /\ q'.asked = known /\ q'.pc \in {"refused", "measures"}
      /\ known' = known /\ shown' = shown /\ cube' = cube
  BY DEF Ask, Idle, Fields
<1>2. \A a \in Axis : Begins(known[a], known[a])
  BY BeginsIs DEF OrdersGrow, Orders
<1> QED BY <1>1, <1>2 DEF OrdersGrow, Late

LEMMA TakeMeasuresOrders ==
  ASSUME OrdersGrow, TakeMeasures
  PROVE  OrdersGrow'
<1>1. /\ q.pc = "measures" /\ known' = known /\ cube' = cube
      /\ \/ shown' = [shown EXCEPT ![cube.measureAxis] = known[cube.measureAxis]]
         \/ shown' = shown
  BY DEF TakeMeasures
<1>2. /\ DOMAIN q' = Fields /\ q'.asked = q.asked /\ q'.pc \in {"refused", "filters"}
  BY DEF TakeMeasures, Refuse, OrdersGrow, Fields
<1> QED BY <1>1, <1>2, SameOrders DEF Late

LEMMA AddFilterOrders ==
  ASSUME OrdersGrow, AddFilter
  PROVE  OrdersGrow'
<1>1. PICK x : x = q.request.filters[q.at].axis
  OBVIOUS
<1>2. /\ q.pc = "filters" /\ known' = known /\ cube' = cube
      /\ shown' = [shown EXCEPT ![x] = known[x]] \/ shown' = shown
  BY <1>1 DEF AddFilter
<1>3. /\ DOMAIN q' = Fields /\ q'.asked = q.asked /\ q'.pc \in {"refused", "filters"}
  BY DEF AddFilter, Refuse, OrdersGrow, Fields
<1> QED BY <1>2, <1>3, SameOrders DEF Late

LEMMA EndFiltersOrders ==
  ASSUME OrdersGrow, EndFilters
  PROVE  OrdersGrow'
<1>1. /\ q.pc = "filters" /\ known' = known /\ cube' = cube /\ shown' = shown
  BY DEF EndFilters
<1>2. /\ DOMAIN q' = Fields /\ q'.asked = q.asked
      /\ q'.pc = "refused" \/ (q'.pc = "order" /\ q'.at = 1)
  BY DEF EndFilters, Refuse, OrdersGrow, Fields
<1>3. 1 \in Axis /\ 1..(1 - 1) = {}
  BY DimsAreCounted DEF Axis
<1> QED BY <1>1, <1>2, <1>3 DEF OrdersGrow, Late

LEMMA EnsureDisplayOrderOrders ==
  ASSUME OrdersGrow, EnsureDisplayOrder
  PROVE  OrdersGrow'
<1>1. PICK n \in Axis : n = q.at /\ \A a \in 1..(n - 1) : Begins(q.asked[a], shown[a])
  BY DEF OrdersGrow, EnsureDisplayOrder
<1>2. /\ known' = known /\ cube' = cube /\ shown' = [shown EXCEPT ![n] = known[n]]
  BY <1>1 DEF EnsureDisplayOrder, Ordered
<1>3. /\ shown' \in Orders
      /\ \A a \in Axis : Begins(shown'[a], known'[a])
      /\ \A a \in Axis : \A s \in Seq(Members) : Begins(s, shown[a]) => Begins(s, shown'[a])
  BY <1>2, RefreshedOrders
<1>4. n \in 1..Dims /\ Dims \in Nat
  BY DimsAreCounted DEF Axis
<1>5. ASSUME NEW a \in 1..n PROVE Begins(q.asked[a], shown'[a])
  <2>1. a \in Axis
    BY <1>4 DEF Axis
  <2>2. CASE a = n
    <3>1. shown'[a] = known[a]
      BY <1>2, <2>1, <2>2 DEF OrdersGrow, Orders
    <3> QED BY <2>1, <3>1 DEF OrdersGrow
  <2>3. CASE a # n
    <3>1. Begins(q.asked[a], shown[a])
      BY <1>1, <1>4, <2>3
    <3>2. q.asked[a] \in Seq(Members)
      BY <2>1 DEF OrdersGrow, Orders
    <3> QED BY <1>3, <2>1, <3>1, <3>2
  <2> QED BY <2>2, <2>3
<1>6. DOMAIN q' = Fields /\ q'.asked = q.asked
  BY DEF EnsureDisplayOrder, OrdersGrow, Fields
<1>7. CASE q.at < Dims
  <2>1. q'.pc = "order" /\ q'.at = n + 1
    BY <1>1, <1>7 DEF EnsureDisplayOrder, OrdersGrow, Fields
  <2>2. q'.at \in Axis /\ (n + 1) - 1 = n
    BY <1>1, <1>4, <1>7, <2>1 DEF Axis
  <2> QED BY <1>2, <1>3, <1>5, <1>6, <2>1, <2>2 DEF OrdersGrow, Late
<1>8. CASE ~(q.at < Dims)
  <2>1. q'.pc = "resolve"
    BY <1>8 DEF EnsureDisplayOrder, OrdersGrow, Fields
  <2>2. \A a \in Axis : a \in 1..n
    BY <1>1, <1>4, <1>8 DEF Axis
  <2> QED BY <1>2, <1>3, <1>5, <1>6, <2>1, <2>2 DEF OrdersGrow
<1> QED BY <1>7, <1>8

LEMMA LateOrders ==
  ASSUME OrdersGrow, \/ Resolve \/ Scan \/ (\E c : Fold(c)) \/ (\E key : Emit(key))
                     \/ Calculate \/ Join \/ OrderAndLimit
  PROVE  OrdersGrow'
<1>1. /\ q.pc \in Late /\ known' = known /\ cube' = cube /\ shown' = shown
  BY DEF Resolve, Scan, Fold, Emit, Calculate, Join, OrderAndLimit, Late
<1>2. /\ DOMAIN q' = Fields /\ q'.asked = q.asked /\ q'.pc # "order"
  <2>1. CASE Resolve
    BY <2>1, ResolveMoves DEF Moves, OrdersGrow, Fields
  <2>2. CASE Scan
    BY <2>2, ScanMoves DEF Moves, OrdersGrow, Fields
  <2>3. CASE \E c : Fold(c)
    BY <2>3, FoldMoves DEF Moves, OrdersGrow, Fields
  <2>4. CASE \E key : Emit(key)
    BY <2>4, EmitMoves DEF Moves, OrdersGrow, Fields
  <2>5. CASE Calculate
    BY <2>5, CalculateMoves DEF Moves, OrdersGrow, Fields
  <2>6. CASE Join
    BY <2>6, JoinMoves DEF Moves, OrdersGrow, Fields
  <2>7. CASE OrderAndLimit
    BY <2>7, OrderAndLimitMoves DEF Moves, OrdersGrow, Fields
  <2> QED BY <2>1, <2>2, <2>3, <2>4, <2>5, <2>6, <2>7
<1>3. PICK x : shown' = [shown EXCEPT ![x] = known[x]] \/ shown' = shown
  BY <1>1
<1>4. /\ q'.pc = "order" => q.pc = "order" /\ q'.at = q.at
      /\ q'.pc \in Late => q.pc \in Late
  BY <1>1, <1>2
<1> QED BY <1>1, <1>2, <1>3, <1>4, SameOrders

LEMMA OtherOrders ==
  ASSUME OrdersGrow, Other
  PROVE  OrdersGrow'
<1>1. ASSUME NEW a \in Axis, RefreshOrder(a) PROVE OrdersGrow'
  <2>1. shown' = [shown EXCEPT ![a] = known[a]] /\ known' = known /\ cube' = cube /\ q' = q
    BY <1>1 DEF RefreshOrder
  <2>2. DOMAIN q = Fields
    BY DEF OrdersGrow
  <2> QED BY <2>1, <2>2, SameOrders
<1>2. ASSUME NEW a \in Axis, NEW m \in Leaves[a], AddLeaf(a, m) PROVE OrdersGrow'
  <2>1. /\ m \notin Range(known[a]) /\ m \in Members
        /\ known' = [known EXCEPT ![a] = Append(known[a], m)]
        /\ shown' = shown /\ cube' = cube /\ q' = q
    BY <1>2 DEF AddLeaf, Members
  <2>2. known \in Orders
    BY DEF OrdersGrow
  <2>3. ASSUME NEW b \in Axis
        PROVE  /\ known'[b] \in Seq(Members) /\ IsInjective(known'[b])
               /\ \A s \in Seq(Members) : Begins(s, known[b]) => Begins(s, known'[b])
    <3>1. known[b] \in Seq(Members) /\ IsInjective(known[b])
      BY <2>2 DEF OrdersGrow, Orders
    <3>2. CASE b # a
      BY <2>1, <2>2, <3>1, <3>2 DEF Orders
    <3>3. CASE b = a
      <4>1. known'[b] = Append(known[b], m)
        BY <2>1, <2>2, <3>3 DEF Orders
      <4>2. PICK s \in Seq(Members) : s = known[b] /\ IsInjective(s) /\ m \notin Range(s)
        BY <2>1, <3>1, <3>3
      <4>3. PICK n \in Nat : n = Len(s)
        BY SeqIs
      <4>4. PICK t : t = Append(s, m)
        OBVIOUS
      <4>5. /\ t \in Seq(Members) /\ Len(t) = n + 1 /\ t[n + 1] = m
            /\ \A i \in 1..n : t[i] = s[i]
        BY <2>1, <4>3, <4>4, AppendProperties
      <4>6. /\ \A i \in 1..n : s[i] # m
            /\ \A i, j \in 1..n : s[i] = s[j] => i = j
        BY <4>2, <4>3, SeqIs
      <4>7. \A i \in 1..(n + 1) : i \in 1..n \/ i = n + 1
        OBVIOUS
      <4>8. \A i, j \in 1..(n + 1) : t[i] = t[j] => i = j
        BY <4>5, <4>6, <4>7
      <4>9. IsInjective(t)
        BY <4>5, <4>8, SeqIs
      <4>10. \A u \in Seq(Members) : Begins(u, s) => Begins(u, t)
        BY <2>1, <4>4, BeginsIs
      <4> QED BY <4>1, <4>2, <4>4, <4>5, <4>9, <4>10
    <3> QED BY <3>2, <3>3
  <2>4. known' \in Orders
    BY <2>1, <2>2, <2>3 DEF Orders
  <2>5. \A b \in Axis : q.asked[b] \in Seq(Members) /\ shown[b] \in Seq(Members)
    BY DEF OrdersGrow, Orders
  <2> QED BY <2>1, <2>3, <2>4, <2>5 DEF OrdersGrow
<1>3. ASSUME UNCHANGED <<cube, known, shown, q>> PROVE OrdersGrow'
  BY <1>3 DEF OrdersGrow
<1> QED BY <1>1, <1>2, <1>3 DEF Other, PutCell, PutTag

LEMMA StepOrders ==
  ASSUME OrdersGrow, [Next]_vars
  PROVE  OrdersGrow'
<1>1. CASE UNCHANGED vars
  BY <1>1 DEF vars, OrdersGrow
<1>2. CASE Query
  BY <1>2, AskOrders, TakeMeasuresOrders, AddFilterOrders, EndFiltersOrders,
     EnsureDisplayOrderOrders, LateOrders DEF Query, Slice
<1>3. CASE Other
  BY <1>3, OtherOrders
<1> QED BY <1>1, <1>2, <1>3 DEF Next

-------------------------------------------------------------------------------
(* Rows, step by step.                                                     *)

LEMMA SameKeys ==
  ASSUME cube' = cube, q'.measures = q.measures, q'.request = q.request,
         q'.snapshot = q.snapshot, q'.asked = q.asked
  PROVE  KeyAxes' = KeyAxes /\ RowAxes' = RowAxes /\ Keys' = Keys /\ (Sane' <=> Sane)
<1>1. KeyAxes' = KeyAxes
  BY DEF KeyAxes, Pivoted
<1>2. RowAxes' = RowAxes
  BY <1>1 DEF RowAxes
<1>3. Keys' = Keys
  BY <1>1 DEF Keys
<1>4. Sane' <=> Sane
  BY DEF Sane, Pivoted
<1> QED BY <1>1, <1>2, <1>3, <1>4

LEMMA SameRows ==
  ASSUME RowsInOrder, cube' = cube, q'.measures = q.measures, q'.request = q.request,
         q'.snapshot = q.snapshot, q'.asked = q.asked, q'.rows = q.rows,
         q'.groups = q.groups, q'.left = q.left, q'.pc \in Early => q.pc \in Early
  PROVE  RowsInOrder'
<1>1. KeyAxes' = KeyAxes /\ Keys' = Keys /\ (Sane' <=> Sane)
  BY SameKeys
<1> QED BY <1>1 DEF RowsInOrder

LEMMA NoRowsYet ==
  ASSUME q.rows = <<>>, q.groups = <<>>, q.left \subseteq DOMAIN q.snapshot
  PROVE  RowsInOrder
<1>1. IsList(<<>>) /\ DOMAIN <<>> = {}
  BY NoneIs DEF IsList
<1> QED BY <1>1 DEF RowsInOrder

LEMMA AskRows ==
  ASSUME OrdersGrow, NEW r, Ask(r)
  PROVE  RowsInOrder'
<1>1. (q.rows = <<>> /\ q.groups = <<>> /\ q.left \subseteq DOMAIN q.snapshot)'
  BY DEF Ask, Idle
<1> QED BY <1>1, NoRowsYet, PTL

LEMMA EarlyRows ==
  ASSUME OrdersGrow, RowsInOrder,
         TakeMeasures \/ AddFilter \/ EndFilters \/ EnsureDisplayOrder \/ Resolve
  PROVE  RowsInOrder'
<1>1. /\ q.pc \in Early
  BY DEF TakeMeasures, AddFilter, EndFilters, EnsureDisplayOrder, Resolve, Early
<1>2. q.rows = <<>> /\ q.groups = <<>> /\ q.left \subseteq DOMAIN q.snapshot
  BY <1>1 DEF RowsInOrder
<1>3. DOMAIN q = Fields
  BY DEF OrdersGrow
<1>4. q'.rows = q.rows /\ q'.groups = q.groups /\ q'.left = q.left /\ q'.snapshot = q.snapshot
  <2>1. CASE TakeMeasures
    BY <1>3, <2>1, TakeMeasuresMoves DEF Moves, Fields
  <2>2. CASE AddFilter
    BY <1>3, <2>2, AddFilterMoves DEF Moves, Fields
  <2>3. CASE EndFilters
    BY <1>3, <2>3, EndFiltersMoves DEF Moves, Fields
  <2>4. CASE EnsureDisplayOrder
    BY <1>3, <2>4, EnsureDisplayOrderMoves DEF Moves, Fields
  <2>5. CASE Resolve
    BY <1>3, <2>5, ResolveMoves DEF Moves, Fields
  <2> QED BY <2>1, <2>2, <2>3, <2>4, <2>5
<1>5. (q.rows = <<>> /\ q.groups = <<>> /\ q.left \subseteq DOMAIN q.snapshot)'
  BY <1>2, <1>4
<1> QED BY <1>5, NoRowsYet, PTL

LEMMA ScanRows ==
  ASSUME OrdersGrow, RowsInOrder, Scan
  PROVE  RowsInOrder'
<1>1. q.rows = <<>> /\ q.groups = <<>>
  BY DEF RowsInOrder, Scan, Early
<1>2. (q.rows = <<>> /\ q.groups = <<>> /\ q.left \subseteq DOMAIN q.snapshot)'
  BY <1>1, ScanMoves DEF Moves, OrdersGrow, Fields
<1> QED BY <1>2, NoRowsYet, PTL

LEMMA FoldMeans ==
  ASSUME NEW c, Fold(c)
  PROVE  \E v : q' = [q EXCEPT !.left = q.left \ {c},
                     !.groups = IF \E a \in Axis : c[a] \in q.denied[a] THEN q.groups
                                ELSE With(q.groups, At(c, KeyAxes), v)]
<1>1. PICK v : v = With(IF At(c, KeyAxes) \in DOMAIN q.groups THEN q.groups[At(c, KeyAxes)] ELSE <<>>,
                        MeasureOf(c),
                        Add(IF MeasureOf(c) \in DOMAIN (IF At(c, KeyAxes) \in DOMAIN q.groups
                                                          THEN q.groups[At(c, KeyAxes)] ELSE <<>>)
                              THEN (IF At(c, KeyAxes) \in DOMAIN q.groups
                                      THEN q.groups[At(c, KeyAxes)] ELSE <<>>)[MeasureOf(c)]
                              ELSE NewAcc(FoldOf(MeasureOf(c))),
                            Read(c), IF Read(c) \in Texts THEN Read(c) ELSE Weighted(c, Read(c))))
  OBVIOUS
<1>2. q' = [q EXCEPT !.left = q.left \ {c},
                     !.groups = IF \E a \in Axis : c[a] \in q.denied[a] THEN q.groups
                                ELSE With(q.groups, At(c, KeyAxes), v)]
  BY <1>1 DEF Fold
<1> QED BY <1>2

LEMMA FoldRows ==
  ASSUME OrdersGrow, RowsInOrder, NEW c \in q.left, Fold(c)
  PROVE  RowsInOrder'
<1>2. PICK v : q' = [q EXCEPT !.left = q.left \ {c},
                     !.groups = IF \E a \in Axis : c[a] \in q.denied[a] THEN q.groups
                                ELSE With(q.groups, At(c, KeyAxes), v)]
  BY FoldMeans
<1>3. DOMAIN q = Fields /\ cube' = cube
  BY DEF OrdersGrow, Fold
<1>4. /\ q'.measures = q.measures /\ q'.request = q.request /\ q'.snapshot = q.snapshot
      /\ q'.asked = q.asked /\ q'.rows = q.rows /\ q'.pc = q.pc /\ q'.left = q.left \ {c}
      /\ q'.groups = q.groups \/ q'.groups = With(q.groups, At(c, KeyAxes), v)
  BY <1>2, <1>3 DEF Fields
<1>5. KeyAxes' = KeyAxes /\ Keys' = Keys /\ (Sane' <=> Sane)
  BY <1>3, <1>4, SameKeys
<1>6. q.rows = <<>> /\ q.pc = "fold"
  BY DEF RowsInOrder, Fold
<1>7. DOMAIN q'.groups \subseteq Keys'
  <2>1. At(c, KeyAxes) \in Keys
    BY DEF RowsInOrder, Keys
  <2>2. DOMAIN With(q.groups, At(c, KeyAxes), v) = DOMAIN q.groups \cup {At(c, KeyAxes)}
    BY DEF With
  <2>3. DOMAIN q.groups \subseteq Keys
    BY DEF RowsInOrder
  <2> QED BY <1>4, <1>5, <2>1, <2>2, <2>3
<1>8. q'.left \subseteq DOMAIN q'.snapshot
  BY <1>4 DEF RowsInOrder
<1>9. IsList(<<>>) /\ DOMAIN <<>> = {}
  BY NoneIs DEF IsList
<1> QED BY <1>4, <1>6, <1>7, <1>8, <1>9 DEF RowsInOrder, Early

(* The group that is emitted comes before those that are left.             *)
LEMMA FirstGroup ==
  ASSUME OrdersGrow, Sane, q.pc \in Late, NEW k \in Keys, NEW l \in Keys, k # l, ~Precedes(l, k)
  PROVE  Follows(q.asked, KeyAxes, k, l)
<1>1. KeyAxes \in Seq(Axis) /\ RowAxes = KeyAxes
  BY KeyAxesAre DEF Sane
<1>2. PICK n \in Nat : n = Len(KeyAxes) /\ DOMAIN KeyAxes = 1..n /\ \A s \in 1..n : KeyAxes[s] \in Axis
  BY <1>1, SeqIs
<1>3. PICK c \in DOMAIN q.snapshot, d \in DOMAIN q.snapshot :
          k = At(c, KeyAxes) /\ l = At(d, KeyAxes)
  BY DEF Keys
<1>4. /\ k = [s \in 1..n |-> c[KeyAxes[s]]] /\ l = [s \in 1..n |-> d[KeyAxes[s]]]
  BY <1>2, <1>3 DEF At
<1>5. PICK S : S = {s \in 1..n : k[s] # l[s]}
  OBVIOUS
<1>6. S # {} /\ S \subseteq Nat
  <2>1. ASSUME \A s \in 1..n : k[s] = l[s] PROVE k = l
    <3>1. \A s \in 1..n : c[KeyAxes[s]] = d[KeyAxes[s]]
      BY <1>4, <2>1
    <3> QED BY <1>4, <3>1
  <2> QED BY <1>5, <2>1
<1>7. PICK s \in S : \A t \in S : s <= t
  BY <1>6, LeastExists
<1>8. s \in 1..n /\ k[s] # l[s] /\ \A t \in 1..(s - 1) : t \in 1..n /\ k[t] = l[t]
  BY <1>2, <1>5, <1>7
<1>9. PICK a \in Axis : a = KeyAxes[s]
  BY <1>2, <1>8
<1>10. k[s] \in Range(q.asked[a]) /\ l[s] \in Range(q.asked[a])
  BY <1>3, <1>4, <1>8, <1>9 DEF Sane
<1>11. /\ q.asked[a] \in Seq(Members) /\ shown[a] \in Seq(Members) /\ known[a] \in Seq(Members)
       /\ Begins(q.asked[a], shown[a]) /\ Begins(shown[a], known[a]) /\ IsInjective(known[a])
  BY DEF OrdersGrow, Orders
<1>12. IsInjective(shown[a])
  <2>1. Len(shown[a]) \in Nat /\ Len(known[a]) \in Nat
    BY <1>11, SeqIs
  <2>2. \A i, j \in 1..Len(known[a]) : known[a][i] = known[a][j] => i = j
    BY <1>11, SeqIs
  <2>3. \A i, j \in 1..Len(shown[a]) : shown[a][i] = shown[a][j] => i = j
    BY <1>11, <2>1, <2>2 DEF Begins
  <2> QED BY <1>11, <2>3, SeqIs
<1>13. PICK p, r : p = Place(q.asked[a], k[s]) /\ r = Place(q.asked[a], l[s])
  OBVIOUS
<1>14. /\ p \in 1..Len(q.asked[a]) /\ r \in 1..Len(q.asked[a])
       /\ q.asked[a][p] = k[s] /\ q.asked[a][r] = l[s]
       /\ Place(shown[a], k[s]) = p /\ Place(shown[a], l[s]) = r
  BY <1>10, <1>11, <1>12, <1>13, PlaceIs
<1>15. p # r /\ p \in Nat /\ r \in Nat
  BY <1>8, <1>14
<1>16. Rank(k, s) = p /\ Rank(l, s) = r /\ \A t \in 1..(s - 1) : Rank(l, t) = Rank(k, t)
  BY <1>1, <1>8, <1>9, <1>14 DEF Rank
<1>17. ~(r < p)
  BY <1>1, <1>2, <1>8, <1>16 DEF Precedes
<1>18. p < r
  BY <1>15, <1>17
<1> QED BY <1>2, <1>8, <1>9, <1>13, <1>18 DEF Follows

LEMMA EmitRows ==
  ASSUME OrdersGrow, RowsInOrder, NEW key \in DOMAIN q.groups, Emit(key)
  PROVE  RowsInOrder'
<1>1. PICK row : row = Row(key) /\ DOMAIN row = {"key", "values"} /\ row.key = key
  <2>1. PICK v : v = [m \in Outputs |-> IF m \in DOMAIN q.groups[key]
                                          THEN Finish(q.groups[key][m], FoldOf(m)) ELSE None]
    OBVIOUS
  <2>2. Row(key) = [key |-> key, values |-> v]
    BY <2>1 DEF Row
  <2> QED BY <2>2
<1>2. /\ DOMAIN q = Fields /\ cube' = cube /\ q.pc = "fold" /\ q.left = {}
      /\ \A other \in DOMAIN q.groups : ~Precedes(other, key)
  BY DEF OrdersGrow, Emit
<1>3. /\ q'.measures = q.measures /\ q'.request = q.request /\ q'.snapshot = q.snapshot
      /\ q'.asked = q.asked /\ q'.rows = Append(q.rows, row) /\ q'.pc = q.pc /\ q'.left = {}
      /\ DOMAIN q'.groups = DOMAIN q.groups \ {key}
  BY <1>1, <1>2 DEF Emit, Fields, Restrict
<1>4. KeyAxes' = KeyAxes /\ Keys' = Keys /\ (Sane' <=> Sane)
  BY <1>2, <1>3, SameKeys
<1>5. PICK S : S = Range(q.rows) \cup {row}
  OBVIOUS
<1>6. q.rows \in Seq(S)
  BY <1>5, SeqMonotonic DEF RowsInOrder, IsList
<1>7. PICK n \in Nat : n = Len(q.rows) /\ DOMAIN q.rows = 1..n
  BY <1>6, SeqIs
<1>8. PICK t : t = q'.rows
  OBVIOUS
<1>9. t \in Seq(S) /\ Len(t) = n + 1 /\ t[n + 1] = row /\ \A i \in 1..n : t[i] = q.rows[i]
  BY <1>3, <1>5, <1>6, <1>7, <1>8, AppendProperties
<1>10. IsList(t) /\ DOMAIN t = 1..(n + 1)
  BY <1>9, SeqIs DEF IsList
<1>11. \A i \in 1..(n + 1) : i \in 1..n \/ i = n + 1
  OBVIOUS
<1>12. \A i \in DOMAIN t : DOMAIN t[i] = {"key", "values"} /\ t[i].key \in Keys
  BY <1>1, <1>7, <1>9, <1>10, <1>11 DEF RowsInOrder
<1>13. ASSUME Sane, NEW i \in DOMAIN t, NEW j \in DOMAIN t, i < j
       PROVE  Follows(q.asked, KeyAxes, t[i].key, t[j].key)
  <2>1. i \in 1..n
    BY <1>10, <1>13
  <2>2. CASE j = n + 1
    <3>1. t[i] = q.rows[i] /\ t[j].key = key
      BY <1>1, <1>9, <2>1, <2>2
    <3> QED BY <1>7, <1>13, <2>1, <3>1 DEF RowsInOrder
  <2>3. CASE j \in 1..n
    BY <1>7, <1>9, <1>13, <2>1, <2>3 DEF RowsInOrder
  <2> QED BY <1>10, <1>11, <2>2, <2>3
<1>14. ASSUME Sane, NEW i \in DOMAIN t, NEW k \in DOMAIN q.groups \ {key}
       PROVE  Follows(q.asked, KeyAxes, t[i].key, k)
  <2>1. CASE i = n + 1
    <3>1. k \in Keys /\ key \in Keys /\ ~Precedes(k, key) /\ key # k /\ q.pc \in Late
      BY <1>2 DEF RowsInOrder, Late
    <3>2. Follows(q.asked, KeyAxes, key, k)
      BY <1>14, <3>1, FirstGroup
    <3> QED BY <1>1, <1>9, <2>1, <3>2
  <2>2. CASE i \in 1..n
    BY <1>7, <1>9, <1>14, <2>2 DEF RowsInOrder
  <2> QED BY <1>10, <1>11, <2>1, <2>2
<1>15. DOMAIN q'.groups \subseteq Keys
  BY <1>3 DEF RowsInOrder
<1>16. q'.left = {} /\ q'.pc \notin Early
  BY <1>2, <1>3 DEF Early
<1> QED BY <1>3, <1>4, <1>8, <1>10, <1>12, <1>13, <1>14, <1>15, <1>16 DEF RowsInOrder

(* Rows whose keys are some of those that there were, in their order.      *)
LEMMA ListIs ==
  ASSUME NEW m \in Nat, NEW t, t = [i \in 1..m |-> t[i]]
  PROVE  IsList(t)
<1>1. t \in [1..m -> Range(t)]
  BY DEF Range
<1> QED BY <1>1, SeqDef DEF IsList

LEMMA FewerRows ==
  ASSUME RowsInOrder, NEW m \in Nat, NEW t, NEW f \in [1..m -> DOMAIN q.rows],
         DOMAIN t = 1..m, IsList(t),
         \A i \in 1..m : DOMAIN t[i] = {"key", "values"} /\ t[i].key = q.rows[f[i]].key,
         \A i, j \in 1..m : i < j => f[i] < f[j],
         cube' = cube, q'.measures = q.measures, q'.request = q.request,
         q'.snapshot = q.snapshot, q'.asked = q.asked, q'.rows = t,
         q'.groups = <<>>, q'.left = {}, q'.pc \notin Early
  PROVE  RowsInOrder'
<1>1. KeyAxes' = KeyAxes /\ Keys' = Keys /\ (Sane' <=> Sane)
  BY SameKeys
<1>2. IsList(t)
  OBVIOUS
<1>3. \A i \in DOMAIN t : DOMAIN t[i] = {"key", "values"} /\ t[i].key \in Keys
  BY DEF RowsInOrder
<1>4. ASSUME Sane, NEW i \in DOMAIN t, NEW j \in DOMAIN t, i < j
      PROVE  Follows(q.asked, KeyAxes, t[i].key, t[j].key)
  BY <1>4 DEF RowsInOrder
<1>5. DOMAIN <<>> = {}
  BY NoneIs
<1> QED BY <1>1, <1>2, <1>3, <1>4, <1>5 DEF RowsInOrder

LEMMA CalculateRows ==
  ASSUME OrdersGrow, RowsInOrder, Calculate
  PROVE  RowsInOrder'
<1>1. cube' = cube /\ DOMAIN q = Fields
  BY DEF OrdersGrow, Calculate
<1>2. /\ q'.measures = q.measures /\ q'.request = q.request /\ q'.snapshot = q.snapshot
      /\ q'.asked = q.asked /\ q'.groups = q.groups /\ q'.left = q.left
      /\ q.groups = <<>> /\ q.left = {} /\ q'.pc \notin Early
  BY <1>1, CalculateMoves DEF Moves, Fields, Early
<1>3. CASE q'.rows = q.rows
  BY <1>1, <1>2, <1>3, SameRows
<1>4. CASE q'.rows = [i \in DOMAIN q.rows |-> [q.rows[i] EXCEPT !.values = Columns(q.rows[i])]]
  <2>1. PICK t : t = q'.rows
    OBVIOUS
  <2>2. PICK m \in Nat : DOMAIN q.rows = 1..m
    <3>1. q.rows \in Seq(Range(q.rows))
      BY DEF RowsInOrder, IsList
    <3> QED BY <3>1, SeqIs
  <2>3. PICK f : f = [i \in 1..m |-> i]
    OBVIOUS
  <2>4. /\ f \in [1..m -> DOMAIN q.rows] /\ \A i, j \in 1..m : i < j => f[i] < f[j]
    BY <2>2, <2>3
  <2>5. DOMAIN t = 1..m /\ \A i \in 1..m : t[i] = [q.rows[i] EXCEPT !.values = Columns(q.rows[i])]
    BY <1>4, <2>1, <2>2
  <2>6. \A i \in 1..m : DOMAIN t[i] = {"key", "values"} /\ t[i].key = q.rows[f[i]].key
    BY <2>2, <2>3, <2>5 DEF RowsInOrder
  <2>7. IsList(t)
    <3>1. t = [i \in 1..m |-> t[i]]
      BY <1>4, <2>1, <2>2
    <3> QED BY <3>1, ListIs
  <2> QED BY <1>1, <1>2, <2>1, <2>4, <2>5, <2>6, <2>7, FewerRows
<1> QED BY <1>1, <1>3, <1>4, CalculateMoves

LEMMA JoinRows ==
  ASSUME OrdersGrow, RowsInOrder, Join, q.left = {}, q.groups = <<>>
  PROVE  RowsInOrder'
<1>1. cube' = cube /\ DOMAIN q = Fields
  BY DEF OrdersGrow, Join
<1>2. /\ q'.measures = q.measures /\ q'.request = q.request /\ q'.snapshot = q.snapshot
      /\ q'.asked = q.asked /\ q'.groups = q.groups /\ q'.left = q.left
      /\ q'.pc \notin Early
  BY <1>1, JoinMoves DEF Moves, Fields, Early
<1>3. CASE q'.rows = q.rows
  BY <1>1, <1>2, <1>3, SameRows
<1>4. CASE q'.rows # q.rows
  <2>1. PICK j : j = q.request.join
    OBVIOUS
  <2>2. PICK I, kept : kept = Only(q.rows, I) /\ q'.rows = [i \in DOMAIN kept |-> Attach(kept[i], j)]
    <3>1. \E kept : /\ kept = Only(q.rows, {i \in DOMAIN q.rows : Survives(q.rows[i], j)})
                    /\ q'.rows = [i \in DOMAIN kept |-> Attach(kept[i], j)]
      BY <1>1, <1>4, <2>1, JoinMoves
    <3> QED BY <3>1
  <2>3. PICK t : t = q'.rows
    OBVIOUS
  <2>4. PICK S : S = Range(q.rows) /\ q.rows \in Seq(S)
    BY DEF RowsInOrder, IsList
  <2>5. kept \in Seq(S) /\ \E f : Kept(kept, q.rows, I, Len(q.rows), f)
    BY <2>2, <2>4, OnlyIs
  <2>6. PICK f : Kept(kept, q.rows, I, Len(q.rows), f)
    BY <2>5
  <2>7. PICK m \in Nat : m = Len(kept) /\ DOMAIN kept = 1..m
    BY <2>5, SeqIs
  <2>8. DOMAIN q.rows = 1..Len(q.rows)
    BY <2>4, SeqIs
  <2>9. /\ f \in [1..m -> DOMAIN q.rows] /\ \A i, k \in 1..m : i < k => f[i] < f[k]
        /\ \A i \in 1..m : kept[i] = q.rows[f[i]]
    BY <2>6, <2>7, <2>8 DEF Kept
  <2>10. DOMAIN t = 1..m /\ t = [i \in 1..m |-> t[i]] /\ \A i \in 1..m : t[i] = Attach(kept[i], j)
    BY <2>2, <2>3, <2>7
  <2>11. ASSUME NEW i \in 1..m
         PROVE  DOMAIN t[i] = {"key", "values"} /\ t[i].key = q.rows[f[i]].key
    <3>1. PICK row : row = q.rows[f[i]] /\ DOMAIN row = {"key", "values"}
      BY <2>9 DEF RowsInOrder
    <3>2. t[i] = Attach(row, j)
      BY <2>9, <2>10, <3>1
    <3> QED BY <3>1, <3>2 DEF Attach
  <2>12. IsList(t)
    BY <2>10, ListIs
  <2> QED BY <1>1, <1>2, <2>3, <2>9, <2>10, <2>11, <2>12, FewerRows
<1> QED BY <1>3, <1>4

(* Once the formulas are done, no cell and no group is left.               *)
NothingIsLeft == q.pc \in {"join", "page", "done"} => q.left = {} /\ q.groups = <<>>

LEMMA StepLeft ==
  ASSUME OrdersGrow, NothingIsLeft, [Next]_vars
  PROVE  NothingIsLeft'
<1>1. DOMAIN q = Fields
  BY DEF OrdersGrow
<1>2. CASE q' = q
  BY <1>2 DEF NothingIsLeft
<1>3. CASE \E r \in Requests : Ask(r)
  BY <1>3 DEF NothingIsLeft, Ask, Idle
<1>4. CASE TakeMeasures
  <2>1. q'.pc \in {"refused", "filters"}
    BY <1>1, <1>4 DEF TakeMeasures, Refuse, Fields
  <2> QED BY <2>1 DEF NothingIsLeft
<1>5. CASE AddFilter
  BY <1>1, <1>5 DEF NothingIsLeft, AddFilter, Refuse, Fields
<1>6. CASE EndFilters
  BY <1>1, <1>6 DEF NothingIsLeft, EndFilters, Refuse, Fields
<1>7. CASE EnsureDisplayOrder
  BY <1>1, <1>7 DEF NothingIsLeft, EnsureDisplayOrder, Fields
<1>8. CASE Resolve
  BY <1>1, <1>8 DEF NothingIsLeft, Resolve, Refuse, Fields
<1>9. CASE Scan
  BY <1>1, <1>9 DEF NothingIsLeft, Scan, Fields
<1>10. ASSUME NEW c \in q.left, Fold(c) PROVE NothingIsLeft'
  <2>1. q.pc = "fold"
    BY <1>10 DEF Fold
  <2>2. PICK v : q' = [q EXCEPT !.left = q.left \ {c},
                     !.groups = IF \E a \in Axis : c[a] \in q.denied[a] THEN q.groups
                                ELSE With(q.groups, At(c, KeyAxes), v)]
    BY <1>10, FoldMeans
  <2>3. q'.pc = "fold"
    BY <1>1, <2>1, <2>2 DEF Fields
  <2> QED BY <2>3 DEF NothingIsLeft
<1>11. ASSUME NEW key \in DOMAIN q.groups, Emit(key) PROVE NothingIsLeft'
  BY <1>1, <1>11 DEF NothingIsLeft, Emit, Fields
<1>12. CASE Calculate
  BY <1>1, <1>12 DEF NothingIsLeft, Calculate, Refuse, Fields
<1>13. CASE Join
  BY <1>1, <1>13 DEF NothingIsLeft, Join, Refuse, Fields
<1>14. CASE OrderAndLimit
  BY <1>1, <1>14 DEF NothingIsLeft, OrderAndLimit, Refuse, Fields
<1>15. Other => q' = q
  BY DEF Other, RefreshOrder, AddLeaf, PutCell, PutTag
<1>16. UNCHANGED vars => q' = q
  BY DEF vars
<1> QED BY <1>2, <1>3, <1>4, <1>5, <1>6, <1>7, <1>8, <1>9, <1>10, <1>11, <1>12, <1>13, <1>14,
           <1>15, <1>16 DEF Next, Query, Slice

LEMMA StepRows ==
  ASSUME OrdersGrow, RowsInOrder, NothingIsLeft, [Next]_vars
  PROVE  RowsInOrder'
<1>1. CASE q' = q /\ cube' = cube
  BY <1>1, SameRows
<1>2. CASE \E r \in Requests : Ask(r)
  BY <1>2, AskRows
<1>3. CASE TakeMeasures \/ AddFilter \/ EndFilters \/ EnsureDisplayOrder \/ Resolve
  BY <1>3, EarlyRows
<1>4. CASE Scan
  BY <1>4, ScanRows
<1>5. CASE \E c \in q.left : Fold(c)
  BY <1>5, FoldRows
<1>6. CASE \E key \in DOMAIN q.groups : Emit(key)
  BY <1>6, EmitRows
<1>7. CASE Calculate
  BY <1>7, CalculateRows
<1>8. CASE Join
  BY <1>8, JoinRows DEF NothingIsLeft, Join
<1>9. CASE OrderAndLimit
  <2>1. DOMAIN q = Fields /\ cube' = cube
    BY <1>9 DEF OrdersGrow, OrderAndLimit
  <2>2. /\ q'.measures = q.measures /\ q'.request = q.request /\ q'.snapshot = q.snapshot
        /\ q'.asked = q.asked /\ q'.rows = q.rows /\ q'.groups = q.groups /\ q'.left = q.left
        /\ q'.pc \notin Early
    BY <1>9, <2>1 DEF OrderAndLimit, Refuse, Fields, Early
  <2> QED BY <2>1, <2>2, SameRows
<1>10. Other => q' = q /\ cube' = cube
  BY DEF Other, RefreshOrder, AddLeaf, PutCell, PutTag
<1>11. UNCHANGED vars => q' = q /\ cube' = cube
  BY DEF vars
<1> QED BY <1>1, <1>2, <1>3, <1>4, <1>5, <1>6, <1>7, <1>8, <1>9, <1>10, <1>11
        DEF Next, Query, Slice

LEMMA OrderedRows ==
  ASSUME OrdersGrow, RowsInOrder
  PROVE  RowsFollowTheDisplayOrder
<1> SUFFICES ASSUME q.pc = "done", Plain, NEW i \in DOMAIN q.rows, NEW j \in DOMAIN q.rows, i < j
             PROVE  Ahead(q.rows[i].key, q.rows[j].key)
  BY DEF RowsFollowTheDisplayOrder
<1>1. Sane
  BY DEF Sane, Plain
<1>2. PICK k, l : k = q.rows[i].key /\ l = q.rows[j].key
  OBVIOUS
<1>3. Follows(q.asked, KeyAxes, k, l) /\ k \in Keys /\ l \in Keys
  BY <1>1, <1>2 DEF RowsInOrder
<1>4. KeyAxes \in Seq(Axis) /\ RowAxes = KeyAxes
  BY <1>1, KeyAxesAre DEF Sane
<1>5. PICK s \in DOMAIN KeyAxes :
          /\ Place(q.asked[KeyAxes[s]], k[s]) < Place(q.asked[KeyAxes[s]], l[s])
          /\ \A t \in 1..(s - 1) : k[t] = l[t]
  BY <1>3 DEF Follows
<1>6. PICK a \in Axis : a = KeyAxes[s]
  BY <1>4, <1>5, SeqIs
<1>7. k[s] \in Range(q.asked[a]) /\ l[s] \in Range(q.asked[a])
  BY <1>1, <1>3, <1>5, <1>6 DEF Sane, Keys, At
<1>8. /\ q.asked[a] \in Seq(Members) /\ known[a] \in Seq(Members)
      /\ Begins(q.asked[a], known[a]) /\ IsInjective(known[a])
  BY DEF OrdersGrow, Orders
<1>9. /\ Place(known[a], k[s]) = Place(q.asked[a], k[s])
      /\ Place(known[a], l[s]) = Place(q.asked[a], l[s])
  BY <1>7, <1>8, PlaceIs
<1> QED BY <1>2, <1>4, <1>5, <1>6, <1>9 DEF Ahead

(* For every cube, every request and every number of members added in the  *)
(* meantime, the rows of an answer come in the display order.              *)
THEOREM AnswersAreInOrder == Spec => []RowsFollowTheDisplayOrder
<1> DEFINE IInv == OrdersGrow /\ RowsInOrder /\ NothingIsLeft
<1>1. Init => IInv
  BY InitOrders DEF Init, Idle, NothingIsLeft
<1>2. IInv /\ [Next]_vars => IInv'
  BY StepOrders, StepRows, StepLeft
<1>3. IInv => RowsFollowTheDisplayOrder
  BY OrderedRows
<1> QED BY <1>1, <1>2, <1>3, PTL DEF Spec

-------------------------------------------------------------------------------
(* Formulas, from their leaves: UpTo(d) are those that nest at most d deep. *)
Nesting == Cardinality(DOMAIN Formulas)
UpTo(d) == {f \in DOMAIN Formulas : Depth[f] <= d}

LEMMA FormulaIs ==
  /\ Nesting \in Nat /\ UpTo(0) = {} /\ UpTo(Nesting) = DOMAIN Formulas
  /\ \A d \in Nat : \A f \in UpTo(d + 1) : \A i \in DOMAIN Formulas[f].args :
         Formulas[f].args[i] \in UpTo(d)
  /\ \A d \in Nat : \A f \in UpTo(d) : f \in UpTo(d + 1)
  /\ \A f \in DOMAIN Formulas :
         /\ Len(Formulas[f].args) \in Nat
         /\ DOMAIN Formulas[f].args = 1..Len(Formulas[f].args)
         /\ \A i \in DOMAIN Formulas[f].args :
                Formulas[f].args[i] \in Range(Formulas[f].args)
<1>1. Nesting \in Nat
  BY FormulasAreTrees, FS_CardinalityType DEF Nesting
<1>2. \A f \in DOMAIN Formulas : Depth[f] \in 1..Nesting
  BY FormulasAreTrees DEF Nesting
<1>3. UpTo(0) = {} /\ UpTo(Nesting) = DOMAIN Formulas
  BY <1>1, <1>2 DEF UpTo
<1>4. ASSUME NEW f \in DOMAIN Formulas
      PROVE  /\ Len(Formulas[f].args) \in Nat
             /\ DOMAIN Formulas[f].args = 1..Len(Formulas[f].args)
             /\ \A i \in DOMAIN Formulas[f].args :
                    /\ Formulas[f].args[i] \in DOMAIN Formulas
                    /\ Formulas[f].args[i] \in Range(Formulas[f].args)
                    /\ Depth[Formulas[f].args[i]] < Depth[f]
  <2>1. Formulas[f].args \in Seq(DOMAIN Formulas)
    BY FormulasAreTrees
  <2>2. \A g \in Range(Formulas[f].args) : Depth[g] < Depth[f]
    BY FormulasAreTrees
  <2> QED BY <2>1, <2>2, SeqIs
<1>5. ASSUME NEW d \in Nat, NEW f \in UpTo(d + 1), NEW i \in DOMAIN Formulas[f].args
      PROVE  Formulas[f].args[i] \in UpTo(d)
  <2>1. f \in DOMAIN Formulas /\ Depth[f] <= d + 1
    BY DEF UpTo
  <2>2. PICK g \in DOMAIN Formulas : g = Formulas[f].args[i] /\ Depth[g] < Depth[f]
    BY <1>4, <2>1
  <2>3. Depth[g] \in 1..Nesting /\ Depth[f] \in 1..Nesting
    BY <1>2, <2>1
  <2>4. Depth[g] <= d
    BY <2>1, <2>2, <2>3, <1>1
  <2> QED BY <2>2, <2>4 DEF UpTo
<1>6. ASSUME NEW d \in Nat, NEW f \in UpTo(d) PROVE f \in UpTo(d + 1)
  <2>1. f \in DOMAIN Formulas /\ Depth[f] <= d /\ Depth[f] \in 1..Nesting
    BY <1>2 DEF UpTo
  <2>2. Depth[f] <= d + 1
    BY <1>1, <2>1
  <2> QED BY <2>1, <2>2 DEF UpTo
<1> QED BY <1>1, <1>3, <1>4, <1>5, <1>6

(* Slots, Evaluable, Needs and a formula's worth are what they say.        *)
SlotsAt(w, f) ==
    IF Formulas[f].op \in Aggregates
      THEN <<[name |-> Formulas[f].field, fold |-> Formulas[f].op, expr |-> None]>>
    ELSE Concat(Len(Formulas[f].args), [i \in DOMAIN Formulas[f].args |-> w[Formulas[f].args[i]]])

LEMMA SlotsAre == \A f \in DOMAIN Formulas : Slots[f] = SlotsAt(Slots, f)
<1> DEFINE P(w, d) == w = [f \in UpTo(d) |-> SlotsAt(w, f)]
<1>1. PICK T : T = {d \in Nat : \E w : P(w, d)}
  OBVIOUS
<1>2. 0 \in T
  <2>1. PICK w : w = [f \in {} |-> 0]
    OBVIOUS
  <2>2. P(w, 0)
    BY <2>1, FormulaIs
  <2> QED BY <1>1, <2>2
<1>3. ASSUME NEW d \in Nat, d \in T PROVE d + 1 \in T
  <2>1. PICK w : P(w, d)
    BY <1>1, <1>3
  <2>2. PICK x : x = [f \in UpTo(d + 1) |-> IF f \in UpTo(d) THEN w[f] ELSE SlotsAt(w, f)]
    OBVIOUS
  <2>3. \A f \in UpTo(d) : x[f] = w[f] /\ w[f] = SlotsAt(w, f)
    BY <2>1, <2>2, FormulaIs
  <2>4. ASSUME NEW f \in UpTo(d + 1) PROVE x[f] = SlotsAt(x, f)
    <3>1. \A i \in DOMAIN Formulas[f].args : x[Formulas[f].args[i]] = w[Formulas[f].args[i]]
      BY <2>3, FormulaIs
    <3>2. SlotsAt(x, f) = SlotsAt(w, f)
      <4>1. [i \in DOMAIN Formulas[f].args |-> w[Formulas[f].args[i]]]
              = [i \in DOMAIN Formulas[f].args |-> x[Formulas[f].args[i]]]
        BY <3>1
      <4> QED BY <4>1 DEF SlotsAt
    <3> QED BY <2>2, <2>3, <3>2
  <2>5. P(x, d + 1)
    BY <2>2, <2>4
  <2> HIDE DEF P
  <2> QED BY <1>1, <2>5
<1>4. Nesting \in T
  BY <1>2, <1>3, FormulaIs, SetInduction
<1>5. PICK w : P(w, Nesting)
  BY <1>1, <1>4
<1>6. \E v : v = [f \in DOMAIN Formulas |-> SlotsAt(v, f)]
  BY <1>5, FormulaIs
<1>7. Slots = CHOOSE v : v = [f \in DOMAIN Formulas |-> SlotsAt(v, f)]
  BY DEF Slots, SlotsAt
<1> QED BY <1>6, <1>7

NeedsAt(w, f) ==
    IF Formulas[f].op \in Aggregates THEN {Formulas[f].field}
    ELSE IF Formulas[f].op \in {"ZN", "IFNULL"} THEN {}
    ELSE IF Formulas[f].op = "IF" THEN w[Formulas[f].args[1]]
    ELSE UNION {w[g] : g \in Range(Formulas[f].args)}

LEMMA NeedsAre == \A f \in DOMAIN Formulas : Needs[f] = NeedsAt(Needs, f)
<1> DEFINE P(w, d) == w = [f \in UpTo(d) |-> NeedsAt(w, f)]
<1>1. PICK T : T = {d \in Nat : \E w : P(w, d)}
  OBVIOUS
<1>2. 0 \in T
  <2>1. PICK w : w = [f \in {} |-> 0]
    OBVIOUS
  <2>2. P(w, 0)
    BY <2>1, FormulaIs
  <2> QED BY <1>1, <2>2
<1>3. ASSUME NEW d \in Nat, d \in T PROVE d + 1 \in T
  <2>1. PICK w : P(w, d)
    BY <1>1, <1>3
  <2>2. PICK x : x = [f \in UpTo(d + 1) |-> IF f \in UpTo(d) THEN w[f] ELSE NeedsAt(w, f)]
    OBVIOUS
  <2>3. \A f \in UpTo(d) : x[f] = w[f] /\ w[f] = NeedsAt(w, f)
    BY <2>1, <2>2, FormulaIs
  <2>4. ASSUME NEW f \in UpTo(d + 1) PROVE x[f] = NeedsAt(x, f)
    <3>1. \A g \in Range(Formulas[f].args) : x[g] = w[g]
      <4>1. \A g \in Range(Formulas[f].args) : g \in UpTo(d)
        BY FormulaIs DEF Range
      <4> QED BY <2>3, <4>1
    <3>2. NeedsAt(x, f) = NeedsAt(w, f)
      <4>1. {x[g] : g \in Range(Formulas[f].args)} = {w[g] : g \in Range(Formulas[f].args)}
        BY <3>1
      <4>2. ASSUME Formulas[f].op = "IF" PROVE x[Formulas[f].args[1]] = w[Formulas[f].args[1]]
        <5>1. f \in DOMAIN Formulas
          BY DEF UpTo
        <5>2. 1 \in DOMAIN Formulas[f].args
          BY <4>2, <5>1, FormulaIs, OperandsAreThere
        <5> QED BY <3>1, <5>1, <5>2, FormulaIs
      <4> QED BY <4>1, <4>2 DEF NeedsAt
    <3> QED BY <2>2, <2>3, <3>2
  <2>5. P(x, d + 1)
    BY <2>2, <2>4
  <2> HIDE DEF P
  <2> QED BY <1>1, <2>5
<1>4. Nesting \in T
  BY <1>2, <1>3, FormulaIs, SetInduction
<1>5. PICK w : P(w, Nesting)
  BY <1>1, <1>4
<1>6. \E v : v = [f \in DOMAIN Formulas |-> NeedsAt(v, f)]
  BY <1>5, FormulaIs
<1>7. Needs = CHOOSE v : v = [f \in DOMAIN Formulas |-> NeedsAt(v, f)]
  BY DEF Needs, NeedsAt
<1> QED BY <1>6, <1>7

WorthAt(w, f, of) ==
    CASE Formulas[f].op \in Aggregates ->
             IF of[Formulas[f].field] = None \/ of[Formulas[f].field] \in Texts THEN Absent
             ELSE Num(of[Formulas[f].field])
      [] Formulas[f].op = "number" -> Num(Formulas[f].value)
      [] Formulas[f].op = "null"   -> Absent
      [] Formulas[f].op = "ZN"     -> IF w[Formulas[f].args[1]] = Absent THEN Num(<<0, 1>>)
                                      ELSE w[Formulas[f].args[1]]
      [] Formulas[f].op = "IFNULL" -> IF w[Formulas[f].args[1]] = Absent
                                      THEN w[Formulas[f].args[2]] ELSE w[Formulas[f].args[1]]
      [] Formulas[f].op = "IF"     -> CASE w[Formulas[f].args[1]] = Bool(TRUE)  -> w[Formulas[f].args[2]]
                                        [] w[Formulas[f].args[1]] = Bool(FALSE) -> w[Formulas[f].args[3]]
                                        [] w[Formulas[f].args[1]] = Absent      -> Absent
                                        [] OTHER -> Wrong
      [] Formulas[f].op \in {"NOT", "minus"} -> Unary(Formulas[f].op, w[Formulas[f].args[1]])
      [] Formulas[f].op \in Operators ->
             Binary(Formulas[f].op, w[Formulas[f].args[1]], w[Formulas[f].args[2]])
      [] OTHER -> Wrong

(* The worth of a formula hangs on its operands, as many as it has.        *)
LEMMA WorthHangsOn ==
  ASSUME NEW f \in DOMAIN Formulas, NEW of, NEW w, NEW x,
         \A i \in DOMAIN Formulas[f].args : x[Formulas[f].args[i]] = w[Formulas[f].args[i]]
  PROVE  WorthAt(x, f, of) = WorthAt(w, f, of)
<1>1. PICK op, n : op = Formulas[f].op /\ n = Len(Formulas[f].args)
  OBVIOUS
<1>2. n \in Nat /\ DOMAIN Formulas[f].args = 1..n
  BY <1>1, FormulaIs
<1>4. CASE op \in Aggregates \/ op \in {"number", "null"}
  BY <1>1, <1>4 DEF WorthAt, Aggregates
<1>5. CASE op \in {"ZN", "NOT", "minus"}
  <2>1. x[Formulas[f].args[1]] = w[Formulas[f].args[1]]
    BY <1>1, <1>2, <1>5, OperandsAreThere
  <2> QED BY <1>1, <1>5, <2>1 DEF WorthAt, Aggregates
<1>6. CASE op \in Operators \/ op = "IFNULL"
  <2>1. /\ x[Formulas[f].args[1]] = w[Formulas[f].args[1]]
        /\ x[Formulas[f].args[2]] = w[Formulas[f].args[2]]
    BY <1>1, <1>2, <1>6, OperandsAreThere
  <2> QED BY <1>1, <1>6, <2>1 DEF WorthAt, Aggregates, Operators
<1>7. CASE op = "IF"
  <2>1. /\ x[Formulas[f].args[1]] = w[Formulas[f].args[1]]
        /\ x[Formulas[f].args[2]] = w[Formulas[f].args[2]]
        /\ x[Formulas[f].args[3]] = w[Formulas[f].args[3]]
    <3>1. n = 3
      BY <1>1, <1>7, OperandsAreThere
    <3>2. 1 \in 1..n /\ 2 \in 1..n /\ 3 \in 1..n
      BY <3>1
    <3> QED BY <1>2, <3>2
  <2> QED BY <1>1, <1>7, <2>1 DEF WorthAt, Aggregates
<1>8. CASE op \notin Aggregates \cup Operators \cup Others
  BY <1>1, <1>8 DEF WorthAt, Others
<1> QED BY <1>4, <1>5, <1>6, <1>7, <1>8 DEF Others

LEMMA EvaluateIs ==
  ASSUME NEW of
  PROVE  \E w : \A f \in DOMAIN Formulas : w[f] = WorthAt(w, f, of) /\ Evaluate(f, of) = w[f]
<1> DEFINE P(w, d) == w = [f \in UpTo(d) |-> WorthAt(w, f, of)]
<1>1. PICK T : T = {d \in Nat : \E w : P(w, d)}
  OBVIOUS
<1>2. 0 \in T
  <2>1. PICK w : w = [f \in {} |-> 0]
    OBVIOUS
  <2>2. P(w, 0)
    BY <2>1, FormulaIs
  <2> QED BY <1>1, <2>2
<1>3. ASSUME NEW d \in Nat, d \in T PROVE d + 1 \in T
  <2>1. PICK w : P(w, d)
    BY <1>1, <1>3
  <2>2. PICK x : x = [f \in UpTo(d + 1) |-> IF f \in UpTo(d) THEN w[f] ELSE WorthAt(w, f, of)]
    OBVIOUS
  <2>3. \A f \in UpTo(d) : x[f] = w[f] /\ w[f] = WorthAt(w, f, of)
    BY <2>1, <2>2, FormulaIs
  <2>4. ASSUME NEW f \in UpTo(d + 1) PROVE x[f] = WorthAt(x, f, of)
    <3>1. f \in DOMAIN Formulas
      BY DEF UpTo
    <3>2. \A i \in DOMAIN Formulas[f].args : x[Formulas[f].args[i]] = w[Formulas[f].args[i]]
      BY <2>3, FormulaIs
    <3>3. WorthAt(x, f, of) = WorthAt(w, f, of)
      BY <3>1, <3>2, WorthHangsOn
    <3> QED BY <2>2, <2>3, <3>3
  <2>5. P(x, d + 1)
    BY <2>2, <2>4
  <2> HIDE DEF P
  <2> QED BY <1>1, <2>5
<1>4. Nesting \in T
  BY <1>2, <1>3, FormulaIs, SetInduction
<1>5. PICK v : P(v, Nesting)
  BY <1>1, <1>4
<1>6. \E x : x = [f \in DOMAIN Formulas |-> WorthAt(x, f, of)]
  BY <1>5, FormulaIs
<1>7. PICK w : w = CHOOSE x : x = [f \in DOMAIN Formulas |-> WorthAt(x, f, of)]
  OBVIOUS
<1>8. w = [f \in DOMAIN Formulas |-> WorthAt(w, f, of)]
  BY <1>6, <1>7
<1>9. \A f \in DOMAIN Formulas : Evaluate(f, of) = w[f]
  BY <1>7 DEF Evaluate, WorthAt
<1> QED BY <1>8, <1>9

-------------------------------------------------------------------------------
(* What a formula is worth: fractions stay fractions.                      *)
Fractions == Int \X (Nat \ {0})
Worths    == {Absent, Wrong} \cup {Bool(b) : b \in BOOLEAN} \cup {Num(n) : n \in Fractions}

LEMMA FractionIs ==
  /\ \A n \in Fractions : n[1] \in Int /\ n[2] \in Nat /\ n[2] > 0
  /\ \A i \in Int, k \in Nat : k > 0 => <<i, k>> \in Fractions
  /\ \A k, l \in Nat : k > 0 /\ l > 0 => k * l \in Nat /\ k * l > 0
  /\ \A i, j \in Int : i * j \in Int
<1>1. \A k, l \in Nat : k > 0 /\ l > 0 => k * l \in Nat /\ k * l > 0
  OBVIOUS
<1>2. \A i, j \in Int : i * j \in Int
  OBVIOUS
<1> QED BY <1>1, <1>2 DEF Fractions

LEMMA WorthIs ==
  /\ Absent \in Worths /\ Wrong \in Worths /\ \A b \in BOOLEAN : Bool(b) \in Worths
  /\ \A n \in Fractions : Num(n) \in Worths
  /\ Absent.kind = "absent" /\ Wrong.kind = "wrong" /\ Absent # Wrong
  /\ \A b : Bool(b).kind = "bool" /\ Bool(b).b = b /\ Bool(b) # Absent /\ Bool(b) # Wrong
  /\ \A n : Num(n).kind = "num" /\ Num(n).n = n /\ Num(n) # Absent /\ Num(n) # Wrong
  /\ \A v \in Worths : \/ v = Absent \/ v = Wrong
                       \/ v.kind = "bool" /\ \E b \in BOOLEAN : v = Bool(b)
                       \/ v.kind = "num" /\ v.n \in Fractions /\ v = Num(v.n)
<1>1. Absent.kind = "absent" /\ Wrong.kind = "wrong" /\ Absent # Wrong
  <2>1. Absent.kind = "absent" /\ Wrong.kind = "wrong"
    BY DEF Absent, Wrong
  <2> QED BY <2>1
<1>2. ASSUME NEW b PROVE Bool(b).kind = "bool" /\ Bool(b).b = b
  BY DEF Bool
<1>3. ASSUME NEW n PROVE Num(n).kind = "num" /\ Num(n).n = n
  BY DEF Num
<1>4. \A b : Bool(b) # Absent /\ Bool(b) # Wrong
  BY <1>1, <1>2
<1>5. \A n : Num(n) # Absent /\ Num(n) # Wrong
  BY <1>1, <1>3
<1>6. /\ Absent \in Worths /\ Wrong \in Worths /\ \A b \in BOOLEAN : Bool(b) \in Worths
      /\ \A n \in Fractions : Num(n) \in Worths
  BY DEF Worths
<1>7. ASSUME NEW v \in Worths
      PROVE  \/ v = Absent \/ v = Wrong
             \/ v.kind = "bool" /\ \E b \in BOOLEAN : v = Bool(b)
             \/ v.kind = "num" /\ v.n \in Fractions /\ v = Num(v.n)
  <2>1. v = Absent \/ v = Wrong \/ (\E b \in BOOLEAN : v = Bool(b)) \/ (\E n \in Fractions : v = Num(n))
    BY DEF Worths
  <2>2. CASE \E b \in BOOLEAN : v = Bool(b)
    BY <1>2, <2>2
  <2>3. CASE \E n \in Fractions : v = Num(n)
    BY <1>3, <2>3
  <2> QED BY <2>1, <2>2, <2>3
<1> QED BY <1>1, <1>2, <1>3, <1>4, <1>5, <1>6, <1>7

LEMMA ArithIs ==
  ASSUME NEW op \in Arithmetic, NEW m \in Fractions, NEW n \in Fractions
  PROVE  Arith(op, m, n) \in Worths
<1>1. /\ m[1] \in Int /\ m[2] \in Nat /\ m[2] > 0 /\ n[1] \in Int /\ n[2] \in Nat /\ n[2] > 0
  BY FractionIs
<1>2. /\ m[2] * n[2] \in Nat /\ m[2] * n[2] > 0
      /\ m[1] * n[2] \in Int /\ n[1] * m[2] \in Int /\ m[1] * n[1] \in Int
      /\ m[2] * n[1] \in Int
      /\ n[1] > 0 => m[2] * n[1] \in Nat /\ m[2] * n[1] > 0
  BY <1>1, FractionIs
<1>3. n[1] # 0 /\ ~(n[1] > 0) => -(m[2] * n[1]) \in Nat /\ -(m[2] * n[1]) > 0
  <2> SUFFICES ASSUME n[1] # 0, ~(n[1] > 0) PROVE -(m[2] * n[1]) \in Nat /\ -(m[2] * n[1]) > 0
    OBVIOUS
  <2>1. PICK k \in Nat : k = -n[1] /\ k > 0
    BY <1>1
  <2>2. m[2] * k \in Nat /\ m[2] * k > 0
    BY <1>1, <2>1, FractionIs
  <2>3. m[2] * k = -(m[2] * n[1])
    BY <1>1, <2>1
  <2> QED BY <2>2, <2>3
<1>4. CASE op = "+"
  <2>1. <<m[1] * n[2] + n[1] * m[2], m[2] * n[2]>> \in Fractions
    BY <1>2, FractionIs
  <2> QED BY <1>4, <2>1, WorthIs DEF Arith
<1>5. CASE op = "-"
  <2>1. <<m[1] * n[2] - n[1] * m[2], m[2] * n[2]>> \in Fractions
    BY <1>2, FractionIs
  <2> QED BY <1>5, <2>1, WorthIs DEF Arith
<1>6. CASE op = "*"
  <2>1. <<m[1] * n[1], m[2] * n[2]>> \in Fractions
    BY <1>2, FractionIs
  <2> QED BY <1>6, <2>1, WorthIs DEF Arith
<1>7. CASE op = "/"
  <2>1. n[1] > 0 => <<m[1] * n[2], m[2] * n[1]>> \in Fractions
    BY <1>2, FractionIs
  <2>2. n[1] # 0 /\ ~(n[1] > 0) => <<-(m[1] * n[2]), -(m[2] * n[1])>> \in Fractions
    <3>1. -(m[1] * n[2]) \in Int
      BY <1>2
    <3> QED BY <1>3, <3>1, FractionIs
  <2>3. Arith(op, m, n) = IF n[1] = 0 THEN Absent
                          ELSE IF n[1] > 0 THEN Num(<<m[1] * n[2], m[2] * n[1]>>)
                          ELSE Num(<<-(m[1] * n[2]), -(m[2] * n[1])>>)
    BY <1>7 DEF Arith
  <2> QED BY <2>1, <2>2, <2>3, WorthIs
<1>8. CASE op = ">"
  <2>1. Arith(op, m, n) = Bool(m[1] * n[2] > n[1] * m[2])
    BY <1>8 DEF Arith
  <2>2. (m[1] * n[2] > n[1] * m[2]) \in BOOLEAN
    OBVIOUS
  <2> QED BY <2>1, <2>2, WorthIs
<1>9. CASE op = "="
  <2>1. Arith(op, m, n) = Bool(m[1] * n[2] = n[1] * m[2])
    BY <1>9 DEF Arith
  <2>2. (m[1] * n[2] = n[1] * m[2]) \in BOOLEAN
    OBVIOUS
  <2> QED BY <2>1, <2>2, WorthIs
<1> QED BY <1>4, <1>5, <1>6, <1>7, <1>8, <1>9 DEF Arithmetic

LEMMA BinaryIs ==
  ASSUME NEW op \in Operators, NEW u \in Worths, NEW v \in Worths
  PROVE  /\ Binary(op, u, v) \in Worths
         /\ u \in {Absent, Wrong} \/ v \in {Absent, Wrong} => Binary(op, u, v) \in {Absent, Wrong}
<1>1. CASE Wrong \in {u, v}
  <2>1. Binary(op, u, v) = Wrong
    BY <1>1, WorthIs DEF Binary
  <2> QED BY <2>1, WorthIs
<1>2. CASE Wrong \notin {u, v} /\ Absent \in {u, v}
  <2>1. Binary(op, u, v) = Absent
    BY <1>2, WorthIs DEF Binary
  <2> QED BY <2>1, WorthIs
<1>3. CASE Wrong \notin {u, v} /\ Absent \notin {u, v}
  <2>1. /\ (u.kind = "bool" /\ \E b \in BOOLEAN : u = Bool(b)) \/ (u.kind = "num" /\ u.n \in Fractions)
        /\ (v.kind = "bool" /\ \E b \in BOOLEAN : v = Bool(b)) \/ (v.kind = "num" /\ v.n \in Fractions)
    BY <1>3, WorthIs
  <2>2. CASE u.kind = "bool" /\ v.kind = "bool" /\ op \in {"AND", "OR"}
    <3>1. PICK b \in BOOLEAN, d \in BOOLEAN : u = Bool(b) /\ v = Bool(d)
      BY <2>1, <2>2
    <3>2. u.b = b /\ v.b = d
      BY <3>1, WorthIs
    <3>3. Binary(op, u, v) = IF op = "AND" THEN Bool(u.b /\ v.b) ELSE Bool(u.b \/ v.b)
      BY <1>3, <2>2 DEF Binary
    <3>4. (u.b /\ v.b) \in BOOLEAN /\ (u.b \/ v.b) \in BOOLEAN
      OBVIOUS
    <3> QED BY <1>3, <3>3, <3>4, WorthIs
  <2>3. CASE u.kind = "num" /\ v.kind = "num" /\ op \in Arithmetic
    <3>1. Binary(op, u, v) = Arith(op, u.n, v.n)
      BY <1>3, <2>3 DEF Binary
    <3> QED BY <1>3, <2>1, <2>3, <3>1, ArithIs
  <2>4. CASE /\ ~(u.kind = "bool" /\ v.kind = "bool" /\ op \in {"AND", "OR"})
             /\ ~(u.kind = "num" /\ v.kind = "num" /\ op \in Arithmetic)
    <3>1. Binary(op, u, v) = Wrong
      BY <1>3, <2>1, <2>4 DEF Binary
    <3> QED BY <3>1, WorthIs
  <2> QED BY <2>2, <2>3, <2>4
<1> QED BY <1>1, <1>2, <1>3

LEMMA UnaryIs ==
  ASSUME NEW op \in {"NOT", "minus"}, NEW u \in Worths
  PROVE  /\ Unary(op, u) \in Worths
         /\ u \in {Absent, Wrong} => Unary(op, u) \in {Absent, Wrong}
<1>1. CASE u = Absent
  <2>1. Unary(op, u) = Absent
    BY <1>1, WorthIs DEF Unary
  <2> QED BY <2>1, WorthIs
<1>2. CASE u = Wrong
  <2>1. u.kind = "wrong" /\ u # Absent
    BY <1>2, WorthIs
  <2>2. Unary(op, u) = Wrong
    BY <1>2, <2>1 DEF Unary
  <2> QED BY <2>2, WorthIs
<1>3. CASE u # Absent /\ u # Wrong
  <2>1. CASE u.kind = "num" /\ op = "minus"
    <3>1. u.n \in Fractions
      BY <1>3, <2>1, WorthIs
    <3>2. <<-u.n[1], u.n[2]>> \in Fractions
      BY <3>1, FractionIs
    <3>3. Unary(op, u) = Num(<<-u.n[1], u.n[2]>>)
      BY <1>3, <2>1 DEF Unary
    <3> QED BY <1>3, <3>2, <3>3, WorthIs
  <2>2. CASE u.kind = "bool" /\ op = "NOT"
    <3>1. Unary(op, u) = Bool(~u.b)
      BY <1>3, <2>2 DEF Unary
    <3>2. (~u.b) \in BOOLEAN
      OBVIOUS
    <3> QED BY <1>3, <3>1, <3>2, WorthIs
  <2>3. CASE ~(u.kind = "num" /\ op = "minus") /\ ~(u.kind = "bool" /\ op = "NOT")
    <3>1. Unary(op, u) = Wrong
      BY <1>3, <2>3 DEF Unary
    <3> QED BY <3>1, WorthIs
  <2> QED BY <2>1, <2>2, <2>3
<1> QED BY <1>1, <1>2, <1>3

(* The slots of a formula are those of its operands.                       *)
SlotOf(f)   == [name |-> Formulas[f].field, fold |-> Formulas[f].op, expr |-> None]
SlotRecords == {SlotOf(f) : f \in {g \in DOMAIN Formulas : Formulas[g].op \in Aggregates}}

SlotsFit(f) ==
    /\ Slots[f] \in Seq(SlotRecords)
    /\ Formulas[f].op \in Aggregates => Range(Slots[f]) = {SlotOf(f)}
    /\ Formulas[f].op \notin Aggregates =>
           \A s : s \in Range(Slots[f]) <=>
                      \E i \in DOMAIN Formulas[f].args : s \in Range(Slots[Formulas[f].args[i]])

LEMMA SlotsIs == \A f \in DOMAIN Formulas : SlotsFit(f)
<1>1. PICK T : T = {d \in Nat : \A f \in UpTo(d) : SlotsFit(f)}
  OBVIOUS
<1>2. 0 \in T
  BY <1>1, FormulaIs
<1>3. ASSUME NEW d \in Nat, d \in T PROVE d + 1 \in T
  <2> SUFFICES ASSUME NEW f \in UpTo(d + 1) PROVE SlotsFit(f)
    BY <1>1
  <2>1. f \in DOMAIN Formulas
    BY DEF UpTo
  <2>2. Slots[f] = SlotsAt(Slots, f)
    BY <2>1, SlotsAre
  <2>3. CASE Formulas[f].op \in Aggregates
    <3>1. Slots[f] = <<SlotOf(f)>>
      BY <2>2, <2>3 DEF SlotsAt, SlotOf
    <3>2. SlotOf(f) \in SlotRecords
      BY <2>1, <2>3 DEF SlotRecords
    <3>3. Slots[f] \in Seq(SlotRecords) /\ Range(Slots[f]) = {SlotOf(f)}
      BY <3>1, <3>2, OneIs
    <3> QED BY <2>3, <3>3 DEF SlotsFit
  <2>4. CASE Formulas[f].op \notin Aggregates
    <3>1. PICK n \in Nat : n = Len(Formulas[f].args) /\ DOMAIN Formulas[f].args = 1..n
      BY <2>1, FormulaIs
    <3>2. PICK parts : parts = [i \in DOMAIN Formulas[f].args |-> Slots[Formulas[f].args[i]]]
      OBVIOUS
    <3>3. Slots[f] = Concat(n, parts)
      BY <2>2, <2>4, <3>1, <3>2 DEF SlotsAt
    <3>4. \A i \in 1..n : Formulas[f].args[i] \in UpTo(d) /\ parts[i] = Slots[Formulas[f].args[i]]
      BY <3>1, <3>2, FormulaIs
    <3>5. \A i \in 1..n : parts[i] \in Seq(SlotRecords)
      BY <1>1, <1>3, <3>4 DEF SlotsFit
    <3>6. /\ Slots[f] \in Seq(SlotRecords)
          /\ \A s : s \in Range(Slots[f]) <=> \E i \in 1..n : s \in Range(parts[i])
      BY <3>3, <3>5, ConcatIs
    <3> QED BY <2>4, <3>1, <3>4, <3>6 DEF SlotsFit
  <2> QED BY <2>3, <2>4
<1>4. Nesting \in T
  BY <1>2, <1>3, FormulaIs, SetInduction
<1> QED BY <1>1, <1>4, FormulaIs

(* A formula over amounts has a worth, and has none without one it needs.  *)
Amounted(f, of) == \A s \in Range(Slots[f]) : of[s.name] \in {None} \cup Texts \cup Fractions

WorthFits(w, f, of) ==
    Amounted(f, of) =>
        /\ w[f] \in Worths
        /\ (\E m \in Needs[f] : of[m] = None) => w[f] \in {Absent, Wrong}

LEMMA OperandFits ==
  ASSUME NEW f \in DOMAIN Formulas, NEW of, NEW w, Amounted(f, of),
         Formulas[f].op \notin Aggregates,
         \A i \in DOMAIN Formulas[f].args : WorthFits(w, Formulas[f].args[i], of),
         NEW i \in DOMAIN Formulas[f].args
  PROVE  /\ w[Formulas[f].args[i]] \in Worths
         /\ (\E m \in Needs[Formulas[f].args[i]] : of[m] = None) =>
                w[Formulas[f].args[i]] \in {Absent, Wrong}
<1>1. Amounted(Formulas[f].args[i], of)
  BY SlotsIs DEF SlotsFit, Amounted
<1> QED BY <1>1 DEF WorthFits

(* The worth of a formula, operator by operator.                           *)
Branch(op, v1, v2, v3, v4, v5, v6, v7, v8) ==
    CASE op \in Aggregates -> v1
      [] op = "number" -> v2
      [] op = "null"   -> Absent
      [] op = "ZN"     -> v3
      [] op = "IFNULL" -> v4
      [] op = "IF"     -> v5
      [] op \in {"NOT", "minus"} -> v6
      [] op \in Operators -> v7
      [] OTHER -> v8

LEMMA BranchIs ==
  ASSUME NEW op, NEW v1, NEW v2, NEW v3, NEW v4, NEW v5, NEW v6, NEW v7, NEW v8,
         NEW b, b = Branch(op, v1, v2, v3, v4, v5, v6, v7, v8)
  PROVE  /\ op \in Aggregates => b = v1
         /\ op = "number" => b = v2
         /\ op = "null"   => b = Absent
         /\ op = "ZN"     => b = v3
         /\ op = "IFNULL" => b = v4
         /\ op = "IF"     => b = v5
         /\ op \in {"NOT", "minus"} => b = v6
         /\ op \in Operators => b = v7
         /\ op \notin Aggregates \cup Operators \cup Others => b = v8
  BY DEF Branch, Aggregates, Arithmetic, Operators, Others

IfWorth(a, b, c) ==
    CASE a = Bool(TRUE) -> b [] a = Bool(FALSE) -> c [] a = Absent -> Absent [] OTHER -> Wrong

LEMMA WorthAtIs ==
  ASSUME NEW f \in DOMAIN Formulas, NEW of, NEW w,
         NEW op, op = Formulas[f].op, NEW a, a = w[Formulas[f].args[1]],
         NEW b, b = w[Formulas[f].args[2]], NEW c, c = w[Formulas[f].args[3]],
         NEW m, m = of[Formulas[f].field]
  PROVE  /\ op \in Aggregates => WorthAt(w, f, of) = IF m = None \/ m \in Texts THEN Absent ELSE Num(m)
         /\ op = "number" => WorthAt(w, f, of) = Num(Formulas[f].value)
         /\ op = "null"   => WorthAt(w, f, of) = Absent
         /\ op = "ZN"     => WorthAt(w, f, of) = IF a = Absent THEN Num(<<0, 1>>) ELSE a
         /\ op = "IFNULL" => WorthAt(w, f, of) = IF a = Absent THEN b ELSE a
         /\ op = "IF"     => WorthAt(w, f, of) = IfWorth(a, b, c)
         /\ op \in {"NOT", "minus"} => WorthAt(w, f, of) = Unary(op, a)
         /\ op \in Operators => WorthAt(w, f, of) = Binary(op, a, b)
         /\ op \notin Aggregates \cup Operators \cup Others => WorthAt(w, f, of) = Wrong
<1>1. WorthAt(w, f, of) = Branch(op, IF m = None \/ m \in Texts THEN Absent ELSE Num(m),
              Num(Formulas[f].value), IF a = Absent THEN Num(<<0, 1>>) ELSE a,
              IF a = Absent THEN b ELSE a, IfWorth(a, b, c), Unary(op, a), Binary(op, a, b), Wrong)
  BY Zenon DEF WorthAt, Branch, IfWorth
<1> QED BY <1>1, BranchIs

LEMMA IfIs ==
  ASSUME NEW f \in DOMAIN Formulas, NEW of, NEW w, Formulas[f].op = "IF"
  PROVE  WorthAt(w, f, of) = IfWorth(w[Formulas[f].args[1]], w[Formulas[f].args[2]],
                                     w[Formulas[f].args[3]])
<1>1. PICK op, a, b, c, m : /\ op = Formulas[f].op /\ a = w[Formulas[f].args[1]]
                            /\ b = w[Formulas[f].args[2]] /\ c = w[Formulas[f].args[3]]
                            /\ m = of[Formulas[f].field]
  OBVIOUS
<1>2. op = "IF" => WorthAt(w, f, of) = IfWorth(a, b, c)
  BY <1>1, WorthAtIs
<1> QED BY <1>1, <1>2

LEMMA WorthFitsStep ==
  ASSUME NEW f \in DOMAIN Formulas, NEW of, NEW w, w[f] = WorthAt(w, f, of),
         \A i \in DOMAIN Formulas[f].args : WorthFits(w, Formulas[f].args[i], of)
  PROVE  WorthFits(w, f, of)
<1> SUFFICES ASSUME Amounted(f, of)
             PROVE  /\ w[f] \in Worths
                    /\ (\E m \in Needs[f] : of[m] = None) => w[f] \in {Absent, Wrong}
  BY DEF WorthFits
<1>1. PICK op, n : op = Formulas[f].op /\ n = Len(Formulas[f].args)
  OBVIOUS
<1>2. n \in Nat /\ DOMAIN Formulas[f].args = 1..n
  BY <1>1, FormulaIs
<1>3. ASSUME op \notin Aggregates, NEW i \in 1..n
      PROVE  /\ w[Formulas[f].args[i]] \in Worths
             /\ (\E m \in Needs[Formulas[f].args[i]] : of[m] = None) =>
                    w[Formulas[f].args[i]] \in {Absent, Wrong}
  BY <1>1, <1>2, <1>3, OperandFits
<1>4. Needs[f] = NeedsAt(Needs, f)
  BY NeedsAre
<1>5. CASE op \in Aggregates
  <2>1. w[f] = IF of[Formulas[f].field] = None \/ of[Formulas[f].field] \in Texts THEN Absent
               ELSE Num(of[Formulas[f].field])
    BY <1>1, <1>5, WorthAtIs
  <2>2. SlotOf(f) \in Range(Slots[f]) /\ SlotOf(f).name = Formulas[f].field
    BY <1>1, <1>5, SlotsIs DEF SlotsFit, SlotOf
  <2>3. of[Formulas[f].field] \in {None} \cup Texts \cup Fractions
    BY <2>2 DEF Amounted
  <2>4. Needs[f] = {Formulas[f].field}
    BY <1>1, <1>4, <1>5 DEF NeedsAt
  <2> QED BY <2>1, <2>3, <2>4, WorthIs
<1>6. CASE op \in {"number", "null"}
  <2>1. w[f] = IF op = "number" THEN Num(Formulas[f].value) ELSE Absent
    BY <1>1, <1>6, WorthAtIs
  <2>2. op = "number" => Formulas[f].value \in Fractions
    BY <1>1, FormulasAreTrees DEF Fractions
  <2>3. Needs[f] = {}
    <3>1. n = 0
      BY <1>1, <1>6, OperandsAreThere
    <3>2. Range(Formulas[f].args) = {}
      BY <1>2, <3>1 DEF Range
    <3>3. Needs[f] = UNION {Needs[g] : g \in Range(Formulas[f].args)}
      BY <1>1, <1>4, <1>6 DEF NeedsAt, Aggregates
    <3> QED BY <3>2, <3>3
  <2> QED BY <2>1, <2>2, <2>3, WorthIs
<1>7. CASE op \in {"ZN", "IFNULL"}
  <2>1. Needs[f] = {}
    BY <1>1, <1>4, <1>7 DEF NeedsAt, Aggregates
  <2>2. n = IF op = "ZN" THEN 1 ELSE 2
    BY <1>1, <1>7, OperandsAreThere
  <2>3. 1 \in 1..n /\ (op = "IFNULL" => 2 \in 1..n) /\ op \notin Aggregates
    BY <1>7, <2>2 DEF Aggregates
  <2>4. /\ w[Formulas[f].args[1]] \in Worths
        /\ op = "IFNULL" => w[Formulas[f].args[2]] \in Worths
    BY <1>3, <2>3
  <2>5. w[f] = IF op = "ZN" THEN IF w[Formulas[f].args[1]] = Absent THEN Num(<<0, 1>>)
                                 ELSE w[Formulas[f].args[1]]
               ELSE IF w[Formulas[f].args[1]] = Absent THEN w[Formulas[f].args[2]]
                    ELSE w[Formulas[f].args[1]]
    BY <1>1, <1>7, WorthAtIs
  <2>6. Num(<<0, 1>>) \in Worths
    <3>1. <<0, 1>> \in Fractions
      BY FractionIs
    <3> QED BY <3>1, WorthIs
  <2> QED BY <1>7, <2>1, <2>4, <2>5, <2>6
<1>8. CASE op = "IF"
  <2>1. n = 3
    BY <1>1, <1>8, OperandsAreThere
  <2>2. 1 \in 1..n /\ 2 \in 1..n /\ 3 \in 1..n /\ op \notin Aggregates
    BY <1>8, <2>1 DEF Aggregates
  <2>3. PICK a, b, c : /\ a = w[Formulas[f].args[1]] /\ b = w[Formulas[f].args[2]]
                       /\ c = w[Formulas[f].args[3]]
    OBVIOUS
  <2>4. /\ a \in Worths /\ b \in Worths /\ c \in Worths
        /\ (\E m \in Needs[Formulas[f].args[1]] : of[m] = None) => a \in {Absent, Wrong}
    BY <1>3, <2>2, <2>3
  <2>5. Needs[f] = Needs[Formulas[f].args[1]]
    BY <1>1, <1>4, <1>8 DEF NeedsAt, Aggregates
  <2>6. w[f] = IfWorth(a, b, c)
    <3>1. WorthAt(w, f, of) = IfWorth(w[Formulas[f].args[1]], w[Formulas[f].args[2]],
                                      w[Formulas[f].args[3]])
      BY <1>1, <1>8, IfIs
    <3> QED BY <2>3, <3>1
  <2>7. Bool(TRUE) # Bool(FALSE)
    <3>1. Bool(TRUE).b = TRUE /\ Bool(FALSE).b = FALSE
      BY DEF Bool
    <3> QED BY <3>1
  <2>8. CASE a = Bool(TRUE)
    <3>1. w[f] = b /\ a \notin {Absent, Wrong}
      BY <2>6, <2>7, <2>8, WorthIs DEF IfWorth
    <3> QED BY <2>4, <2>5, <3>1
  <2>9. CASE a = Bool(FALSE)
    <3>1. w[f] = c /\ a \notin {Absent, Wrong}
      BY <2>6, <2>7, <2>9, WorthIs DEF IfWorth
    <3> QED BY <2>4, <2>5, <3>1
  <2>10. CASE a # Bool(TRUE) /\ a # Bool(FALSE)
    <3>1. w[f] = Absent \/ w[f] = Wrong
      BY <2>6, <2>10 DEF IfWorth
    <3> QED BY <3>1, WorthIs
  <2> QED BY <2>8, <2>9, <2>10
<1>9. CASE op \in {"NOT", "minus"}
  <2>1. n = 1
    BY <1>1, <1>9, OperandsAreThere
  <2>2. 1 \in 1..n /\ op \notin Aggregates
    BY <1>9, <2>1 DEF Aggregates
  <2>3. /\ w[Formulas[f].args[1]] \in Worths
        /\ (\E m \in Needs[Formulas[f].args[1]] : of[m] = None) =>
               w[Formulas[f].args[1]] \in {Absent, Wrong}
    BY <1>3, <2>2
  <2>4. w[f] = Unary(op, w[Formulas[f].args[1]])
    BY <1>1, <1>9, WorthAtIs
  <2>5. \A m \in Needs[f] : m \in Needs[Formulas[f].args[1]]
    <3>1. Needs[f] = UNION {Needs[g] : g \in Range(Formulas[f].args)}
      BY <1>1, <1>4, <1>9 DEF NeedsAt, Aggregates
    <3>2. \A g \in Range(Formulas[f].args) : g = Formulas[f].args[1]
      BY <1>2, <2>1 DEF Range
    <3> QED BY <3>1, <3>2
  <2> QED BY <1>9, <2>3, <2>4, <2>5, UnaryIs
<1>10. CASE op \in Operators
  <2>1. n = 2
    BY <1>1, <1>10, OperandsAreThere
  <2>2. 1 \in 1..n /\ 2 \in 1..n /\ op \notin Aggregates
    BY <1>10, <2>1 DEF Aggregates, Arithmetic, Operators
  <2>3. PICK a, b : a = w[Formulas[f].args[1]] /\ b = w[Formulas[f].args[2]]
    OBVIOUS
  <2>4. /\ a \in Worths /\ b \in Worths
        /\ (\E m \in Needs[Formulas[f].args[1]] : of[m] = None) => a \in {Absent, Wrong}
        /\ (\E m \in Needs[Formulas[f].args[2]] : of[m] = None) => b \in {Absent, Wrong}
    BY <1>3, <2>2, <2>3
  <2>5. w[f] = Binary(op, a, b)
    BY <1>1, <1>10, <2>3, WorthAtIs
  <2>6. \A m \in Needs[f] : m \in Needs[Formulas[f].args[1]] \/ m \in Needs[Formulas[f].args[2]]
    <3>1. Needs[f] = UNION {Needs[g] : g \in Range(Formulas[f].args)}
      BY <1>1, <1>4, <1>10 DEF NeedsAt, Aggregates, Arithmetic, Operators
    <3>2. \A g \in Range(Formulas[f].args) : g = Formulas[f].args[1] \/ g = Formulas[f].args[2]
      BY <1>2, <2>1 DEF Range
    <3> QED BY <3>1, <3>2
  <2> QED BY <1>10, <2>4, <2>5, <2>6, BinaryIs
<1>11. CASE op \notin Aggregates \cup Operators \cup Others
  <2>1. w[f] = Wrong
    BY <1>1, <1>11, WorthAtIs
  <2> QED BY <2>1, WorthIs
<1> QED BY <1>5, <1>6, <1>7, <1>8, <1>9, <1>10, <1>11 DEF Others

LEMMA EvaluateFits ==
  ASSUME NEW of, NEW g \in DOMAIN Formulas, Amounted(g, of)
  PROVE  /\ Evaluate(g, of) \in Worths
         /\ (\E m \in Needs[g] : of[m] = None) => Evaluate(g, of) \in {Absent, Wrong}
<1>1. PICK w : \A f \in DOMAIN Formulas : w[f] = WorthAt(w, f, of) /\ Evaluate(f, of) = w[f]
  BY EvaluateIs
<1>2. PICK T : T = {d \in Nat : \A f \in UpTo(d) : WorthFits(w, f, of)}
  OBVIOUS
<1>3. 0 \in T
  BY <1>2, FormulaIs
<1>4. ASSUME NEW d \in Nat, d \in T PROVE d + 1 \in T
  <2> SUFFICES ASSUME NEW f \in UpTo(d + 1) PROVE WorthFits(w, f, of)
    BY <1>2
  <2>1. f \in DOMAIN Formulas
    BY DEF UpTo
  <2>2. \A i \in DOMAIN Formulas[f].args : WorthFits(w, Formulas[f].args[i], of)
    BY <1>2, <1>4, FormulaIs
  <2> QED BY <1>1, <2>1, <2>2, WorthFitsStep
<1>5. Nesting \in T
  BY <1>3, <1>4, FormulaIs, SetInduction
<1>6. WorthFits(w, g, of)
  BY <1>2, <1>5, FormulaIs
<1> QED BY <1>1, <1>6 DEF WorthFits

(* A formula asks for its slots only.                                      *)
LEMMA EvaluateAgrees ==
  ASSUME NEW of, NEW ov, NEW g \in DOMAIN Formulas,
         \A s \in Range(Slots[g]) : of[s.name] = ov[s.name]
  PROVE  Evaluate(g, of) = Evaluate(g, ov)
<1>1. PICK w : \A f \in DOMAIN Formulas : w[f] = WorthAt(w, f, of) /\ Evaluate(f, of) = w[f]
  BY EvaluateIs
<1>2. PICK x : \A f \in DOMAIN Formulas : x[f] = WorthAt(x, f, ov) /\ Evaluate(f, ov) = x[f]
  BY EvaluateIs
<1>3. PICK T : T = {d \in Nat : \A f \in UpTo(d) :
                        (\A s \in Range(Slots[f]) : of[s.name] = ov[s.name]) => x[f] = w[f]}
  OBVIOUS
<1>4. 0 \in T
  BY <1>3, FormulaIs
<1>5. ASSUME NEW d \in Nat, d \in T PROVE d + 1 \in T
  <2> SUFFICES ASSUME NEW f \in UpTo(d + 1), \A s \in Range(Slots[f]) : of[s.name] = ov[s.name]
               PROVE  x[f] = w[f]
    BY <1>3
  <2>1. f \in DOMAIN Formulas
    BY DEF UpTo
  <2>2. CASE Formulas[f].op \in Aggregates
    <3>1. SlotOf(f) \in Range(Slots[f]) /\ SlotOf(f).name = Formulas[f].field
      BY <2>1, <2>2, SlotsIs DEF SlotsFit, SlotOf
    <3>2. of[Formulas[f].field] = ov[Formulas[f].field]
      BY <3>1
    <3>3. x[f] = WorthAt(x, f, ov) /\ w[f] = WorthAt(w, f, of)
      BY <1>1, <1>2, <2>1
    <3> QED BY <2>1, <2>2, <3>2, <3>3, WorthAtIs
  <2>3. CASE Formulas[f].op \notin Aggregates
    <3>1. \A i \in DOMAIN Formulas[f].args : x[Formulas[f].args[i]] = w[Formulas[f].args[i]]
      <4> SUFFICES ASSUME NEW i \in DOMAIN Formulas[f].args
                   PROVE  x[Formulas[f].args[i]] = w[Formulas[f].args[i]]
        OBVIOUS
      <4>1. Formulas[f].args[i] \in UpTo(d)
        BY FormulaIs
      <4>2. \A s \in Range(Slots[Formulas[f].args[i]]) : of[s.name] = ov[s.name]
        BY <2>1, <2>3, SlotsIs DEF SlotsFit
      <4> QED BY <1>3, <1>5, <4>1, <4>2
    <3>2. WorthAt(x, f, of) = WorthAt(w, f, of)
      BY <2>1, <3>1, WorthHangsOn
    <3>3. WorthAt(x, f, of) = WorthAt(x, f, ov)
      <4>1. PICK op, a, b, c : /\ op = Formulas[f].op /\ a = x[Formulas[f].args[1]]
                               /\ b = x[Formulas[f].args[2]] /\ c = x[Formulas[f].args[3]]
        OBVIOUS
      <4>2. \/ op \in {"number", "null", "ZN", "IFNULL", "IF"} \/ op \in {"NOT", "minus"}
            \/ op \in Operators \/ op \notin Aggregates \cup Operators \cup Others
        BY <2>3, <4>1 DEF Others
      <4>3. CASE op \in {"number", "null", "ZN", "IFNULL", "IF"}
        BY <2>1, <4>1, <4>3, WorthAtIs
      <4>4. CASE op \in {"NOT", "minus"}
        BY <2>1, <4>1, <4>4, WorthAtIs
      <4>5. CASE op \in Operators
        BY <2>1, <4>1, <4>5, WorthAtIs
      <4>6. CASE op \notin Aggregates \cup Operators \cup Others
        BY <2>1, <4>1, <4>6, WorthAtIs
      <4> QED BY <4>2, <4>3, <4>4, <4>5, <4>6
    <3> QED BY <1>1, <1>2, <2>1, <3>2, <3>3
  <2> QED BY <2>2, <2>3
<1>6. Nesting \in T
  BY <1>4, <1>5, FormulaIs, SetInduction
<1> QED BY <1>1, <1>2, <1>3, <1>6, FormulaIs

-------------------------------------------------------------------------------
(* The request stands, and every value is of its sort: cells are amounts,  *)
(* weights integers, accumulators what their aggregation collects, and the *)
(* values of a row numbers, texts or nothing.                              *)
Running == {"measures", "filters", "order", "resolve", "scan", "fold", "join", "page", "done"}
Built   == Running \ {"measures"}
Filtered == Built \ {"filters"}

Folded(e) == e.fold \in IF e.expr = None THEN Implemented \cup {None} ELSE {None}

RequestStands ==
    q.pc \in Running => IsRequest(q.request) /\ \A e \in Range(q.request.measures) : Folded(e)

CellsTyped ==
    /\ \A c \in DOMAIN cells : c \in [Axis -> Members] /\ cells[c] \in Amounts
    /\ \A c \in DOMAIN q.snapshot : c \in [Axis -> Members] /\ q.snapshot[c] \in Amounts
    /\ \A k \in DOMAIN tags : tags[k] \in Names

FoldsTyped == \A m \in DOMAIN q.folds : q.folds[m] \in Implemented

(* A formula is made of the measures of the query.                         *)
ColumnFits(n) ==
    /\ n \notin Axis
    /\ IF q.columns[n] = None THEN n \in q.measures
       ELSE /\ q.columns[n] \in DOMAIN Formulas
            /\ \A s \in Range(Slots[q.columns[n]]) : s.name \in q.measures

ColumnsTyped ==
    /\ \A n \in DOMAIN q.columns : ColumnFits(n)
    /\ q.measures \cap Axis = {}
    /\ q.pc \in Built /\ q.measures # {} => cube.measureAxis \notin q.request.groupBy

Weighing(a) == q.scope[a] = None \/ \A l \in DOMAIN q.scope[a] : q.scope[a][l] \in Int

ScopeTyped ==
    /\ DOMAIN q.scope = Axis /\ \A a \in Axis : Weighing(a)
    /\ q.pc = "fold" => \A c \in q.left : InScope(c)

AccFits(acc, fold) ==
    \/ fold = "COUNTD" /\ acc = [kind |-> "distinct", values |-> acc.values] /\ IsFiniteSet(acc.values)
    \/ fold # "COUNTD" /\ acc.kind = "text" /\ acc.text \in Texts
    \/ /\ fold # "COUNTD" /\ acc.kind = "num" /\ acc.sum \in Int /\ acc.raw \in Int
       /\ acc.count \in Nat \ {0} /\ acc.least \in Int /\ acc.most \in Int

GroupsTyped ==
    \A key \in DOMAIN q.groups : \A m \in DOMAIN q.groups[key] : AccFits(q.groups[key][m], FoldOf(m))

Amount0 == {None} \cup Texts \cup Fractions

RowFits(row) ==
    /\ q.pc = "fold" => DOMAIN row.values = Outputs
    /\ q.pc = "join" => DOMAIN row.values = Measured
    /\ q.pc \in {"page", "done"} => DOMAIN row.values = Measured \cup Wanted
    /\ \A m \in DOMAIN row.values :
           row.values[m] \in IF q.pc \in {"fold", "join"} THEN Amount0 ELSE Amount0 \cup Names

RowsTyped ==
    /\ \A i \in DOMAIN q.rows : RowFits(q.rows[i])
    /\ q.pc = "done" =>
        \A i \in DOMAIN q.request.order :
            q.request.order[i].column \in q.request.groupBy \cup Measured \cup Wanted
    /\ q.pc \in {"page", "done"} => Wanted \cap Axis = {}

-------------------------------------------------------------------------------
(* The filters of a query are those of its request, as far as it has got;  *)
(* then its scope is what they ask for, a group has a measure where a cell *)
(* of it was seen, and a row a value.                                      *)
OneEach == \A f, g \in Range(q.request.filters) : f.axis = g.axis => f = g

Handled ==
    IF q.pc = "measures" THEN {}
    ELSE IF q.pc = "filters" THEN {q.request.filters[i] : i \in 1..(q.at - 1)}
    ELSE Meant

Covers(a, f, members) ==
    IF f.op = "notEquals"
      THEN /\ Under(a, f.members[1]) # <<>>
           /\ Range(members) \subseteq Range(known[a]) \ DOMAIN Under(a, f.members[1])
           /\ Range(q.asked[a]) \ DOMAIN Under(a, f.members[1]) \subseteq Range(members)
      ELSE Range(members) = Range(f.members)

FilterMeans(a) ==
    /\ q.filters[a] = None => \A f \in Handled : f.axis # a
    /\ q.filters[a] # None =>
           /\ q.filters[a] \in Seq(Names)
           /\ OneEach => \E f \in Handled : f.axis = a /\ Covers(a, f, q.filters[a])

FiltersMean ==
    /\ DOMAIN q.filters = Axis
    /\ q.pc = "measures" => q.at = 1
    /\ q.pc = "filters" => q.at \in 1..(Len(q.request.filters) + 1)
    /\ q.pc \in Running => \A a \in Axis : FilterMeans(a)

Scoped == IF q.pc = "resolve" THEN 1..(q.at - 1)
          ELSE IF q.pc \in {"scan", "fold", "join", "page", "done"} THEN Axis ELSE {}

ScopeMean(a) ==
    IF q.filters[a] = None THEN q.scope[a] = None
    ELSE /\ q.scope[a] # None
         /\ \A x \in Range(q.filters[a]) : Stored(a, x) # <<>>
         /\ \A l : l \in DOMAIN q.scope[a] <=> \E x \in Range(q.filters[a]) : l \in DOMAIN Stored(a, x)
         /\ \A l \in DOMAIN q.scope[a] : \E x \in Range(q.filters[a]) :
                l \in DOMAIN Stored(a, x) /\ q.scope[a][l] = Stored(a, x)[l]

ScopesMean ==
    /\ q.pc = "resolve" => q.at \in Axis
    /\ \A a \in Scoped : ScopeMean(a)

DeniedMean ==
    q.pc \in Filtered =>
        q.denied = [a \in Axis |-> Hidden(a)]

(* The cells of a group and a measure that were looked at.                 *)
Counted(key, m) ==
    {c \in DOMAIN q.snapshot \ q.left :
        /\ InScope(c) /\ \A a \in Axis : c[a] \notin q.denied[a]
        /\ At(c, KeyAxes) = key /\ MeasureOf(c) = m}

GroupsSeen ==
    \A key \in DOMAIN q.groups : \A m \in DOMAIN q.groups[key] : Counted(key, m) # {}

RowSeen(row) ==
    /\ q.pc = "fold" => \A m \in Outputs : row.values[m] # None => Counted(row.key, m) # {}
    /\ q.pc \in {"join", "page", "done"} =>
           \A n \in DOMAIN q.columns :
               /\ q.columns[n] # None
               /\ \E m \in Needs[q.columns[n]] : Counted(row.key, m) = {}
               => row.values[n] = None

RowsSeen == \A i \in DOMAIN q.rows : RowSeen(q.rows[i])

(* A column is one that was asked for, and every formula has its column.   *)
ColumnsMean ==
    q.pc \in Built =>
        /\ \A n \in DOMAIN q.columns : \E e \in Range(Asked) : e.name = n /\ e.expr = q.columns[n]
        /\ \A e \in Range(q.request.measures) : e.expr # None => e.name \in DOMAIN q.columns

-------------------------------------------------------------------------------
(* The leaves of a dimension, and what is under a member.                  *)
LeavesKnown ==
    \A a \in Axis : Range(Initial[a]) \subseteq Range(known[a]) /\ Range(known[a]) \subseteq Leaves[a]

LEMMA MaxIs ==
  ASSUME NEW n \in Nat, NEW S, S \subseteq 1..n, S # {}
  PROVE  Max(S) \in S /\ \A x \in S : x <= Max(S)
<1>1. PICK T : T = {k \in Nat : \E m \in S : k = n - m}
  OBVIOUS
<1>2. T \subseteq Nat /\ T # {}
  <2>1. PICK m \in S : TRUE
    OBVIOUS
  <2>2. n - m \in Nat
    BY <2>1
  <2> QED BY <1>1, <2>1, <2>2
<1>3. PICK k \in T : \A j \in T : k <= j
  BY <1>2, LeastExists
<1>4. PICK m \in S : k = n - m
  BY <1>1, <1>3
<1>5. ASSUME NEW x \in S PROVE m >= x
  <2>1. n - x \in T
    BY <1>1
  <2> QED BY <1>3, <1>4, <2>1
<1>6. Max(S) \in S /\ \A x \in S : Max(S) >= x
  BY <1>4, <1>5 DEF Max
<1> QED BY <1>6

(* A query writes nothing but itself and the cached display order.         *)
LEMMA QueryWrites ==
  ASSUME Query
  PROVE  cube' = cube /\ known' = known /\ cells' = cells /\ tags' = tags
<1>1. (\E r \in Requests : Ask(r)) => cube' = cube /\ known' = known /\ cells' = cells /\ tags' = tags
  BY DEF Ask
<1>2. TakeMeasures \/ AddFilter \/ EndFilters =>
          cube' = cube /\ known' = known /\ cells' = cells /\ tags' = tags
  BY DEF TakeMeasures, AddFilter, EndFilters
<1>3. Slice => cube' = cube /\ known' = known /\ cells' = cells /\ tags' = tags
  BY DEF Slice, EnsureDisplayOrder, Resolve, Scan, Fold
<1>4. (\E key \in DOMAIN q.groups : Emit(key)) \/ Calculate \/ Join \/ OrderAndLimit =>
          cube' = cube /\ known' = known /\ cells' = cells /\ tags' = tags
  BY DEF Emit, Calculate, Join, OrderAndLimit
<1> QED BY <1>1, <1>2, <1>3, <1>4 DEF Query

LEMMA KnownGrows ==
  ASSUME OrdersGrow, LeavesKnown, [Next]_vars
  PROVE  /\ cube' = cube /\ LeavesKnown'
         /\ \A a \in Axis : Range(known[a]) \subseteq Range(known'[a])
<1>1. known \in Orders
  BY DEF OrdersGrow
<1>2. CASE known' = known /\ cube' = cube
  BY <1>2 DEF LeavesKnown
<1>3. ASSUME NEW b \in Axis, NEW m \in Leaves[b], AddLeaf(b, m)
      PROVE  /\ cube' = cube /\ LeavesKnown'
             /\ \A a \in Axis : Range(known[a]) \subseteq Range(known'[a])
  <2>1. cube' = cube /\ known' = [known EXCEPT ![b] = Append(known[b], m)]
    BY <1>3 DEF AddLeaf
  <2>2. known[b] \in Seq(Members) /\ m \in Members
    BY <1>1, <1>3 DEF Orders, Members
  <2>3. Range(Append(known[b], m)) = Range(known[b]) \cup {m}
    <3>1. PICK s : s = Append(known[b], m)
      OBVIOUS
    <3>2. /\ s \in Seq(Members) /\ Len(s) = Len(known[b]) + 1 /\ s[Len(known[b]) + 1] = m
          /\ \A i \in 1..Len(known[b]) : s[i] = known[b][i]
      BY <2>2, <3>1, AppendProperties
    <3>3. Len(known[b]) \in Nat
      BY <2>2, SeqIs
    <3>4. Range(s) \subseteq Range(known[b]) \cup {m}
      <4> SUFFICES ASSUME NEW x \in Range(s) PROVE x \in Range(known[b]) \cup {m}
        OBVIOUS
      <4>1. PICK j \in 1..(Len(known[b]) + 1) : s[j] = x
        BY <3>2, SeqIs
      <4>2. CASE j = Len(known[b]) + 1
        BY <3>2, <4>1, <4>2
      <4>3. CASE j \in 1..Len(known[b])
        BY <2>2, <3>2, <4>1, <4>3, SeqIs
      <4> QED BY <3>3, <4>1, <4>2, <4>3
    <3>5. Range(known[b]) \subseteq Range(s)
      <4> SUFFICES ASSUME NEW x \in Range(known[b]) PROVE x \in Range(s)
        OBVIOUS
      <4>1. PICK j \in 1..Len(known[b]) : known[b][j] = x
        BY <2>2, SeqIs
      <4>2. j \in 1..Len(s) /\ s[j] = x
        BY <3>2, <3>3, <4>1
      <4> QED BY <3>2, <4>2, SeqIs
    <3>6. m \in Range(s)
      <4>1. Len(known[b]) + 1 \in 1..Len(s)
        BY <3>2, <3>3
      <4> QED BY <3>2, <4>1, SeqIs
    <3> QED BY <3>1, <3>4, <3>5, <3>6
  <2>4. \A a \in Axis : known'[a] = IF a = b THEN Append(known[b], m) ELSE known[a]
    <3>1. DOMAIN known = Axis
      BY <1>1 DEF Orders
    <3>2. PICK s : s = Append(known[b], m)
      OBVIOUS
    <3> QED BY <2>1, <3>1, <3>2
  <2> QED BY <1>3, <2>1, <2>3, <2>4 DEF LeavesKnown
<1>4. \/ known' = known /\ cube' = cube
      \/ \E b \in Axis : \E m \in Leaves[b] : AddLeaf(b, m)
  BY QueryWrites DEF Next, Other, vars, RefreshOrder, PutCell, PutTag
<1> QED BY <1>2, <1>3, <1>4

LEMMA UnderIs ==
  ASSUME OrdersGrow, LeavesKnown, NEW a \in Axis, NEW m
  PROVE  /\ DOMAIN Under(a, m) \subseteq Range(known[a])
         /\ \A l \in DOMAIN Under(a, m) : Under(a, m)[l] \in Int
         /\ Under(a, m) # <<>> => m \in Range(known[a]) \/ m \in DOMAIN Rollups[a]
         /\ m \in Range(known[a]) => Under(a, m) = [l \in {m} |-> 1]
<1>1. CASE m \in Range(known[a])
  BY <1>1 DEF Under
<1>2. CASE m \notin Range(known[a]) /\ m \in DOMAIN Rollups[a]
  <2>1. Under(a, m) = Rollups[a][m]
    BY <1>2 DEF Under
  <2>2. /\ DOMAIN Rollups[a][m] \subseteq Range(Initial[a])
        /\ \A l \in DOMAIN Rollups[a][m] : Rollups[a][m][l] \in Int
    BY <1>2, RollupsAreOfLeaves
  <2> QED BY <1>2, <2>1, <2>2 DEF LeavesKnown
<1>3. CASE m \notin Range(known[a]) /\ m \notin DOMAIN Rollups[a]
  <2>1. Under(a, m) = <<>>
    BY <1>3 DEF Under
  <2>2. DOMAIN <<>> = {}
    BY NoneIs
  <2> QED BY <1>3, <2>1, <2>2
<1> QED BY <1>1, <1>2, <1>3

LEMMA UnderStays ==
  ASSUME OrdersGrow, LeavesKnown, [Next]_vars, NEW a \in Axis, NEW m, Under(a, m) # <<>>
  PROVE  Under(a, m)' = Under(a, m)
<1>1. LeavesKnown' /\ Range(known[a]) \subseteq Range(known'[a])
  BY KnownGrows
<1>2. CASE m \in Range(known[a])
  BY <1>1, <1>2 DEF Under
<1>3. CASE m \notin Range(known[a])
  <2>1. m \in DOMAIN Rollups[a]
    BY <1>3, UnderIs
  <2>2. m \notin Leaves[a]
    BY <2>1, RollupsAreOfLeaves
  <2>3. m \notin Range(known'[a])
    BY <1>1, <2>2 DEF LeavesKnown
  <2> QED BY <1>3, <2>1, <2>3 DEF Under
<1> QED BY <1>2, <1>3

LEMMA StoredIs ==
  ASSUME OrdersGrow, LeavesKnown, NEW a \in Axis, NEW m
  PROVE  /\ DOMAIN Stored(a, m) \subseteq Names
         /\ \A l \in DOMAIN Stored(a, m) : Stored(a, m)[l] \in Int
         /\ m \in Range(known[a]) => Stored(a, m) = [l \in {m} |-> 1]
<1>1. Range(known[a]) \subseteq Names
  <2>1. known[a] \in Seq(Members)
    BY DEF OrdersGrow, Orders
  <2>2. Range(known[a]) \subseteq Members
    BY <2>1, SeqIs
  <2> QED BY <2>2, NamesAreSpelled
<1>2. CASE cube.aggregating
  BY <1>1, <1>2, UnderIs DEF Stored
<1>3. CASE ~cube.aggregating /\ m \in Range(known[a]) \cup DOMAIN Rollups[a]
  <2>1. Stored(a, m) = [l \in {m} |-> 1]
    BY <1>3 DEF Stored
  <2>2. m \in Names
    BY <1>1, <1>3, NamesAreSpelled
  <2> QED BY <1>3, <2>1, <2>2
<1>4. CASE ~cube.aggregating /\ m \notin Range(known[a]) \cup DOMAIN Rollups[a]
  <2>1. Stored(a, m) = <<>>
    BY <1>4 DEF Stored
  <2>2. DOMAIN <<>> = {}
    BY NoneIs
  <2> QED BY <1>4, <2>1, <2>2
<1> QED BY <1>2, <1>3, <1>4

LEMMA StoredStays ==
  ASSUME OrdersGrow, LeavesKnown, [Next]_vars, NEW a \in Axis, NEW m, Stored(a, m) # <<>>
  PROVE  Stored(a, m)' = Stored(a, m)
<1>1. cube' = cube /\ Range(known[a]) \subseteq Range(known'[a])
  BY KnownGrows
<1>2. CASE cube.aggregating
  BY <1>1, <1>2, UnderStays DEF Stored
<1>3. CASE ~cube.aggregating
  BY <1>1, <1>3 DEF Stored
<1> QED BY <1>2, <1>3

(* What is denied are members, so all of it is hidden.                     *)
DenialsKnown ==
    \A a \in Axis : q.request.denied[a] \subseteq Range(Initial[a]) \cup DOMAIN Rollups[a]

Under1(a, m) == {m} \cup DOMAIN Under(a, m)

LEMMA HiddenIs ==
  ASSUME LeavesKnown, DenialsKnown, NEW a \in Axis
  PROVE  Hidden(a) = UNION {Under1(a, m) : m \in q.request.denied[a]}
<1>1. ASSUME NEW m \in q.request.denied[a]
      PROVE  DOMAIN Under(a, m) \cup ({m} \cap DOMAIN Rollups[a]) = Under1(a, m)
  <2>1. CASE m \in Range(known[a])
    <3>1. Under(a, m) = [l \in {m} |-> 1]
      BY <2>1 DEF Under
    <3>2. DOMAIN Under(a, m) = {m}
      BY <3>1
    <3> QED BY <3>2 DEF Under1
  <2>2. CASE m \notin Range(known[a])
    <3>1. m \in DOMAIN Rollups[a]
      BY <2>2 DEF LeavesKnown, DenialsKnown
    <3> QED BY <3>1 DEF Under1
  <2> QED BY <2>1, <2>2
<1> QED BY <1>1 DEF Hidden

LEMMA HiddenStays ==
  ASSUME OrdersGrow, LeavesKnown, DenialsKnown, [Next]_vars, q'.request = q.request, NEW a \in Axis
  PROVE  Hidden(a)' = Hidden(a)
<1>1. ASSUME NEW m \in q.request.denied[a] PROVE Under(a, m)' = Under(a, m)
  <2>1. LeavesKnown' /\ Range(known[a]) \subseteq Range(known'[a])
    BY KnownGrows
  <2>2. CASE m \in Range(known[a])
    BY <2>1, <2>2 DEF Under
  <2>3. CASE m \notin Range(known[a])
    <3>1. m \in DOMAIN Rollups[a]
      BY <2>3 DEF LeavesKnown, DenialsKnown
    <3>2. m \notin Range(known'[a])
      BY <2>1, <3>1, RollupsAreOfLeaves DEF LeavesKnown
    <3> QED BY <2>3, <3>1, <3>2 DEF Under
  <2> QED BY <2>2, <2>3
<1> QED BY <1>1 DEF Hidden

-------------------------------------------------------------------------------
(* Which steps write which part of a query, and which lead where.          *)
LEMMA Steps ==
  ASSUME DOMAIN q = Fields, [Next]_vars
  PROVE  /\ cube' = cube
         /\ \/ q' = q
            \/ \E r \in Requests : Ask(r)
            \/ TakeMeasures \/ AddFilter \/ EndFilters \/ EnsureDisplayOrder \/ Resolve \/ Scan
            \/ (\E c \in q.left : Fold(c)) \/ (\E key \in DOMAIN q.groups : Emit(key))
            \/ Calculate \/ Join \/ OrderAndLimit
<1>1. Other \/ UNCHANGED vars => cube' = cube /\ q' = q
  BY DEF Other, vars, RefreshOrder, AddLeaf, PutCell, PutTag
<1>2. CASE Query
  BY <1>2, QueryWrites DEF Query, Slice
<1> QED BY <1>1, <1>2 DEF Next

Folding  == \E c \in q.left : Fold(c)
Emitting == \E key \in DOMAIN q.groups : Emit(key)

Written ==
    /\ DOMAIN q' = Fields /\ q'.request = q.request /\ q'.asked = q.asked
    /\ \/ TakeMeasures
       \/ q'.measures = q.measures /\ q'.columns = q.columns /\ q'.folds = q.folds
    /\ \/ AddFilter \/ EndFilters \/ q'.filters = q.filters
    /\ \/ EndFilters \/ q'.denied = q.denied
    /\ \/ Resolve \/ q'.scope = q.scope
    /\ \/ Scan \/ q'.snapshot = q.snapshot
    /\ \/ Scan \/ Folding \/ q'.left = q.left
    /\ \/ Folding \/ Emitting \/ q'.groups = q.groups
    /\ \/ Emitting \/ Calculate \/ Join \/ q'.rows = q.rows
    /\ \/ Join \/ q'.joined = q.joined
    /\ \/ OrderAndLimit \/ (q'.page = q.page /\ q'.truncated = q.truncated)
    /\ \/ AddFilter \/ EndFilters \/ EnsureDisplayOrder \/ Resolve \/ q'.at = q.at

Led ==
    /\ q'.pc \in Running => q.pc \in Running
    /\ q'.pc \in Built => TakeMeasures \/ q.pc \in Built
    /\ q'.pc \in Filtered => EndFilters \/ q.pc \in Filtered
    /\ q'.pc = "measures" => q.pc = "measures"
    /\ q'.pc = "filters" => TakeMeasures \/ AddFilter \/ q' = q
    /\ q'.pc = "order" => EndFilters \/ q.pc = "order"
    /\ q'.pc = "resolve" => EnsureDisplayOrder \/ Resolve \/ q' = q
    /\ q'.pc = "scan" => Resolve \/ q.pc = "scan"
    /\ q'.pc = "fold" => Scan \/ q.pc = "fold"
    /\ q'.pc = "join" => Calculate \/ q.pc = "join"
    /\ q'.pc = "page" => Join \/ q.pc = "page"
    /\ q'.pc = "done" => OrderAndLimit \/ q.pc = "done"

LEMMA Writers ==
  ASSUME DOMAIN q = Fields, [Next]_vars, ~\E r \in Requests : Ask(r)
  PROVE  cube' = cube /\ Written /\ Led
<1>1. cube' = cube
  BY Steps
<1> SUFFICES Written /\ Led
  BY <1>1
<1>2. CASE q' = q
  BY <1>2 DEF Written, Led
<1>3. CASE TakeMeasures
  BY <1>3, TakeMeasuresMoves DEF Written, Led, Moves, Fields, Running, Built, Filtered
<1>4. CASE AddFilter
  BY <1>4, AddFilterMoves DEF Written, Led, Moves, Fields, Running, Built, Filtered
<1>5. CASE EndFilters
  BY <1>5, EndFiltersMoves DEF Written, Led, Moves, Fields, Running, Built, Filtered
<1>6. CASE EnsureDisplayOrder
  BY <1>6, EnsureDisplayOrderMoves DEF Written, Led, Moves, Fields, Running, Built, Filtered
<1>7. CASE Resolve
  BY <1>7, ResolveMoves DEF Written, Led, Moves, Fields, Running, Built, Filtered
<1>8. CASE Scan
  BY <1>8, ScanMoves DEF Written, Led, Moves, Fields, Running, Built, Filtered
<1>9. CASE Folding
  <2>1. PICK c \in q.left : Fold(c)
    BY <1>9 DEF Folding
  <2> QED BY <1>9, <2>1, FoldMoves DEF Written, Led, Moves, Fields, Running, Built, Filtered
<1>10. CASE Emitting
  <2>1. PICK key \in DOMAIN q.groups : Emit(key)
    BY <1>10 DEF Emitting
  <2> QED BY <1>10, <2>1, EmitMoves DEF Written, Led, Moves, Fields, Running, Built, Filtered
<1>11. CASE Calculate
  BY <1>11, CalculateMoves DEF Written, Led, Moves, Fields, Running, Built, Filtered
<1>12. CASE Join
  BY <1>12, JoinMoves DEF Written, Led, Moves, Fields, Running, Built, Filtered
<1>13. CASE OrderAndLimit
  BY <1>13, OrderAndLimitMoves DEF Written, Led, Moves, Fields, Running, Built, Filtered
<1> QED BY <1>1, <1>2, <1>3, <1>4, <1>5, <1>6, <1>7, <1>8, <1>9, <1>10, <1>11, <1>12, <1>13, Steps
        DEF Folding, Emitting

-------------------------------------------------------------------------------
(* The columns asked for, and the measures they are made of.               *)
EntryFits(e) ==
    /\ DOMAIN e = {"name", "fold", "expr"}
    /\ e.name \notin Axis /\ Folded(e)
    /\ e.expr # None => q.request.front = "plan" /\ e.expr \in DOMAIN Formulas

ColumnsOf(e) ==
    IF IsAll(e) THEN [j \in DOMAIN known[cube.measureAxis] |->
                         [e EXCEPT !.name = known[cube.measureAxis][j]]]
    ELSE <<e>>

LEMMA MembersAreNoAxes ==
  ASSUME OrdersGrow, NEW a \in Axis
  PROVE  /\ known[a] \in Seq(Members) /\ Range(known[a]) \subseteq Members
         /\ Range(known[a]) \cap Axis = {} /\ Value \notin Axis
<1>1. known[a] \in Seq(Members)
  BY DEF OrdersGrow, Orders
<1>2. Range(known[a]) \subseteq Members
  BY <1>1, SeqIs
<1>3. Axis \subseteq Int
  BY DimsAreCounted DEF Axis
<1> QED BY <1>1, <1>2, <1>3, NamesAreSpelled, NamesAreNoNumbers

LEMMA MeasureAxisIs ==
  ASSUME OrdersGrow, cube.measureAxis # 0
  PROVE  cube.measureAxis \in Axis
<1>1. cube.measureAxis \in 0..Dims
  BY CubesHaveMeasures DEF OrdersGrow
<1> QED BY <1>1, DimsAreCounted DEF Axis

LEMMA ColumnsAre ==
  ASSUME OrdersGrow, NEW e
  PROVE  /\ ColumnsOf(e) \in Seq(Range(ColumnsOf(e)))
         /\ ~IsAll(e) => Range(ColumnsOf(e)) = {e}
         /\ IsAll(e) => Range(ColumnsOf(e)) =
                {[e EXCEPT !.name = m] : m \in Range(known[cube.measureAxis])}
<1>1. CASE ~IsAll(e)
  <2>1. <<e>> \in Seq({e}) /\ Range(<<e>>) = {e}
    BY OneIs
  <2> QED BY <1>1, <2>1 DEF ColumnsOf
<1>2. CASE IsAll(e)
  <2>1. PICK s : s = known[cube.measureAxis]
    OBVIOUS
  <2>2. s \in Seq(Members)
    BY <1>2, <2>1, MeasureAxisIs, MembersAreNoAxes DEF IsAll
  <2>3. Len(s) \in Nat /\ DOMAIN s = 1..Len(s)
    BY <2>2, SeqIs
  <2>4. PICK t : t = [j \in 1..Len(s) |-> [e EXCEPT !.name = s[j]]]
    OBVIOUS
  <2>5. ColumnsOf(e) = t
    BY <1>2, <2>1, <2>3, <2>4 DEF ColumnsOf
  <2>6. t \in [1..Len(s) -> Range(t)]
    BY <2>4 DEF Range
  <2>7. t \in Seq(Range(t))
    BY <2>3, <2>6, SeqDef
  <2>8. Range(t) = {[e EXCEPT !.name = m] : m \in Range(s)}
    BY <2>3, <2>4 DEF Range
  <2> QED BY <1>2, <2>1, <2>5, <2>7, <2>8
<1> QED BY <1>1, <1>2

LEMMA AskedAre ==
  ASSUME OrdersGrow, IsList(q.request.measures)
  PROVE  /\ Asked \in Seq(Range(Asked))
         /\ \A x : x \in Range(Asked) <=>
                       \E e \in Range(q.request.measures) : x \in Range(ColumnsOf(e))
<1>1. PICK s, n : s = q.request.measures /\ n = Len(s)
  OBVIOUS
<1>2. /\ s \in Seq(Range(s)) /\ n \in Nat /\ DOMAIN s = 1..n
      /\ \A i \in 1..n : s[i] \in Range(s)
      /\ \A e \in Range(s) : \E i \in 1..n : s[i] = e
  BY <1>1, SeqIs DEF IsList
<1>3. PICK parts : parts = [i \in 1..n |-> ColumnsOf(s[i])]
  OBVIOUS
<1>4. Asked = Concat(n, parts)
  BY <1>1, <1>2, <1>3 DEF Asked, ColumnsOf
<1>5. PICK S : S = UNION {Range(ColumnsOf(e)) : e \in Range(s)}
  OBVIOUS
<1>6. ASSUME NEW i \in 1..n PROVE parts[i] \in Seq(S)
  <2>1. parts[i] = ColumnsOf(s[i]) /\ s[i] \in Range(s)
    BY <1>2, <1>3
  <2>2. parts[i] \in Seq(Range(parts[i]))
    BY <2>1, ColumnsAre
  <2>3. Range(parts[i]) \subseteq S
    BY <1>5, <2>1
  <2>4. Len(parts[i]) \in Nat /\ parts[i] \in [1..Len(parts[i]) -> S]
    BY <2>2, <2>3, LenProperties
  <2> QED BY <2>4, SeqDef
<1>7. /\ Concat(n, parts) \in Seq(S)
      /\ \A x : x \in Range(Concat(n, parts)) <=> \E i \in 1..n : x \in Range(parts[i])
  BY <1>2, <1>6, ConcatIs
<1>8. Asked \in Seq(Range(Asked))
  BY <1>4, <1>7, SeqIs
<1>9. ASSUME NEW x
      PROVE  x \in Range(Asked) <=> \E e \in Range(s) : x \in Range(ColumnsOf(e))
  BY <1>2, <1>3, <1>4, <1>7
<1> QED BY <1>1, <1>8, <1>9

LEMMA AskedFit ==
  ASSUME OrdersGrow, RequestStands, q.pc \in Running
  PROVE  /\ Asked \in Seq(Range(Asked))
         /\ \A e \in Range(Asked) : EntryFits(e)
         /\ \A e \in Range(q.request.measures) : e.expr # None => e \in Range(Asked)
<1>1. IsRequest(q.request) /\ \A e \in Range(q.request.measures) : Folded(e)
  BY DEF RequestStands
<1>2. IsList(q.request.measures)
  BY <1>1 DEF IsRequest
<1>3. ASSUME NEW e \in Range(q.request.measures) PROVE EntryFits(e)
  <2>1. e = [name |-> e.name, fold |-> e.fold, expr |-> e.expr]
    BY <1>1 DEF IsRequest
  <2>2. DOMAIN e = {"name", "fold", "expr"}
    BY <2>1
  <2> QED BY <1>1, <2>2 DEF IsRequest, EntryFits
<1>4. ASSUME NEW x \in Range(Asked) PROVE EntryFits(x)
  <2>1. PICK e \in Range(q.request.measures) : x \in Range(ColumnsOf(e))
    BY <1>2, AskedAre
  <2>2. EntryFits(e)
    BY <1>3
  <2>3. CASE ~IsAll(e)
    BY <2>1, <2>2, <2>3, ColumnsAre
  <2>4. CASE IsAll(e)
    <3>1. PICK m \in Range(known[cube.measureAxis]) : x = [e EXCEPT !.name = m]
      BY <2>1, <2>4, ColumnsAre
    <3>2. m \notin Axis
      BY <2>4, MeasureAxisIs, MembersAreNoAxes DEF IsAll
    <3>3. DOMAIN x = {"name", "fold", "expr"} /\ x.name = m /\ x.fold = e.fold /\ x.expr = e.expr
      BY <2>2, <3>1 DEF EntryFits
    <3> QED BY <2>2, <3>2, <3>3 DEF EntryFits, Folded
  <2> QED BY <2>3, <2>4
<1>5. ASSUME NEW e \in Range(q.request.measures), e.expr # None PROVE e \in Range(Asked)
  <2>1. ~IsAll(e)
    BY <1>5 DEF IsAll
  <2>2. e \in Range(ColumnsOf(e))
    BY <2>1, ColumnsAre
  <2> QED BY <1>2, <2>2, AskedAre
<1> QED BY <1>2, <1>4, <1>5, AskedAre

SlotsOf(e) == IF e.expr = None THEN <<e>> ELSE Slots[e.expr]

LEMMA SlotsAreEntries ==
  ASSUME NEW e, EntryFits(e)
  PROVE  /\ SlotsOf(e) \in Seq(Range(SlotsOf(e)))
         /\ \A x \in Range(SlotsOf(e)) : /\ DOMAIN x = {"name", "fold", "expr"}
                                         /\ x.fold \in Implemented \cup {None}
<1>1. CASE e.expr = None
  <2>1. <<e>> \in Seq({e}) /\ Range(<<e>>) = {e}
    BY OneIs
  <2>2. e.fold \in Implemented \cup {None} /\ DOMAIN e = {"name", "fold", "expr"}
    BY <1>1 DEF EntryFits, Folded
  <2> QED BY <1>1, <2>1, <2>2 DEF SlotsOf
<1>2. CASE e.expr # None
  <2>1. e.expr \in DOMAIN Formulas /\ SlotsOf(e) = Slots[e.expr]
    BY <1>2 DEF EntryFits, SlotsOf
  <2>2. Slots[e.expr] \in Seq(SlotRecords)
    BY <2>1, SlotsIs DEF SlotsFit
  <2>3. SlotsOf(e) \in Seq(Range(SlotsOf(e))) /\ Range(SlotsOf(e)) \subseteq SlotRecords
    BY <2>1, <2>2, SeqIs
  <2>4. ASSUME NEW x \in SlotRecords
        PROVE  DOMAIN x = {"name", "fold", "expr"} /\ x.fold \in Implemented \cup {None}
    <3>1. PICK f \in DOMAIN Formulas : Formulas[f].op \in Aggregates /\ x = SlotOf(f)
      BY DEF SlotRecords
    <3> QED BY <3>1 DEF SlotOf, Aggregates, Implemented
  <2> QED BY <2>3, <2>4
<1> QED BY <1>1, <1>2

LEMMA ExpandedAre ==
  ASSUME OrdersGrow, RequestStands, q.pc \in Running
  PROVE  /\ Expanded \in Seq(Range(Expanded))
         /\ \A x : x \in Range(Expanded) <=> \E e \in Range(Asked) : x \in Range(SlotsOf(e))
         /\ \A x \in Range(Expanded) : /\ DOMAIN x = {"name", "fold", "expr"}
                                       /\ x.fold \in Implemented \cup {None}
<1>1. PICK s, n : s = Asked /\ n = Len(s)
  OBVIOUS
<1>2. s \in Seq(Range(s)) /\ \A e \in Range(s) : EntryFits(e)
  BY <1>1, AskedFit
<1>3. /\ n \in Nat /\ DOMAIN s = 1..n
      /\ \A i \in 1..n : s[i] \in Range(s)
      /\ \A e \in Range(s) : \E i \in 1..n : s[i] = e
  BY <1>1, <1>2, SeqIs
<1>4. PICK parts : parts = [i \in 1..n |-> SlotsOf(s[i])]
  OBVIOUS
<1>5. Expanded = Concat(n, parts)
  BY <1>1, <1>3, <1>4 DEF Expanded, SlotsOf
<1>6. PICK S : S = UNION {Range(SlotsOf(e)) : e \in Range(s)}
  OBVIOUS
<1>7. ASSUME NEW i \in 1..n PROVE parts[i] \in Seq(S)
  <2>1. parts[i] = SlotsOf(s[i]) /\ s[i] \in Range(s)
    BY <1>3, <1>4
  <2>2. parts[i] \in Seq(Range(parts[i]))
    BY <1>2, <2>1, SlotsAreEntries
  <2>3. Range(parts[i]) \subseteq S
    BY <1>6, <2>1
  <2>4. Len(parts[i]) \in Nat /\ parts[i] \in [1..Len(parts[i]) -> S]
    BY <2>2, <2>3, LenProperties
  <2> QED BY <2>4, SeqDef
<1>8. /\ Concat(n, parts) \in Seq(S)
      /\ \A x : x \in Range(Concat(n, parts)) <=> \E i \in 1..n : x \in Range(parts[i])
  BY <1>3, <1>7, ConcatIs
<1>9. Expanded \in Seq(Range(Expanded))
  BY <1>5, <1>8, SeqIs
<1>10. ASSUME NEW x
       PROVE  x \in Range(Expanded) <=> \E e \in Range(s) : x \in Range(SlotsOf(e))
  BY <1>3, <1>4, <1>5, <1>8
<1>11. ASSUME NEW x \in Range(Expanded)
       PROVE  DOMAIN x = {"name", "fold", "expr"} /\ x.fold \in Implemented \cup {None}
  <2>1. PICK e \in Range(s) : x \in Range(SlotsOf(e))
    BY <1>10
  <2> QED BY <1>2, <2>1, SlotsAreEntries
<1> QED BY <1>1, <1>9, <1>10, <1>11

LEMMA TitlesAre ==
  ASSUME NEW S, NEW es \in Seq(S)
  PROVE  /\ \A n \in Titles(es) : LastOf(es, n) \in Range(es) /\ LastOf(es, n).name = n
         /\ \A e \in Range(es) : e.name \in Titles(es)
         /\ Titles(es) # {} => es # <<>>
<1>1. Len(es) \in Nat /\ DOMAIN es = 1..Len(es)
  BY SeqIs
<1>2. ASSUME NEW n \in Titles(es) PROVE LastOf(es, n) \in Range(es) /\ LastOf(es, n).name = n
  <2>1. PICK I : I = {i \in DOMAIN es : es[i].name = n}
    OBVIOUS
  <2>2. I \subseteq 1..Len(es) /\ I # {}
    BY <1>1, <2>1 DEF Titles
  <2>3. Max(I) \in I
    BY <1>1, <2>2, MaxIs
  <2>4. LastOf(es, n) = es[Max(I)]
    BY <2>1 DEF LastOf
  <2> QED BY <1>1, <2>1, <2>3, <2>4, SeqIs
<1>3. ASSUME NEW e \in Range(es) PROVE e.name \in Titles(es)
  BY <1>1, SeqIs DEF Titles
<1>4. ASSUME Titles(es) # {} PROVE es # <<>>
  <2>1. DOMAIN es # {}
    BY <1>4 DEF Titles
  <2> QED BY <2>1, NoneIs
<1> QED BY <1>2, <1>3, <1>4

LEMMA RecordedAre ==
  ASSUME NEW es, es \in Seq(Range(es)),
         \A x \in Range(es) : DOMAIN x = {"name", "fold", "expr"} /\ x.fold \in Implemented \cup {None}
  PROVE  /\ Recorded(es) \in Seq(Range(Recorded(es)))
         /\ \A x \in Range(Recorded(es)) : x.fold \in Implemented
<1>1. Len(es) \in Nat /\ DOMAIN es = 1..Len(es) /\ \A i \in 1..Len(es) : es[i] \in Range(es)
  BY SeqIs
<1>2. CASE Sql
  <2>1. PICK I, rs : I = {i \in DOMAIN es : es[i].fold # None} /\ rs = Only(es, I)
    OBVIOUS
  <2>2. Recorded(es) = rs
    BY <1>2, <2>1 DEF Recorded
  <2>3. rs \in Seq(Range(es)) /\ \E f : Kept(rs, es, I, Len(es), f)
    BY <2>1, OnlyIs
  <2>4. PICK f : Kept(rs, es, I, Len(es), f)
    BY <2>3
  <2>5. ASSUME NEW x \in Range(rs) PROVE x.fold \in Implemented
    <3>1. PICK i \in 1..Len(rs) : x = rs[i]
      BY <2>3, SeqIs
    <3>2. PICK k \in (1..Len(es)) \cap I : x = es[k]
      BY <2>4, <3>1 DEF Kept
    <3>3. x \in Range(es) /\ x.fold # None
      BY <1>1, <2>1, <3>2
    <3> QED BY <3>3
  <2> QED BY <2>2, <2>3, <2>5, SeqIs
<1>3. CASE ~Sql
  <2>1. PICK rs : rs = [i \in 1..Len(es) |-> [es[i] EXCEPT !.fold = IF @ = None THEN "SUM" ELSE @]]
    OBVIOUS
  <2>2. Recorded(es) = rs
    BY <1>1, <1>3, <2>1 DEF Recorded
  <2>3. rs \in [1..Len(es) -> Range(rs)]
    BY <2>1 DEF Range
  <2>4. rs \in Seq(Range(rs))
    BY <1>1, <2>3, SeqDef
  <2>5. ASSUME NEW x \in Range(rs) PROVE x.fold \in Implemented
    <3>1. PICK i \in 1..Len(es) : x = rs[i]
      BY <2>1 DEF Range
    <3>2. PICK e \in Range(es) : e = es[i] /\ x = [e EXCEPT !.fold = IF @ = None THEN "SUM" ELSE @]
      BY <1>1, <2>1, <3>1
    <3>3. x.fold = IF e.fold = None THEN "SUM" ELSE e.fold
      BY <3>2
    <3> QED BY <3>3 DEF Implemented
  <2> QED BY <2>2, <2>4, <2>5
<1> QED BY <1>2, <1>3

(* What the step that takes the measures makes of them.                    *)
LEMMA MeasuresTaken ==
  ASSUME OrdersGrow, RequestStands, TakeMeasures, q'.pc # "refused"
  PROVE  /\ \A m \in DOMAIN q'.folds : q'.folds[m] \in Implemented
         /\ \A n \in DOMAIN q'.columns :
                /\ n \notin Axis
                /\ \E e \in Range(Asked) : e.name = n /\ e.expr = q'.columns[n]
                /\ IF q'.columns[n] = None THEN n \in q'.measures
                   ELSE /\ q'.columns[n] \in DOMAIN Formulas
                        /\ \A s \in Range(Slots[q'.columns[n]]) : s.name \in q'.measures
         /\ q'.measures \cap Axis = {}
         /\ q'.measures # {} => cube.measureAxis \notin q.request.groupBy
         /\ \A e \in Range(q.request.measures) : e.expr # None => e.name \in DOMAIN q'.columns
<1>1. PICK cs, es, rs : cs = Asked /\ es = Expanded /\ rs = Recorded(es)
  OBVIOUS
<1>2. q.pc \in Running /\ DOMAIN q = Fields
  BY DEF TakeMeasures, Running, OrdersGrow
<1>3. PICK cols, folds, ms : /\ cols = [n \in Titles(cs) |-> LastOf(cs, n).expr]
                             /\ folds = [n \in Titles(rs) |-> LastOf(rs, n).fold]
                             /\ ms = Titles(es)
  OBVIOUS
<1>4. /\ \A i \in DOMAIN es : IsMeasure(es[i].name)
      /\ es = <<>> \/ cube.measureAxis \notin q.request.groupBy
      /\ q' = [q EXCEPT !.pc = "filters", !.measures = ms, !.columns = cols, !.folds = folds]
  <2>1. \/ q' = [q EXCEPT !.pc = "refused"]
        \/ /\ \A i \in DOMAIN es : IsMeasure(es[i].name)
           /\ es = <<>> \/ cube.measureAxis \notin q.request.groupBy
           /\ q' = [q EXCEPT !.pc = "filters", !.measures = ms, !.columns = cols, !.folds = folds]
    BY <1>1, <1>3 DEF TakeMeasures, Refuse
  <2> QED BY <1>2, <2>1 DEF Fields
<1>5. q'.measures = ms /\ q'.columns = cols /\ q'.folds = folds
  BY <1>2, <1>4 DEF Fields
<1>6. /\ cs \in Seq(Range(cs)) /\ \A e \in Range(cs) : EntryFits(e)
      /\ \A e \in Range(q.request.measures) : e.expr # None => e \in Range(cs)
  BY <1>1, <1>2, AskedFit
<1>7. /\ es \in Seq(Range(es))
      /\ \A x : x \in Range(es) <=> \E e \in Range(cs) : x \in Range(SlotsOf(e))
      /\ \A x \in Range(es) : DOMAIN x = {"name", "fold", "expr"} /\ x.fold \in Implemented \cup {None}
  BY <1>1, <1>2, ExpandedAre
<1>8. rs \in Seq(Range(rs)) /\ \A x \in Range(rs) : x.fold \in Implemented
  BY <1>1, <1>7, RecordedAre
<1>9. ASSUME NEW m \in DOMAIN q'.folds PROVE q'.folds[m] \in Implemented
  <2>1. m \in Titles(rs) /\ q'.folds[m] = LastOf(rs, m).fold
    BY <1>3, <1>5, <1>9
  <2> QED BY <1>8, <2>1, TitlesAre
<1>10. ASSUME NEW n \in DOMAIN q'.columns
       PROVE  /\ n \notin Axis
              /\ \E e \in Range(cs) : e.name = n /\ e.expr = q'.columns[n]
              /\ IF q'.columns[n] = None THEN n \in q'.measures
                 ELSE /\ q'.columns[n] \in DOMAIN Formulas
                      /\ \A s \in Range(Slots[q'.columns[n]]) : s.name \in q'.measures
  <2>1. n \in Titles(cs) /\ q'.columns[n] = LastOf(cs, n).expr
    BY <1>3, <1>5, <1>10
  <2>2. PICK e \in Range(cs) : e = LastOf(cs, n) /\ e.name = n
    BY <1>6, <2>1, TitlesAre
  <2>3. EntryFits(e) /\ q'.columns[n] = e.expr
    BY <1>6, <2>1, <2>2
  <2>4. \A x \in Range(SlotsOf(e)) : x.name \in q'.measures
    BY <1>3, <1>5, <1>7, TitlesAre
  <2>5. CASE e.expr = None
    <3>1. Range(<<e>>) = {e}
      BY OneIs
    <3>2. n \in q'.measures
      BY <2>2, <2>4, <2>5, <3>1 DEF SlotsOf
    <3> QED BY <2>2, <2>3, <2>5, <3>2 DEF EntryFits
  <2>6. CASE e.expr # None
    BY <2>2, <2>3, <2>4, <2>6 DEF EntryFits, SlotsOf
  <2> QED BY <2>5, <2>6
<1>11. ASSUME NEW m \in q'.measures PROVE m \notin Axis
  <2>1. PICK i \in DOMAIN es : m = es[i].name
    BY <1>3, <1>5, <1>11 DEF Titles
  <2>2. IsMeasure(m)
    BY <1>4, <2>1
  <2>3. CASE cube.measureAxis = 0
    <3>1. 1 \in Axis
      BY DimsAreCounted DEF Axis
    <3> QED BY <2>2, <2>3, <3>1, MembersAreNoAxes DEF IsMeasure
  <2>4. CASE cube.measureAxis # 0
    BY <2>2, <2>4, MeasureAxisIs, MembersAreNoAxes DEF IsMeasure
  <2> QED BY <2>3, <2>4
<1>12. ASSUME q'.measures # {} PROVE cube.measureAxis \notin q.request.groupBy
  <2>1. es # <<>>
    BY <1>3, <1>5, <1>7, <1>12, TitlesAre
  <2> QED BY <1>4, <2>1
<1>13. ASSUME NEW e \in Range(q.request.measures), e.expr # None PROVE e.name \in DOMAIN q'.columns
  <2>1. e \in Range(cs)
    BY <1>6, <1>13
  <2>2. e.name \in Titles(cs)
    BY <1>6, <2>1, TitlesAre
  <2> QED BY <1>3, <1>5, <2>2
<1> QED BY <1>1, <1>9, <1>10, <1>11, <1>12, <1>13

-------------------------------------------------------------------------------
(* The request, the cells, the folds and the columns, step by step.        *)
LEMMA AskedNow ==
  ASSUME NEW r, Ask(r)
  PROVE  /\ q'.request = r /\ q'.asked = known /\ q'.at = 1 /\ q'.pc \in {"refused", "measures"}
         /\ q'.measures = {} /\ q'.folds = <<>> /\ q'.columns = <<>>
         /\ q'.filters = [a \in Axis |-> None] /\ q'.denied = [a \in Axis |-> {}]
         /\ q'.scope = [a \in Axis |-> None] /\ q'.left = {} /\ q'.groups = <<>> /\ q'.rows = <<>>
         /\ q'.page = <<>> /\ q'.snapshot = <<>> /\ q'.joined = <<>>
         /\ q'.pc = "measures" => \A i \in DOMAIN r.measures : Folded(r.measures[i])
<1>1. PICK p : /\ p \in {"refused", "measures"}
               /\ p = "measures" => \A i \in DOMAIN r.measures : Folded(r.measures[i])
               /\ q' = [Idle EXCEPT !.request = r, !.asked = known, !.pc = p]
  BY DEF Ask, Folded
<1> QED BY <1>1 DEF Idle

LEMMA RequestStep ==
  ASSUME OrdersGrow, RequestStands, [Next]_vars
  PROVE  RequestStands'
<1>1. CASE \E r \in Requests : Ask(r)
  <2>1. PICK r \in Requests : Ask(r)
    BY <1>1
  <2>2. q'.request = r /\ IsRequest(r)
    BY <2>1, AskedNow, RequestsAreWhole
  <2>3. ASSUME q'.pc \in Running, NEW e \in Range(r.measures) PROVE Folded(e)
    <3>1. \A i \in DOMAIN r.measures : Folded(r.measures[i])
      BY <2>1, <2>3, AskedNow DEF Running
    <3> QED BY <3>1 DEF Range
  <2> QED BY <2>2, <2>3 DEF RequestStands
<1>2. CASE ~\E r \in Requests : Ask(r)
  <2>1. q'.request = q.request /\ (q'.pc \in Running => q.pc \in Running)
    BY <1>2, Writers DEF OrdersGrow, Written, Led
  <2> QED BY <2>1 DEF RequestStands
<1> QED BY <1>1, <1>2

LEMMA CellsStep ==
  ASSUME OrdersGrow, CellsTyped, [Next]_vars
  PROVE  CellsTyped'
<1>1. \/ cells' = cells
      \/ \E w \in Writes : PutCell(w)
  BY QueryWrites DEF Next, Other, vars, RefreshOrder, AddLeaf, PutTag
<1>2. \/ tags' = tags
      \/ \E w \in Tags : PutTag(w)
  BY QueryWrites DEF Next, Other, vars, RefreshOrder, AddLeaf, PutCell
<1>3. \A c \in DOMAIN cells' : c \in [Axis -> Members] /\ cells'[c] \in Amounts
  <2>1. CASE cells' = cells
    BY <2>1 DEF CellsTyped
  <2>2. ASSUME NEW w \in Writes, PutCell(w)
        PROVE  \A c \in DOMAIN cells' : c \in [Axis -> Members] /\ cells'[c] \in Amounts
    <3>1. cells' = With(cells, w.at, w.value)
      BY <2>2 DEF PutCell
    <3>2. w.at \in [Axis -> Members] /\ w.value \in Amounts
      BY CellsAreAtLeaves
    <3>3. DOMAIN cells' = DOMAIN cells \cup {w.at} /\ cells'[w.at] = w.value
      BY <3>1 DEF With
    <3>4. \A c \in DOMAIN cells : c # w.at => cells'[c] = cells[c]
      BY <3>1 DEF With
    <3> QED BY <3>2, <3>3, <3>4 DEF CellsTyped
  <2> QED BY <1>1, <2>1, <2>2
<1>4. \A k \in DOMAIN tags' : tags'[k] \in Names
  <2>1. CASE tags' = tags
    BY <2>1 DEF CellsTyped
  <2>2. ASSUME NEW w \in Tags, PutTag(w)
        PROVE  \A k \in DOMAIN tags' : tags'[k] \in Names
    <3>1. tags' = With(tags, w.at, w.value)
      BY <2>2 DEF PutTag
    <3>2. w.value \in Names
      BY NamesAreSpelled
    <3>3. DOMAIN tags' = DOMAIN tags \cup {w.at} /\ tags'[w.at] = w.value
      BY <3>1 DEF With
    <3>4. \A k \in DOMAIN tags : k # w.at => tags'[k] = tags[k]
      BY <3>1 DEF With
    <3> QED BY <3>2, <3>3, <3>4 DEF CellsTyped
  <2> QED BY <1>2, <2>1, <2>2
<1>5. \A c \in DOMAIN q'.snapshot : c \in [Axis -> Members] /\ q'.snapshot[c] \in Amounts
  <2>1. CASE \E r \in Requests : Ask(r)
    <3>1. q'.snapshot = <<>>
      BY <2>1, AskedNow
    <3>2. DOMAIN <<>> = {}
      BY NoneIs
    <3> QED BY <3>1, <3>2
  <2>2. CASE Scan
    BY <2>2, ScanMoves DEF OrdersGrow, CellsTyped
  <2>3. CASE q'.snapshot = q.snapshot
    BY <2>3 DEF CellsTyped
  <2>4. CASE ~\E r \in Requests : Ask(r)
    <3>1. Written
      BY <2>4, Writers DEF OrdersGrow
    <3> QED BY <2>2, <2>3, <3>1 DEF Written
  <2> QED BY <2>1, <2>4
<1> QED BY <1>3, <1>4, <1>5 DEF CellsTyped

LEMMA ColumnsStep ==
  ASSUME OrdersGrow, RequestStands, FoldsTyped, ColumnsTyped, [Next]_vars
  PROVE  FoldsTyped' /\ ColumnsTyped'
<1>1. CASE \E r \in Requests : Ask(r)
  <2>1. /\ q'.folds = <<>> /\ q'.columns = <<>> /\ q'.measures = {}
        /\ DOMAIN <<>> = {}
    BY <1>1, AskedNow, NoneIs
  <2> QED BY <2>1 DEF FoldsTyped, ColumnsTyped
<1>2. CASE ~\E r \in Requests : Ask(r)
  <2>1. cube' = cube /\ q'.request = q.request
    BY <1>2, Writers DEF OrdersGrow, Written
  <2>2. CASE q'.measures = q.measures /\ q'.columns = q.columns /\ q'.folds = q.folds /\ ~TakeMeasures
    <3>1. FoldsTyped'
      BY <2>2 DEF FoldsTyped
    <3>2. q'.pc \in Built => q.pc \in Built
      BY <1>2, <2>2, Writers DEF OrdersGrow, Led
    <3>3. ColumnsTyped'
      BY <2>1, <2>2, <3>2 DEF ColumnsTyped, ColumnFits
    <3> QED BY <3>1, <3>3
  <2>3. CASE TakeMeasures /\ q'.pc # "refused"
    <3>1. FoldsTyped'
      BY <2>3, MeasuresTaken DEF FoldsTyped
    <3>2. /\ \A n \in DOMAIN q'.columns :
                /\ n \notin Axis
                /\ IF q'.columns[n] = None THEN n \in q'.measures
                   ELSE /\ q'.columns[n] \in DOMAIN Formulas
                        /\ \A s \in Range(Slots[q'.columns[n]]) : s.name \in q'.measures
          /\ q'.measures \cap Axis = {}
          /\ q'.measures # {} => cube.measureAxis \notin q.request.groupBy
      BY <2>3, MeasuresTaken
    <3>3. ColumnsTyped'
      BY <2>1, <3>2 DEF ColumnsTyped, ColumnFits
    <3> QED BY <3>1, <3>3
  <2>4. CASE TakeMeasures /\ q'.pc = "refused"
    <3>1. q' = [q EXCEPT !.pc = "refused"]
      BY <2>4 DEF TakeMeasures, Refuse, OrdersGrow, Fields
    <3>2. q'.measures = q.measures /\ q'.columns = q.columns /\ q'.folds = q.folds
      BY <3>1 DEF OrdersGrow, Fields
    <3>3. FoldsTyped'
      BY <3>2 DEF FoldsTyped
    <3>4. ColumnsTyped'
      BY <2>1, <2>4, <3>2 DEF ColumnsTyped, ColumnFits, Built, Running
    <3> QED BY <3>3, <3>4
  <2> QED BY <1>2, <2>2, <2>3, <2>4, Writers DEF OrdersGrow, Written
<1> QED BY <1>1, <1>2

LEMMA AllColumnsAre ==
  ASSUME OrdersGrow
  PROVE  \A e : IsAll(e) => Range(ColumnsOf(e)) =
                {[e EXCEPT !.name = m] : m \in Range(known[cube.measureAxis])}
  BY ColumnsAre

LEMMA AskedStays ==
  ASSUME OrdersGrow, LeavesKnown, [Next]_vars, IsList(q.request.measures), OrdersGrow',
         q'.request = q.request
  PROVE  Range(Asked) \subseteq Range(Asked')
<1>1. cube' = cube /\ \A a \in Axis : Range(known[a]) \subseteq Range(known'[a])
  BY KnownGrows
<1>2. \A x : x \in Range(Asked) => \E e \in Range(q.request.measures) : x \in Range(ColumnsOf(e))
  BY AskedAre
<1>3. (OrdersGrow /\ IsList(q.request.measures))'
  OBVIOUS
<1>4. (\A x : x \in Range(Asked) <=>
                   \E e \in Range(q.request.measures) : x \in Range(ColumnsOf(e)))'
  BY <1>3, AskedAre, PTL
<1>7. (\A e : IsAll(e) => Range(ColumnsOf(e)) =
                {[e EXCEPT !.name = m] : m \in Range(known[cube.measureAxis])})'
  BY <1>3, AllColumnsAre, PTL
<1>5. \A x : (\E e \in Range(q.request.measures) : x \in Range(ColumnsOf(e)')) => x \in Range(Asked')
  BY <1>4
<1>6. ASSUME NEW e, NEW x \in Range(ColumnsOf(e)) PROVE x \in Range(ColumnsOf(e)')
  <2>1. IsAll(e)' <=> IsAll(e)
    BY <1>1 DEF IsAll, Sql
  <2>2. CASE ~IsAll(e)
    BY <2>1, <2>2 DEF ColumnsOf
  <2>3. CASE IsAll(e)
    <3>1. cube.measureAxis \in Axis
      BY <2>3, MeasureAxisIs DEF IsAll
    <3>2. PICK m \in Range(known[cube.measureAxis]) : x = [e EXCEPT !.name = m]
      BY <2>3, ColumnsAre
    <3>3. m \in Range(known'[cube.measureAxis])
      BY <1>1, <3>1
    <3>4. IsAll(e)' => Range(ColumnsOf(e)') =
                {[e EXCEPT !.name = n] : n \in Range(known'[cube'.measureAxis])}
      BY <1>7
    <3> QED BY <1>1, <2>1, <2>3, <3>2, <3>3, <3>4
  <2> QED BY <2>2, <2>3
<1> QED BY <1>2, <1>5, <1>6

LEMMA ColumnsMeanStep ==
  ASSUME OrdersGrow, LeavesKnown, RequestStands, ColumnsMean, [Next]_vars, OrdersGrow'
  PROVE  ColumnsMean'
<1>1. CASE \E r \in Requests : Ask(r)
  BY <1>1, AskedNow DEF ColumnsMean, Built, Running
<1>2. CASE ~\E r \in Requests : Ask(r)
  <2> SUFFICES ASSUME q'.pc \in Built
               PROVE  /\ \A n \in DOMAIN q'.columns :
                             \E e \in Range(Asked') : e.name = n /\ e.expr = q'.columns[n]
                      /\ \A e \in Range(q'.request.measures) : e.expr # None => e.name \in DOMAIN q'.columns
    BY DEF ColumnsMean
  <2>1. q'.request = q.request /\ q'.pc \in Running /\ q.pc \in Running
    BY <1>2, Writers DEF OrdersGrow, Written, Led, Built
  <2>2. IsList(q.request.measures)
    BY <2>1 DEF RequestStands, IsRequest
  <2>3. Range(Asked) \subseteq Range(Asked')
    BY <2>1, <2>2, AskedStays
  <2>4. CASE TakeMeasures
    <3>1. q'.pc # "refused"
      BY DEF Built, Running
    <3> QED BY <2>1, <2>3, <2>4, <3>1, MeasuresTaken
  <2>5. CASE ~TakeMeasures
    <3>1. q'.columns = q.columns /\ q.pc \in Built
      BY <1>2, <2>5, Writers DEF OrdersGrow, Written, Led
    <3> QED BY <2>1, <2>3, <3>1 DEF ColumnsMean
  <2> QED BY <2>4, <2>5
<1> QED BY <1>1, <1>2

-------------------------------------------------------------------------------
(* The filters, step by step.                                              *)
LEMMA SeqWider ==
  ASSUME NEW S, NEW T, S \subseteq T, NEW s \in Seq(S)
  PROVE  s \in Seq(T)
<1>1. Len(s) \in Nat /\ s \in [1..Len(s) -> T]
  BY LenProperties
<1> QED BY <1>1, SeqDef

LEMMA ExceptIs ==
  ASSUME OrdersGrow, NEW a \in Axis, NEW m
  PROVE  Except(a, m) \in Seq(Names) /\ Range(Except(a, m)) = Range(known[a]) \ DOMAIN Under(a, m)
<1>1. PICK s, D, I : s = known[a] /\ D = DOMAIN Under(a, m) /\ I = {i \in DOMAIN s : s[i] \notin D}
  OBVIOUS
<1>2. PICK t : t = Only(s, I)
  OBVIOUS
<1>3. Except(a, m) = t
  BY <1>1, <1>2 DEF Except
<1>4. s \in Seq(Members)
  BY <1>1, MembersAreNoAxes
<1>5. t \in Seq(Members) /\ \E f : Kept(t, s, I, Len(s), f)
  BY <1>2, <1>4, OnlyIs
<1>6. PICK f : Kept(t, s, I, Len(s), f)
  BY <1>5
<1>7. Members \subseteq Names
  BY NamesAreSpelled
<1>8. ASSUME NEW x \in Range(t) PROVE x \in Range(s) \ D
  <2>1. PICK i \in 1..Len(t) : x = t[i]
    BY <1>5, SeqIs
  <2>2. f[i] \in 1..Len(s) /\ f[i] \in I /\ x = s[f[i]]
    BY <1>6, <2>1 DEF Kept
  <2>3. x \in Range(s)
    BY <1>4, <2>2, SeqIs
  <2> QED BY <1>1, <2>2, <2>3
<1>9. ASSUME NEW x \in Range(s) \ D PROVE x \in Range(t)
  <2>1. PICK k \in 1..Len(s) : x = s[k]
    BY <1>4, SeqIs
  <2>2. k \in (1..Len(s)) \cap I
    BY <1>1, <1>4, <1>9, <2>1, SeqIs
  <2>3. PICK i \in 1..Len(t) : f[i] = k
    BY <1>6, <2>2 DEF Kept
  <2>4. t[i] = x
    BY <1>6, <2>1, <2>3 DEF Kept
  <2> QED BY <1>5, <2>4, SeqIs
<1>10. t \in Seq(Names)
  BY <1>5, <1>7, SeqWider
<1> QED BY <1>1, <1>3, <1>8, <1>9, <1>10

LEMMA AskedAreKnown ==
  ASSUME OrdersGrow, NEW a \in Axis
  PROVE  Range(q.asked[a]) \subseteq Range(known[a])
<1>1. PICK s, t : s = q.asked[a] /\ t = known[a] /\ s \in Seq(Members) /\ t \in Seq(Members)
                  /\ Begins(s, t)
  BY DEF OrdersGrow, Orders
<1>2. ASSUME NEW x \in Range(s) PROVE x \in Range(t)
  <2>1. PICK i \in 1..Len(s) : s[i] = x
    BY <1>1, SeqIs
  <2>2. Len(s) \in Nat /\ Len(t) \in Nat
    BY <1>1, SeqIs
  <2>3. i \in 1..Len(t) /\ t[i] = x
    BY <1>1, <2>1, <2>2 DEF Begins
  <2> QED BY <1>1, <2>3, SeqIs
<1> QED BY <1>1, <1>2

LEMMA ValuesCover ==
  ASSUME OrdersGrow, NEW f, f.axis \in Axis, f.members \in Seq(Names) \ {<<>>},
         f.op = "notEquals" => Under(f.axis, f.members[1]) # <<>>
  PROVE  FilterValues(f) \in Seq(Names) /\ Covers(f.axis, f, FilterValues(f))
<1>1. CASE f.op = "notEquals"
  <2>1. FilterValues(f) = Except(f.axis, f.members[1])
    BY <1>1 DEF FilterValues
  <2> QED BY <1>1, <2>1, ExceptIs, AskedAreKnown DEF Covers
<1>2. CASE f.op # "notEquals"
  BY <1>2 DEF FilterValues, Covers
<1> QED BY <1>1, <1>2

LEMMA FilterIs ==
  ASSUME RequestStands, q.pc \in Running
  PROVE  /\ q.request.filters \in Seq(Range(q.request.filters))
         /\ Len(q.request.filters) \in Nat /\ DOMAIN q.request.filters = 1..Len(q.request.filters)
         /\ Range(q.request.filters) = {q.request.filters[i] : i \in 1..Len(q.request.filters)}
         /\ \A f \in Range(q.request.filters) : f.axis \in Axis /\ f.members \in Seq(Names) \ {<<>>}
         /\ \A i \in 1..Len(q.request.filters) : q.request.filters[i] \in Range(q.request.filters)
<1>1. IsRequest(q.request)
  BY DEF RequestStands
<1>2. PICK s : s = q.request.filters
  OBVIOUS
<1>3. s \in Seq(Range(s)) /\ \A f \in Range(s) : f.axis \in Axis /\ f.members \in Seq(Names) \ {<<>>}
  BY <1>1, <1>2 DEF IsRequest, IsList
<1>4. /\ Len(s) \in Nat /\ DOMAIN s = 1..Len(s)
      /\ \A i \in 1..Len(s) : s[i] \in Range(s)
  BY <1>3, SeqIs
<1>5. Range(s) = {s[i] : i \in 1..Len(s)}
  BY <1>4 DEF Range
<1> QED BY <1>2, <1>3, <1>4, <1>5

LEMMA FilterAdded ==
  ASSUME OrdersGrow, RequestStands, FiltersMean, AddFilter, q'.pc # "refused"
  PROVE  FiltersMean'
<1>1. PICK f, n : f = q.request.filters[q.at] /\ n = q.at
  OBVIOUS
<1>2. /\ q.pc = "filters" /\ q.pc \in Running /\ DOMAIN q = Fields /\ n \in DOMAIN q.request.filters
      /\ known' = known /\ cube' = cube /\ DOMAIN q.filters = Axis
  BY <1>1 DEF AddFilter, OrdersGrow, Running, FiltersMean
<1>3. /\ f \in Range(q.request.filters) /\ f.axis \in Axis /\ f.members \in Seq(Names) \ {<<>>}
      /\ n \in 1..Len(q.request.filters) /\ Len(q.request.filters) \in Nat
  BY <1>1, <1>2, FilterIs
<1>4. PICK new : new = Combined(q.filters[f.axis], FilterValues(f))
  OBVIOUS
<1>5. /\ f.op = "notEquals" => Under(f.axis, f.members[1]) # <<>>
      /\ q' = [q EXCEPT !.at = n + 1, !.filters = [q.filters EXCEPT ![f.axis] = new]]
  <2>1. \/ q' = [q EXCEPT !.pc = "refused"]
        \/ /\ f.op = "notEquals" => Under(f.axis, f.members[1]) # <<>>
           /\ q' = [q EXCEPT !.at = n + 1, !.filters[f.axis] = new]
    BY <1>1, <1>4 DEF AddFilter, Refuse
  <2> QED BY <1>2, <2>1 DEF Fields
<1>6. /\ q'.at = n + 1 /\ q'.filters = [q.filters EXCEPT ![f.axis] = new] /\ q'.pc = "filters"
      /\ q'.request = q.request /\ q'.asked = q.asked
  BY <1>2, <1>5 DEF Fields
<1>7. FilterValues(f) \in Seq(Names) /\ Covers(f.axis, f, FilterValues(f))
  BY <1>3, <1>5, ValuesCover
<1>8. Handled = {q.request.filters[i] : i \in 1..(n - 1)}
  BY <1>1, <1>2 DEF Handled
<1>9. Handled' = {q.request.filters[i] : i \in 1..n}
  <2>1. q'.at - 1 = n
    BY <1>3, <1>6
  <2> QED BY <1>6, <2>1 DEF Handled
<1>10. Handled \subseteq Handled' /\ f \in Handled' /\ \A g \in Handled' : g \in Handled \/ g = f
  <2>1. \A i \in 1..n : i \in 1..(n - 1) \/ i = n
    BY <1>3
  <2>2. n \in 1..n /\ 1..(n - 1) \subseteq 1..n
    BY <1>3
  <2> QED BY <1>1, <1>8, <1>9, <2>1, <2>2
<1>11. ASSUME NEW a, NEW g, NEW ms PROVE Covers(a, g, ms)' <=> Covers(a, g, ms)
  BY <1>2, <1>6 DEF Covers, Under
<1>12. OneEach' <=> OneEach
  BY <1>6 DEF OneEach
<1>13. ASSUME NEW a \in Axis PROVE FilterMeans(a)'
  <2>1. FilterMeans(a)
    BY <1>2 DEF FiltersMean
  <2>2. CASE a # f.axis
    <3>1. q'.filters[a] = q.filters[a]
      BY <1>2, <1>6, <2>2
    <3>2. q.filters[a] = None => \A g \in Handled' : g.axis # a
      BY <1>10, <2>1, <2>2 DEF FilterMeans
    <3>3. q.filters[a] # None => q.filters[a] \in Seq(Names)
      BY <2>1 DEF FilterMeans
    <3>4. ASSUME q.filters[a] # None, OneEach
          PROVE  \E g \in Handled' : g.axis = a /\ Covers(a, g, q.filters[a])
      BY <1>10, <2>1, <3>4 DEF FilterMeans
    <3> QED BY <1>11, <1>12, <3>1, <3>2, <3>3, <3>4 DEF FilterMeans
  <2>3. CASE a = f.axis
    <3>1. q'.filters[a] = new
      BY <1>2, <1>6, <2>3
    <3>2. PICK old, v : old = q.filters[a] /\ v = FilterValues(f)
      OBVIOUS
    <3>3. new = v \/ (new = old \o v /\ old # None)
      BY <1>4, <2>3, <3>2 DEF Combined
    <3>4. old # None => old \in Seq(Names)
      BY <2>1, <3>2 DEF FilterMeans
    <3>5. v \in Seq(Names) /\ Covers(a, f, v)
      BY <1>7, <2>3, <3>2
    <3>6. new \in Seq(Names)
      BY <3>3, <3>4, <3>5, JoinIs
    <3>7. ASSUME OneEach PROVE Covers(a, f, new)
      <4>1. CASE new = v
        BY <3>5, <4>1
      <4>2. CASE new = old \o v /\ old # None
        <5>1. PICK g \in Handled : g.axis = a /\ Covers(a, g, old)
          BY <2>1, <3>2, <3>7, <4>2 DEF FilterMeans
        <5>2. g \in Range(q.request.filters)
          <6>1. PICK i \in 1..(n - 1) : g = q.request.filters[i]
            BY <1>8, <5>1
          <6>2. i \in 1..Len(q.request.filters)
            BY <1>3
          <6> QED BY <1>2, <6>1, <6>2, FilterIs
        <5>3. g = f
          BY <1>3, <2>3, <3>7, <5>1, <5>2 DEF OneEach
        <5>4. Range(new) = Range(old) \cup Range(v)
          BY <3>4, <3>5, <4>2, JoinIs
        <5> QED BY <3>5, <5>1, <5>3, <5>4 DEF Covers
      <4> QED BY <3>3, <4>1, <4>2
    <3>8. new # None
      BY <3>6, NoneIsNothing
    <3> QED BY <1>10, <1>11, <1>12, <2>3, <3>1, <3>6, <3>7, <3>8 DEF FilterMeans
  <2> QED BY <2>2, <2>3
<1>14. DOMAIN q'.filters = Axis /\ q'.at \in 1..(Len(q'.request.filters) + 1)
  BY <1>2, <1>3, <1>6
<1> QED BY <1>6, <1>13, <1>14 DEF FiltersMean

LEMMA FiltersEnd ==
  ASSUME OrdersGrow, RequestStands, FiltersMean, EndFilters, q'.pc # "refused"
  PROVE  FiltersMean'
<1>1. /\ q.pc = "filters" /\ q.pc \in Running /\ DOMAIN q = Fields /\ DOMAIN q.filters = Axis
      /\ known' = known /\ cube' = cube /\ q.at > Len(q.request.filters)
      /\ q.at \in 1..(Len(q.request.filters) + 1)
  BY DEF EndFilters, OrdersGrow, Running, FiltersMean
<1>2. PICK new : new = [a \in Axis |-> IF a \in Defaulted /\ q.filters[a] = None
                                         THEN <<Default[a]>> ELSE q.filters[a]]
  OBVIOUS
<1>3. /\ q'.pc = "order" /\ q'.filters = new /\ q'.request = q.request /\ q'.asked = q.asked
  <2>1. PICK den : \/ q' = [q EXCEPT !.pc = "refused"]
                   \/ q' = [q EXCEPT !.pc = "order", !.at = 1, !.filters = new, !.denied = den]
    BY <1>2 DEF EndFilters, Refuse
  <2> QED BY <1>1, <2>1 DEF Fields
<1>4. Handled = Range(q.request.filters)
  <2>1. Len(q.request.filters) \in Nat
    BY <1>1, FilterIs
  <2>2. q.at - 1 = Len(q.request.filters)
    BY <1>1, <2>1
  <2>3. Range(q.request.filters) = {q.request.filters[i] : i \in 1..Len(q.request.filters)}
    BY <1>1, FilterIs
  <2> QED BY <1>1, <2>2, <2>3 DEF Handled
<1>5. PICK dflt : dflt = [a \in Axis |-> [axis |-> a, op |-> "equals", members |-> <<Default[a]>>]]
  OBVIOUS
<1>6. Handled' = Range(q.request.filters) \cup
                 {dflt[a] : a \in {b \in Defaulted : \A f \in Range(q.request.filters) : f.axis # b}}
  <2>1. Handled' = Meant'
    BY <1>3 DEF Handled
  <2>2. Meant' = Meant /\ Defaulted \subseteq Axis
    BY <1>1, <1>3 DEF Meant, Defaulted, Sql
  <2>3. Meant = Range(q.request.filters) \cup
                 {dflt[a] : a \in {b \in Defaulted : \A f \in Range(q.request.filters) : f.axis # b}}
    BY <1>5, <2>2 DEF Meant
  <2> QED BY <2>1, <2>2, <2>3
<1>7. ASSUME NEW a, NEW g, NEW ms PROVE Covers(a, g, ms)' <=> Covers(a, g, ms)
  BY <1>1, <1>3 DEF Covers, Under
<1>8. OneEach' <=> OneEach
  BY <1>3 DEF OneEach
<1>9. ASSUME NEW a \in Axis PROVE FilterMeans(a)'
  <2>1. FilterMeans(a)
    BY <1>1 DEF FiltersMean
  <2>2. CASE q.filters[a] # None
    <3>1. q'.filters[a] = q.filters[a] /\ q.filters[a] \in Seq(Names)
      BY <1>2, <1>3, <2>1, <2>2 DEF FilterMeans
    <3>2. OneEach => \E g \in Handled' : g.axis = a /\ Covers(a, g, q.filters[a])
      BY <1>4, <1>6, <2>1, <2>2 DEF FilterMeans
    <3> QED BY <1>7, <1>8, <2>2, <3>1, <3>2 DEF FilterMeans
  <2>3. CASE q.filters[a] = None /\ a \notin Defaulted
    <3>1. q'.filters[a] = None
      BY <1>2, <1>3, <2>3
    <3>2. ASSUME NEW g \in Handled' PROVE g.axis # a
      <4>1. CASE g \in Range(q.request.filters)
        BY <1>4, <2>1, <2>3, <4>1 DEF FilterMeans
      <4>2. CASE g \notin Range(q.request.filters)
        <5>1. PICK b \in Defaulted : g = dflt[b]
          BY <1>6, <4>2
        <5>2. b \in Axis
          BY <5>1 DEF Defaulted
        <5> QED BY <1>5, <2>3, <5>1, <5>2
      <4> QED BY <4>1, <4>2
    <3> QED BY <3>1, <3>2 DEF FilterMeans
  <2>4. CASE q.filters[a] = None /\ a \in Defaulted
    <3>1. q'.filters[a] = <<Default[a]>>
      BY <1>2, <1>3, <2>4
    <3>2. <<Default[a]>> \in Seq(Names)
      BY NamesAreSpelled, OneIs
    <3>3. <<Default[a]>> # None
      BY <3>2, NoneIsNothing
    <3>4. dflt[a] \in Handled'
      BY <1>4, <1>6, <2>1, <2>4 DEF FilterMeans
    <3>5. dflt[a].axis = a /\ dflt[a].op = "equals" /\ dflt[a].members = <<Default[a]>>
      BY <1>5
    <3>6. Covers(a, dflt[a], <<Default[a]>>)
      BY <3>5 DEF Covers
    <3> QED BY <1>7, <3>1, <3>2, <3>3, <3>4, <3>5, <3>6 DEF FilterMeans
  <2> QED BY <2>2, <2>3, <2>4
<1>10. DOMAIN q'.filters = Axis
  BY <1>2, <1>3
<1> QED BY <1>3, <1>9, <1>10 DEF FiltersMean

(* While leaves are added, what the filters keep stays what they keep.     *)
LEMMA CoversStays ==
  ASSUME OrdersGrow, LeavesKnown, [Next]_vars, q'.asked = q.asked, NEW a \in Axis, NEW f, NEW ms,
         Covers(a, f, ms)
  PROVE  Covers(a, f, ms)'
<1>1. CASE f.op = "notEquals"
  <2>1. Under(a, f.members[1]) # <<>>
    BY <1>1 DEF Covers
  <2>2. Under(a, f.members[1])' = Under(a, f.members[1])
    BY <2>1, UnderStays
  <2>3. Range(known[a]) \subseteq Range(known'[a])
    BY KnownGrows
  <2>4. PICK u : u = Under(a, f.members[1])
    OBVIOUS
  <2>5. /\ Range(ms) \subseteq Range(known'[a]) \ DOMAIN u
        /\ Range(q'.asked[a]) \ DOMAIN u \subseteq Range(ms)
    BY <1>1, <2>3, <2>4 DEF Covers
  <2> QED BY <1>1, <2>1, <2>2, <2>4, <2>5 DEF Covers
<1>2. CASE f.op # "notEquals"
  BY <1>2 DEF Covers
<1> QED BY <1>1, <1>2

LEMMA FiltersStep ==
  ASSUME OrdersGrow, LeavesKnown, RequestStands, FiltersMean, [Next]_vars
  PROVE  FiltersMean'
<1>1. CASE \E r \in Requests : Ask(r)
  <2>1. /\ q'.filters = [a \in Axis |-> None] /\ q'.at = 1 /\ q'.pc \in {"refused", "measures"}
    BY <1>1, AskedNow
  <2>2. ASSUME q'.pc = "measures", NEW a \in Axis PROVE FilterMeans(a)'
    <3>1. Handled' = {}
      BY <2>2 DEF Handled
    <3> QED BY <2>1, <3>1 DEF FilterMeans
  <2> QED BY <2>1, <2>2 DEF FiltersMean, Running
<1>2. CASE ~\E r \in Requests : Ask(r)
  <2>1. Written /\ Led /\ cube' = cube
    BY <1>2, Writers DEF OrdersGrow
  <2>2. CASE AddFilter \/ EndFilters
    <3>1. CASE q'.pc # "refused"
      BY <2>2, <3>1, FilterAdded, FiltersEnd
    <3>2. CASE q'.pc = "refused"
      <4>1. q' = [q EXCEPT !.pc = "refused"]
        BY <2>2, <3>2 DEF AddFilter, EndFilters, Refuse, OrdersGrow, Fields
      <4>2. q'.filters = q.filters
        BY <4>1 DEF OrdersGrow, Fields
      <4> QED BY <3>2, <4>2 DEF FiltersMean, Running
    <3> QED BY <3>1, <3>2
  <2>3. CASE ~(AddFilter \/ EndFilters)
    <3>1. q'.filters = q.filters /\ q'.request = q.request /\ q'.asked = q.asked
      BY <2>1, <2>3 DEF Written
    <3>2. CASE q'.pc \notin Running
      BY <3>1, <3>2 DEF FiltersMean, Running
    <3>3. CASE TakeMeasures /\ q'.pc \in Running
      <4>1. q.pc = "measures" /\ q'.pc = "filters" /\ q'.at = q.at /\ q.at = 1
        BY <3>3, TakeMeasuresMoves DEF OrdersGrow, Moves, Fields, FiltersMean, Running
      <4>2. Handled = {} /\ Handled' = {}
        <5>1. 1..(1 - 1) = {}
          OBVIOUS
        <5> QED BY <4>1, <5>1 DEF Handled
      <4>3. ASSUME NEW a \in Axis PROVE FilterMeans(a)'
        <5>1. FilterMeans(a)
          BY <4>1 DEF FiltersMean, Running
        <5> QED BY <3>1, <4>2, <5>1 DEF FilterMeans, OneEach
      <4>4. Len(q.request.filters) \in Nat
        BY <4>1, FilterIs DEF Running
      <4> QED BY <3>1, <4>1, <4>3, <4>4 DEF FiltersMean
    <3>4. CASE ~TakeMeasures /\ q'.pc \in Running
      <4>1. q.pc \in Running /\ Handled' = Handled
        <5>1. q.pc \in Running
          BY <2>1, <3>4 DEF Led
        <5>2. CASE q'.pc = "measures"
          <6>1. q.pc = "measures"
            BY <2>1, <5>2 DEF Led
          <6> QED BY <5>1, <5>2, <6>1 DEF Handled
        <5>3. CASE q'.pc = "filters"
          <6>1. q' = q
            BY <2>1, <2>3, <3>4, <5>3 DEF Led
          <6>2. Meant' = Meant
            BY <2>1, <3>1 DEF Meant, Defaulted, Sql
          <6> QED BY <5>1, <6>1, <6>2 DEF Handled
        <5>4. CASE q'.pc \in Filtered
          <6>1. q.pc \in Filtered
            BY <2>1, <2>3, <5>4 DEF Led
          <6>2. Meant' = Meant
            BY <2>1, <3>1 DEF Meant, Defaulted, Sql
          <6> QED BY <5>4, <6>1, <6>2 DEF Handled, Filtered, Built, Running
        <5> QED BY <3>4, <5>1, <5>2, <5>3, <5>4 DEF Filtered, Built
      <4>2. ASSUME NEW a \in Axis PROVE FilterMeans(a)'
        <5>1. FilterMeans(a)
          BY <4>1 DEF FiltersMean
        <5>2. CASE q.filters[a] = None
          BY <3>1, <4>1, <5>1, <5>2 DEF FilterMeans
        <5>3. CASE q.filters[a] # None
          <6>1. ASSUME OneEach PROVE \E f \in Handled' : f.axis = a /\ Covers(a, f, q.filters[a])'
            <7>1. PICK f \in Handled : f.axis = a /\ Covers(a, f, q.filters[a])
              BY <5>1, <5>3, <6>1 DEF FilterMeans
            <7>2. PICK ms : ms = q.filters[a] /\ ms = q'.filters[a]
              BY <3>1
            <7>3. Covers(a, f, ms)'
              BY <3>1, <7>1, <7>2, CoversStays
            <7>4. Covers(a, f, q.filters[a])'
              BY <7>2, <7>3 DEF Covers
            <7> QED BY <4>1, <7>1, <7>4
          <6>2. OneEach' <=> OneEach
            BY <3>1 DEF OneEach
          <6> QED BY <3>1, <5>1, <5>3, <6>1, <6>2 DEF FilterMeans
        <5> QED BY <5>2, <5>3
      <4>3. /\ q'.pc = "measures" => q'.at = 1
            /\ q'.pc = "filters" => q'.at \in 1..(Len(q'.request.filters) + 1)
        <5>1. ASSUME q'.pc = "measures" PROVE q'.at = 1
          <6>1. q.pc = "measures"
            BY <2>1, <5>1 DEF Led
          <6>2. q'.at = q.at
            <7>1. ~EnsureDisplayOrder /\ ~Resolve
              BY <6>1 DEF EnsureDisplayOrder, Resolve
            <7> QED BY <2>1, <2>3, <7>1 DEF Written
          <6> QED BY <6>1, <6>2 DEF FiltersMean
        <5>2. ASSUME q'.pc = "filters" PROVE q'.at \in 1..(Len(q'.request.filters) + 1)
          <6>1. q' = q
            BY <2>1, <2>3, <3>4, <5>2 DEF Led
          <6> QED BY <5>2, <6>1 DEF FiltersMean
        <5> QED BY <5>1, <5>2
      <4> QED BY <3>1, <4>2, <4>3 DEF FiltersMean
    <3> QED BY <3>2, <3>3, <3>4
  <2> QED BY <2>2, <2>3
<1> QED BY <1>1, <1>2

-------------------------------------------------------------------------------
(* What is hidden and the scope, step by step.                             *)
LEMMA DeniedStep ==
  ASSUME OrdersGrow, LeavesKnown, RequestStands, DeniedMean, [Next]_vars
  PROVE  DeniedMean'
<1>1. CASE \E r \in Requests : Ask(r)
  <2>1. q'.pc \notin Filtered
    BY <1>1, AskedNow DEF Filtered, Built, Running
  <2> QED BY <2>1 DEF DeniedMean
<1>2. CASE ~\E r \in Requests : Ask(r)
  <2>1. Written /\ Led /\ cube' = cube
    BY <1>2, Writers DEF OrdersGrow
  <2>2. q'.request = q.request
    BY <2>1 DEF Written
  <2> SUFFICES ASSUME q'.pc \in Filtered PROVE DeniedMean'
    BY DEF DeniedMean
  <2>0. q.pc \in Running
    <3>1. CASE EndFilters
      BY <3>1 DEF EndFilters, Running
    <3>2. CASE ~EndFilters
      BY <2>1, <3>2 DEF Led, Filtered, Built
    <3> QED BY <3>1, <3>2
  <2>3. \A a \in Axis : Hidden(a)' = Hidden(a)
    <3>1. DenialsKnown
      BY <2>0 DEF RequestStands, IsRequest, DenialsKnown
    <3> QED BY <2>2, <3>1, HiddenStays
  <2>4. [a \in Axis |-> Hidden(a)]' = [a \in Axis |-> Hidden(a)]
    BY <2>3
  <2>5. CASE EndFilters
    <3>1. PICK new, den : /\ den = [a \in Axis |-> Hidden(a)]
                          /\ \/ q' = [q EXCEPT !.pc = "refused"]
                             \/ q' = [q EXCEPT !.pc = "order", !.at = 1, !.filters = new, !.denied = den]
      <4>1. PICK new : new = [a \in Axis |-> IF a \in Defaulted /\ q.filters[a] = None
                                               THEN <<Default[a]>> ELSE q.filters[a]]
        OBVIOUS
      <4>2. PICK den : den = [a \in Axis |-> Hidden(a)]
        OBVIOUS
      <4> QED BY <2>5, <4>1, <4>2 DEF EndFilters, Refuse
    <3>2. CASE q' = [q EXCEPT !.pc = "refused"]
      <4>1. q'.pc \notin Filtered
        BY <3>2 DEF OrdersGrow, Fields, Filtered, Built, Running
      <4> QED BY <4>1 DEF DeniedMean
    <3>3. CASE q' = [q EXCEPT !.pc = "order", !.at = 1, !.filters = new, !.denied = den]
      <4>1. q'.denied = den
        BY <3>3 DEF OrdersGrow, Fields
      <4>2. q'.denied = [a \in Axis |-> Hidden(a)]
        BY <3>1, <4>1
      <4> QED BY <2>4, <4>2 DEF DeniedMean
    <3> QED BY <3>1, <3>2, <3>3
  <2>6. CASE ~EndFilters
    <3>1. q'.denied = q.denied /\ (q'.pc \in Filtered => q.pc \in Filtered)
      BY <2>1, <2>6 DEF Written, Led
    <3> QED BY <2>4, <3>1 DEF DeniedMean
  <2> QED BY <2>5, <2>6
<1> QED BY <1>1, <1>2

LEMMA ScopeIs ==
  ASSUME OrdersGrow, LeavesKnown, NEW a \in Axis, NEW ms, ms \in Seq(Names)
  PROVE  /\ \A l : l \in DOMAIN Scope(a, ms) <=> \E x \in Range(ms) : l \in DOMAIN Stored(a, x)
         /\ \A l \in DOMAIN Scope(a, ms) :
                /\ Scope(a, ms)[l] \in Int
                /\ \E x \in Range(ms) : l \in DOMAIN Stored(a, x) /\ Scope(a, ms)[l] = Stored(a, x)[l]
         /\ Scope(a, ms) # None
<1>1. PICK n \in Nat : /\ n = Len(ms) /\ DOMAIN ms = 1..n
                       /\ \A i \in 1..n : ms[i] \in Range(ms)
                       /\ \A x \in Range(ms) : \E i \in 1..n : ms[i] = x
  BY SeqIs
<1>2. PICK st : st = [i \in 1..n |-> Stored(a, ms[i])]
  OBVIOUS
<1>3. PICK D, s : /\ D = UNION {DOMAIN st[i] : i \in 1..n}
                  /\ s = [l \in D |-> st[Max({i \in 1..n : l \in DOMAIN st[i]})][l]]
  OBVIOUS
<1>4. Scope(a, ms) = s
  <2>1. D = UNION {DOMAIN Stored(a, ms[i]) : i \in DOMAIN ms}
    BY <1>1, <1>2, <1>3
  <2>2. ASSUME NEW l \in D
        PROVE  st[Max({i \in 1..n : l \in DOMAIN st[i]})][l]
                 = Stored(a, ms[Max({i \in DOMAIN ms : l \in DOMAIN Stored(a, ms[i])})])[l]
    <3>1. PICK I : I = {i \in 1..n : l \in DOMAIN st[i]}
      OBVIOUS
    <3>2. I = {i \in DOMAIN ms : l \in DOMAIN Stored(a, ms[i])}
      BY <1>1, <1>2, <3>1
    <3>3. I \subseteq 1..n /\ I # {}
      BY <1>3, <3>1
    <3>4. Max(I) \in 1..n
      BY <3>3, MaxIs
    <3>5. st[Max(I)] = Stored(a, ms[Max(I)])
      BY <1>2, <3>4
    <3> QED BY <3>1, <3>2, <3>5
  <2> QED BY <1>3, <2>1, <2>2 DEF Scope
<1>5. ASSUME NEW l PROVE l \in D <=> \E x \in Range(ms) : l \in DOMAIN Stored(a, x)
  BY <1>1, <1>2, <1>3
<1>6. ASSUME NEW l \in D
      PROVE  /\ s[l] \in Int
             /\ \E x \in Range(ms) : l \in DOMAIN Stored(a, x) /\ s[l] = Stored(a, x)[l]
  <2>1. PICK I : I = {i \in 1..n : l \in DOMAIN st[i]}
    OBVIOUS
  <2>2. I \subseteq 1..n /\ I # {}
    BY <1>3, <2>1
  <2>3. PICK k \in I : k = Max(I)
    BY <2>2, MaxIs
  <2>4. s[l] = st[k][l]
    BY <1>3, <2>1, <2>3
  <2>5. k \in 1..n /\ st[k] = Stored(a, ms[k]) /\ l \in DOMAIN st[k]
    BY <1>2, <2>1
  <2>6. ms[k] \in Range(ms) /\ l \in DOMAIN Stored(a, ms[k]) /\ s[l] = Stored(a, ms[k])[l]
    BY <1>1, <2>4, <2>5
  <2>7. Stored(a, ms[k])[l] \in Int
    BY <2>6, StoredIs
  <2> QED BY <2>6, <2>7
<1>7. D \subseteq Names
  BY <1>5, StoredIs
<1>8. DOMAIN s = D
  BY <1>3
<1>9. s \in [D -> Int]
  BY <1>3, <1>6
<1>10. s # None
  BY <1>7, <1>9, NoneIsNothing
<1> QED BY <1>4, <1>5, <1>6, <1>8, <1>10

LEMMA ScopeResolved ==
  ASSUME OrdersGrow, LeavesKnown, FiltersMean, ScopeTyped, ScopesMean, Resolve, q'.pc # "refused"
  PROVE  /\ ScopesMean' /\ DOMAIN q'.scope = Axis /\ \A b \in Axis : Weighing(b)'
<1>1. PICK a, ms : a = q.at /\ ms = q.filters[a]
  OBVIOUS
<1>2. /\ q.pc = "resolve" /\ a \in Axis /\ DOMAIN q = Fields /\ DOMAIN q.filters = Axis
      /\ known' = known /\ cube' = cube
  BY <1>1 DEF Resolve, ScopesMean, OrdersGrow, FiltersMean
<1>3. PICK v : v = IF ms = None THEN None ELSE Scope(a, ms)
  OBVIOUS
<1>4. /\ ms # None => \A i \in DOMAIN ms : Stored(a, ms[i]) # <<>>
      /\ q'.scope = [q.scope EXCEPT ![a] = v] /\ q'.filters = q.filters
      /\ q'.pc = IF a < Dims THEN "resolve" ELSE "scan"
      /\ q'.at = IF a < Dims THEN a + 1 ELSE 1
  <2>1. \/ q' = [q EXCEPT !.pc = "refused"]
        \/ /\ ms # None => \A i \in DOMAIN ms : Stored(a, ms[i]) # <<>>
           /\ q' = [q EXCEPT !.scope = [q.scope EXCEPT ![a] = v],
                             !.at = IF a < Dims THEN a + 1 ELSE 1,
                             !.pc = IF a < Dims THEN q.pc ELSE "scan"]
    BY <1>1, <1>3 DEF Resolve, Refuse
  <2>2. q' # [q EXCEPT !.pc = "refused"]
    BY <1>2 DEF Fields
  <2>3. q' = [q EXCEPT !.scope = [q.scope EXCEPT ![a] = v],
                       !.at = IF a < Dims THEN a + 1 ELSE 1,
                       !.pc = IF a < Dims THEN q.pc ELSE "scan"]
    BY <2>1, <2>2
  <2> QED BY <1>2, <2>1, <2>2, <2>3 DEF Fields
<1>5. DOMAIN q.scope = Axis /\ \A b \in Axis : Weighing(b)
  BY DEF ScopeTyped
<1>6. q'.scope[a] = v /\ DOMAIN q'.scope = Axis /\ \A b \in Axis : b # a => q'.scope[b] = q.scope[b]
  BY <1>2, <1>4, <1>5
<1>7. ms # None => ms \in Seq(Names)
  <2>1. FilterMeans(a)
    BY <1>2 DEF FiltersMean, Running
  <2> QED BY <1>1, <2>1 DEF FilterMeans
<1>8. ASSUME NEW b \in Axis PROVE Weighing(b)'
  <2>1. CASE b # a
    BY <1>5, <1>6, <2>1 DEF Weighing
  <2>2. CASE b = a /\ ms = None
    BY <1>3, <1>6, <2>2 DEF Weighing
  <2>3. CASE b = a /\ ms # None
    <3>1. v = Scope(a, ms) /\ \A l \in DOMAIN v : v[l] \in Int
      BY <1>2, <1>3, <1>7, <2>3, ScopeIs
    <3> QED BY <1>6, <2>3, <3>1 DEF Weighing
  <2> QED BY <2>1, <2>2, <2>3
<1>9. ASSUME NEW b, NEW x PROVE Stored(b, x)' = Stored(b, x)
  BY <1>2 DEF Stored, Under
<1>10. ScopeMean(a)'
  <2>1. CASE ms = None
    BY <1>1, <1>3, <1>4, <1>6, <2>1 DEF ScopeMean
  <2>2. CASE ms # None
    <3>1. /\ \A l : l \in DOMAIN v <=> \E x \in Range(ms) : l \in DOMAIN Stored(a, x)
          /\ \A l \in DOMAIN v :
                 \E x \in Range(ms) : l \in DOMAIN Stored(a, x) /\ v[l] = Stored(a, x)[l]
          /\ v # None
      BY <1>2, <1>3, <1>7, <2>2, ScopeIs
    <3>2. \A x \in Range(ms) : Stored(a, x) # <<>>
      BY <1>4, <1>7, <2>2, SeqIs
    <3>3. q'.filters[a] = ms /\ q'.scope[a] = v
      BY <1>1, <1>4, <1>6
    <3> QED BY <1>9, <2>2, <3>1, <3>2, <3>3 DEF ScopeMean
  <2> QED BY <2>1, <2>2
<1>11. ASSUME NEW b \in Scoped' PROVE ScopeMean(b)'
  <2>1. b \in Axis /\ (b = a \/ b \in Scoped)
    <3>1. Dims \in Nat /\ Axis = 1..Dims
      BY DimsAreCounted DEF Axis
    <3>2. Scoped = 1..(a - 1)
      BY <1>1, <1>2 DEF Scoped
    <3>3. CASE a < Dims
      <4>1. Scoped' = 1..a
        <5>1. (a + 1) - 1 = a
          BY <1>2, <3>1
        <5> QED BY <1>4, <3>3, <5>1 DEF Scoped
      <4> QED BY <1>2, <3>1, <3>2, <3>3, <4>1
    <3>4. CASE ~(a < Dims)
      <4>1. Scoped' = Axis /\ a = Dims
        BY <1>2, <1>4, <3>1, <3>4 DEF Scoped
      <4> QED BY <3>1, <3>2, <4>1
    <3> QED BY <3>3, <3>4
  <2>2. CASE b = a
    BY <1>10, <2>2
  <2>3. CASE b # a
    <3>1. ScopeMean(b)
      BY <2>1, <2>3 DEF ScopesMean
    <3>2. q'.filters[b] = q.filters[b] /\ q'.scope[b] = q.scope[b]
      BY <1>4, <1>6, <2>1, <2>3
    <3> QED BY <1>9, <3>1, <3>2 DEF ScopeMean
  <2> QED BY <2>2, <2>3
<1>12. q'.pc = "resolve" => q'.at \in Axis
  BY <1>2, <1>4, DimsAreCounted DEF Axis
<1> QED BY <1>6, <1>8, <1>11, <1>12 DEF ScopesMean

LEMMA ScopesStep ==
  ASSUME OrdersGrow, LeavesKnown, FiltersMean, ScopeTyped, ScopesMean, [Next]_vars
  PROVE  ScopesMean' /\ DOMAIN q'.scope = Axis /\ \A a \in Axis : Weighing(a)'
<1>1. DOMAIN q.scope = Axis /\ \A a \in Axis : Weighing(a)
  BY DEF ScopeTyped
<1>2. CASE \E r \in Requests : Ask(r)
  <2>1. q'.scope = [a \in Axis |-> None] /\ q'.pc \in {"refused", "measures"}
    BY <1>2, AskedNow
  <2>2. Scoped' = {} /\ q'.pc # "resolve"
    BY <2>1 DEF Scoped
  <2> QED BY <2>1, <2>2 DEF ScopesMean, Weighing
<1>3. CASE ~\E r \in Requests : Ask(r)
  <2>1. Written /\ Led /\ cube' = cube
    BY <1>3, Writers DEF OrdersGrow
  <2>2. CASE Resolve /\ q'.pc # "refused"
    BY <2>2, ScopeResolved
  <2>3. CASE Resolve /\ q'.pc = "refused"
    <3>1. q' = [q EXCEPT !.pc = "refused"]
      BY <2>3 DEF Resolve, Refuse, OrdersGrow, Fields
    <3>2. q'.scope = q.scope
      BY <3>1 DEF OrdersGrow, Fields
    <3>3. Scoped' = {}
      BY <2>3 DEF Scoped
    <3> QED BY <1>1, <2>3, <3>2, <3>3 DEF ScopesMean, Weighing
  <2>4. CASE ~Resolve
    <3>1. q'.scope = q.scope
      BY <2>1, <2>4 DEF Written
    <3>2. \A a \in Axis : Weighing(a)'
      BY <1>1, <3>1 DEF Weighing
    <3>3. CASE AddFilter \/ EndFilters
      <4>1. q'.pc \in {"filters", "order", "refused"}
        BY <3>3, AddFilterMoves, EndFiltersMoves DEF OrdersGrow
      <4>2. Scoped' = {} /\ q'.pc # "resolve"
        BY <4>1 DEF Scoped
      <4> QED BY <1>1, <3>1, <3>2, <4>2 DEF ScopesMean
    <3>4. CASE EnsureDisplayOrder
      <4>1. q'.pc = "order" \/ (q'.pc = "resolve" /\ q'.at = 1)
        BY <3>4 DEF EnsureDisplayOrder, OrdersGrow, Fields
      <4>2. Scoped' = {} /\ (q'.pc = "resolve" => q'.at \in Axis)
        <5>1. 1..(1 - 1) = {} /\ 1 \in Axis
          BY DimsAreCounted DEF Axis
        <5> QED BY <4>1, <5>1 DEF Scoped
      <4> QED BY <1>1, <3>1, <3>2, <4>2 DEF ScopesMean
    <3>5. CASE ~(AddFilter \/ EndFilters \/ EnsureDisplayOrder)
      <4>1. q'.filters = q.filters /\ q'.at = q.at
        BY <2>1, <2>4, <3>5 DEF Written
      <4>2. Scoped' \subseteq Scoped /\ (q'.pc = "resolve" => q.pc = "resolve")
        <5>1. CASE q'.pc = "resolve"
          <6>1. q' = q
            BY <2>1, <2>4, <3>5, <5>1 DEF Led
          <6> QED BY <5>1, <6>1 DEF Scoped
        <5>2. CASE q'.pc \in {"scan", "fold", "join", "page", "done"}
          <6>1. q.pc \in {"scan", "fold", "join", "page", "done"}
            <7>1. Scan => q.pc = "scan"
              BY DEF Scan
            <7>2. Calculate => q.pc = "fold"
              BY DEF Calculate
            <7>3. Join => q.pc = "join"
              BY DEF Join
            <7>4. OrderAndLimit => q.pc = "page"
              BY DEF OrderAndLimit
            <7> QED BY <2>1, <2>4, <5>2, <7>1, <7>2, <7>3, <7>4 DEF Led
          <6>2. Scoped = Axis /\ Scoped' = Axis
            BY <5>2, <6>1 DEF Scoped
          <6> QED BY <5>2, <6>2
        <5>3. CASE q'.pc \notin {"resolve", "scan", "fold", "join", "page", "done"}
          BY <5>3 DEF Scoped
        <5> QED BY <5>1, <5>2, <5>3
      <4>3. ASSUME NEW a \in Scoped' PROVE ScopeMean(a)'
        <5>1. ScopeMean(a) /\ a \in Axis
          <6>1. a \in Scoped
            BY <4>2
          <6>2. a \in Axis
            <7>1. q.pc = "resolve" => q.at \in Axis
              BY DEF ScopesMean
            <7> QED BY <6>1, <7>1, DimsAreCounted DEF Scoped, Axis
          <6> QED BY <6>1, <6>2 DEF ScopesMean
        <5>2. CASE q.filters[a] = None
          BY <3>1, <4>1, <5>1, <5>2 DEF ScopeMean
        <5>3. CASE q.filters[a] # None
          <6>1. PICK ms, s : /\ ms = q.filters[a] /\ s = q.scope[a]
                             /\ ms = q'.filters[a] /\ s = q'.scope[a]
            BY <3>1, <4>1
          <6>2. /\ s # None /\ ms # None
                /\ \A x \in Range(ms) : Stored(a, x) # <<>>
                /\ \A l : l \in DOMAIN s <=> \E x \in Range(ms) : l \in DOMAIN Stored(a, x)
                /\ \A l \in DOMAIN s : \E x \in Range(ms) :
                       l \in DOMAIN Stored(a, x) /\ s[l] = Stored(a, x)[l]
            BY <5>1, <5>3, <6>1 DEF ScopeMean
          <6>3. \A x \in Range(ms) : Stored(a, x)' = Stored(a, x)
            BY <5>1, <6>2, StoredStays
          <6>4. /\ \A x \in Range(ms) : Stored(a, x)' # <<>>
                /\ \A l : l \in DOMAIN s <=> \E x \in Range(ms) : l \in DOMAIN Stored(a, x)'
                /\ \A l \in DOMAIN s : \E x \in Range(ms) :
                       l \in DOMAIN Stored(a, x)' /\ s[l] = Stored(a, x)'[l]
            BY <6>2, <6>3
          <6> QED BY <6>1, <6>2, <6>4 DEF ScopeMean
        <5> QED BY <5>2, <5>3
      <4>4. q'.pc = "resolve" => q'.at \in Axis
        BY <4>1, <4>2 DEF ScopesMean
      <4> QED BY <1>1, <3>1, <3>2, <4>3, <4>4 DEF ScopesMean
    <3> QED BY <3>3, <3>4, <3>5
  <2> QED BY <2>2, <2>3, <2>4
<1> QED BY <1>2, <1>3

LEMMA ScopeTypedStep ==
  ASSUME OrdersGrow, LeavesKnown, FiltersMean, ScopeTyped, ScopesMean, [Next]_vars
  PROVE  ScopeTyped'
<1>1. DOMAIN q'.scope = Axis /\ \A a \in Axis : Weighing(a)'
  BY ScopesStep
<1>2. CASE \E r \in Requests : Ask(r)
  <2>1. q'.pc # "fold"
    BY <1>2, AskedNow
  <2> QED BY <1>1, <2>1 DEF ScopeTyped
<1>3. CASE ~\E r \in Requests : Ask(r)
  <2> SUFFICES ASSUME q'.pc = "fold", NEW c \in q'.left PROVE InScope(c)'
    BY <1>1 DEF ScopeTyped
  <2>1. Written /\ Led
    BY <1>3, Writers DEF OrdersGrow
  <2>2. CASE Scan
    <3>1. q'.left = {d \in DOMAIN cells : InScope(d)} /\ q'.scope = q.scope
      BY <2>2, ScanMoves DEF OrdersGrow, Moves, Fields
    <3>2. InScope(c)
      BY <3>1
    <3> QED BY <3>1, <3>2 DEF InScope
  <2>3. CASE ~Scan
    <3>1. q.pc = "fold"
      BY <2>1, <2>3 DEF Led
    <3>2. q'.scope = q.scope
      <4>1. ~Resolve
        BY <3>1 DEF Resolve
      <4> QED BY <2>1, <4>1 DEF Written
    <3>3. c \in q.left
      <4>1. CASE Folding
        <5>1. PICK d \in q.left : Fold(d)
          BY <4>1 DEF Folding
        <5>2. q'.left = q.left \ {d}
          BY <5>1, FoldMoves DEF OrdersGrow
        <5> QED BY <5>2
      <4>2. CASE ~Folding
        BY <2>1, <2>3, <4>2 DEF Written
      <4> QED BY <4>1, <4>2
    <3>4. InScope(c)
      BY <3>1, <3>3 DEF ScopeTyped
    <3> QED BY <3>2, <3>4 DEF InScope
  <2> QED BY <2>2, <2>3
<1> QED BY <1>2, <1>3

-------------------------------------------------------------------------------
(* Weights, accumulators and what they come to.                            *)
Product(w, m, n, k) == w = [i \in 0..m |-> IF i = 0 THEN n ELSE w[i - 1] * k[i]]

LEMMA ProductExists ==
  ASSUME NEW m \in Nat, NEW n \in Int, NEW k, \A i \in 1..m : k[i] \in Int
  PROVE  \E w : Product(w, m, n, k) /\ \A i \in 0..m : w[i] \in Int
<1>1. PICK T : T = {d \in Nat : d <= m => \E w : Product(w, d, n, k) /\ \A i \in 0..d : w[i] \in Int}
  OBVIOUS
<1>2. 0 \in T
  <2>1. PICK w : w = [i \in 0..0 |-> n]
    OBVIOUS
  <2>2. \A i \in 0..0 : i = 0
    OBVIOUS
  <2>3. Product(w, 0, n, k) /\ \A i \in 0..0 : w[i] \in Int
    BY <2>1, <2>2 DEF Product
  <2> QED BY <1>1, <2>3
<1>3. ASSUME NEW d \in Nat, d \in T PROVE d + 1 \in T
  <2> SUFFICES ASSUME d + 1 <= m
               PROVE  \E w : Product(w, d + 1, n, k) /\ \A i \in 0..(d + 1) : w[i] \in Int
    BY <1>1
  <2>1. PICK w : Product(w, d, n, k) /\ \A i \in 0..d : w[i] \in Int
    BY <1>1, <1>3
  <2>2. PICK p : p = w[d] * k[d + 1]
    OBVIOUS
  <2>3. p \in Int
    <3>1. w[d] \in Int /\ k[d + 1] \in Int
      BY <2>1
    <3>2. \A x, y \in Int : x * y \in Int
      OBVIOUS
    <3> QED BY <2>2, <3>1, <3>2
  <2>4. PICK x : x = [i \in 0..(d + 1) |-> IF i = d + 1 THEN p ELSE w[i]]
    OBVIOUS
  <2>5. \A i \in 0..d : i \in 0..(d + 1) /\ i # d + 1 /\ x[i] = w[i]
    BY <2>4
  <2>6. x[d + 1] = p
    BY <2>4
  <2>7. ASSUME NEW i \in 0..(d + 1)
        PROVE  x[i] \in Int /\ x[i] = IF i = 0 THEN n ELSE x[i - 1] * k[i]
    <3>1. CASE i = d + 1
      <4>1. i - 1 = d /\ i # 0 /\ d \in 0..d
        BY <3>1
      <4>2. x[i - 1] = w[d]
        BY <2>5, <4>1
      <4> QED BY <2>2, <2>3, <2>6, <3>1, <4>1, <4>2
    <3>2. CASE i \in 0..d /\ i # 0
      <4>1. i - 1 \in 0..d
        BY <3>2
      <4>2. x[i] = w[i] /\ x[i - 1] = w[i - 1]
        BY <2>5, <3>2, <4>1
      <4>3. w[i] = w[i - 1] * k[i]
        BY <2>1, <3>2 DEF Product
      <4> QED BY <2>1, <3>2, <4>2, <4>3
    <3>3. CASE i = 0
      <4>1. 0 \in 0..d
        OBVIOUS
      <4>2. x[0] = w[0]
        BY <2>5, <4>1
      <4>3. w[0] = n
        BY <2>1, <4>1 DEF Product
      <4> QED BY <3>3, <4>2, <4>3
    <3>4. i = d + 1 \/ i \in 0..d
      OBVIOUS
    <3> QED BY <3>1, <3>2, <3>3, <3>4
  <2>8. Product(x, d + 1, n, k)
    <3>1. x = [i \in 0..(d + 1) |-> x[i]]
      BY <2>4
    <3> QED BY <2>7, <3>1 DEF Product
  <2> QED BY <2>7, <2>8
<1>4. m \in T
  BY <1>2, <1>3, SetInduction
<1> QED BY <1>1, <1>4

LEMMA ProductIsOne ==
  ASSUME NEW m \in Nat, NEW n \in Int, NEW k, \A i \in 1..m : k[i] \in Int, NEW w, NEW x,
         Product(w, m, n, k), Product(x, m, n, k), \A i \in 0..m : w[i] \in Int
  PROVE  x[m] \in Int
<1>1. PICK T : T = {d \in Nat : d <= m => x[d] = w[d]}
  OBVIOUS
<1>2. 0 \in T
  BY <1>1 DEF Product
<1>3. ASSUME NEW d \in Nat, d \in T PROVE d + 1 \in T
  <2> SUFFICES ASSUME d + 1 <= m PROVE x[d + 1] = w[d + 1]
    BY <1>1
  <2>1. x[d] = w[d]
    BY <1>1, <1>3
  <2>2. d + 1 \in 0..m /\ (d + 1) - 1 = d /\ d + 1 # 0
    OBVIOUS
  <2>3. x[d + 1] = x[d] * k[d + 1] /\ w[d + 1] = w[d] * k[d + 1]
    BY <2>2 DEF Product
  <2> QED BY <2>1, <2>3
<1>4. m \in T
  BY <1>2, <1>3, SetInduction
<1> QED BY <1>1, <1>4

LEMMA WeightedIs ==
  ASSUME ScopeTyped, NEW c, InScope(c), NEW n \in Int
  PROVE  Weighted(c, n) \in Int
<1>1. PICK k : k = [a \in Axis |-> IF q.scope[a] = None THEN 1 ELSE q.scope[a][c[a]]]
  OBVIOUS
<1>2. Dims \in Nat /\ Axis = 1..Dims
  BY DimsAreCounted DEF Axis
<1>3. ASSUME NEW a \in 1..Dims PROVE k[a] \in Int
  <2>1. CASE q.scope[a] = None
    BY <1>1, <1>2, <2>1
  <2>2. CASE q.scope[a] # None
    <3>1. c[a] \in DOMAIN q.scope[a]
      BY <1>2, <2>2 DEF InScope
    <3>2. q.scope[a][c[a]] \in Int
      BY <1>2, <2>2, <3>1 DEF ScopeTyped, Weighing
    <3> QED BY <1>1, <1>2, <2>2, <3>2
  <2> QED BY <2>1, <2>2
<1>4. PICK w : Product(w, Dims, n, k) /\ \A i \in 0..Dims : w[i] \in Int
  BY <1>2, <1>3, ProductExists
<1>5. ASSUME NEW v
      PROVE  Product(v, Dims, n, k) <=>
                 v = [a \in 0..Dims |-> IF a = 0 THEN n
                        ELSE v[a - 1] * (IF q.scope[a] = None THEN 1 ELSE q.scope[a][c[a]])]
  <2>1. \A a \in 0..Dims : a # 0 => k[a] = IF q.scope[a] = None THEN 1 ELSE q.scope[a][c[a]]
    BY <1>1, <1>2
  <2>2. [a \in 0..Dims |-> IF a = 0 THEN n ELSE v[a - 1] * k[a]]
          = [a \in 0..Dims |-> IF a = 0 THEN n
                        ELSE v[a - 1] * (IF q.scope[a] = None THEN 1 ELSE q.scope[a][c[a]])]
    BY <2>1
  <2> QED BY <2>2 DEF Product
<1>6. PICK x : x = CHOOSE v : v = [a \in 0..Dims |-> IF a = 0 THEN n
                        ELSE v[a - 1] * (IF q.scope[a] = None THEN 1 ELSE q.scope[a][c[a]])]
  OBVIOUS
<1>7. Product(x, Dims, n, k)
  BY <1>4, <1>5, <1>6
<1>8. x[Dims] \in Int
  BY <1>2, <1>3, <1>4, <1>7, ProductIsOne
<1>9. Weighted(c, n) = x[Dims] \/ Weighted(c, n) = n
  BY <1>6 DEF Weighted
<1> QED BY <1>8, <1>9

LEMMA PairIs ==
  ASSUME NEW x \in Int, NEW y \in Int
  PROVE  Min({x, y}) \in Int /\ Max({x, y}) \in Int
<1>1. \E z \in {x, y} : \A u \in {x, y} : z <= u
  OBVIOUS
<1>2. \E z \in {x, y} : \A u \in {x, y} : z >= u
  OBVIOUS
<1>3. Min({x, y}) \in {x, y}
  BY <1>1 DEF Min
<1>4. Max({x, y}) \in {x, y}
  BY <1>2 DEF Max
<1> QED BY <1>3, <1>4

LEMMA AddFits ==
  ASSUME NEW fold \in Implemented, NEW acc, AccFits(acc, fold) \/ acc = NewAcc(fold),
         NEW raw \in Amounts, NEW w, w \in Int \/ raw \in Texts
  PROVE  AccFits(Add(acc, raw, w), fold)
<1>1. CASE fold = "COUNTD"
  <2>1. acc = [kind |-> "distinct", values |-> acc.values] /\ IsFiniteSet(acc.values)
    <3>1. CASE AccFits(acc, fold)
      BY <1>1, <3>1 DEF AccFits
    <3>2. CASE acc = NewAcc(fold)
      <4>1. acc = [kind |-> "distinct", values |-> {}]
        BY <1>1, <3>2 DEF NewAcc
      <4> QED BY <4>1, FS_EmptySet
    <3> QED BY <3>1, <3>2
  <2>2. PICK S : S = acc.values /\ acc = [kind |-> "distinct", values |-> S] /\ IsFiniteSet(S)
    BY <2>1
  <2>3. Add(acc, raw, w) = [kind |-> "distinct", values |-> S \cup {raw}]
    <3>1. acc.kind = "distinct"
      BY <2>2
    <3>2. Add(acc, raw, w) = [acc EXCEPT !.values = acc.values \cup {raw}]
      BY <3>1 DEF Add
    <3>3. [acc EXCEPT !.values = acc.values \cup {raw}] = [kind |-> "distinct", values |-> S \cup {raw}]
      BY <2>2
    <3> QED BY <3>2, <3>3
  <2>4. IsFiniteSet(S \cup {raw})
    BY <2>2, FS_AddElement
  <2> QED BY <1>1, <2>3, <2>4 DEF AccFits
<1>2. CASE fold # "COUNTD"
  <2>1. /\ acc.kind # "distinct"
        /\ acc.kind = "num" => /\ acc.sum \in Int /\ acc.raw \in Int /\ acc.count \in Nat
                               /\ acc.least \in Int /\ acc.most \in Int
    BY <1>2 DEF AccFits, NewAcc
  <2>2. CASE raw \in Texts
    <3>1. Add(acc, raw, w) = [kind |-> "text", text |-> raw]
      BY <2>1, <2>2 DEF Add
    <3> QED BY <1>2, <2>2, <3>1 DEF AccFits
  <2>3. CASE raw \notin Texts /\ acc.kind = "num" /\ acc.count > 0
    <3>1. raw \in Int /\ w \in Int
      BY <2>3 DEF Amounts
    <3>2. Add(acc, raw, w) =
            [kind |-> "num", sum |-> acc.sum + w, raw |-> acc.raw + raw,
             count |-> acc.count + 1, least |-> Min({acc.least, raw}), most |-> Max({acc.most, raw})]
      BY <2>1, <2>3 DEF Add
    <3>3. Min({acc.least, raw}) \in Int /\ Max({acc.most, raw}) \in Int
      BY <2>1, <2>3, <3>1, PairIs
    <3>4. acc.sum + w \in Int /\ acc.raw + raw \in Int /\ acc.count + 1 \in Nat \ {0}
      BY <2>1, <2>3, <3>1
    <3>5. PICK a, b, d, e, f : /\ a = acc.sum + w /\ b = acc.raw + raw /\ d = acc.count + 1
                               /\ e = Min({acc.least, raw}) /\ f = Max({acc.most, raw})
      OBVIOUS
    <3>6. Add(acc, raw, w) = [kind |-> "num", sum |-> a, raw |-> b, count |-> d, least |-> e, most |-> f]
      BY <3>2, <3>5
    <3> QED BY <1>2, <3>3, <3>4, <3>5, <3>6 DEF AccFits
  <2>4. CASE raw \notin Texts /\ ~(acc.kind = "num" /\ acc.count > 0)
    <3>1. raw \in Int /\ w \in Int
      BY <2>4 DEF Amounts
    <3>2. Add(acc, raw, w) = [kind |-> "num", sum |-> w, raw |-> raw, count |-> 1,
                              least |-> raw, most |-> raw]
      BY <2>1, <2>4 DEF Add
    <3> QED BY <1>2, <3>1, <3>2 DEF AccFits
  <2> QED BY <2>2, <2>3, <2>4
<1> QED BY <1>1, <1>2

LEMMA FinishIs ==
  ASSUME NEW fold \in Implemented, NEW acc, AccFits(acc, fold)
  PROVE  Finish(acc, fold) \in Texts \cup Fractions
<1>1. CASE acc.kind = "text" /\ acc.text \in Texts
  BY <1>1 DEF Finish
<1>2. CASE acc.kind = "distinct" /\ IsFiniteSet(acc.values)
  <2>1. Cardinality(acc.values) \in Int
    BY <1>2, FS_CardinalityType
  <2>2. Finish(acc, fold) = <<Cardinality(acc.values), 1>>
    BY <1>2 DEF Finish
  <2>3. <<Cardinality(acc.values), 1>> \in Fractions
    BY <2>1, FractionIs
  <2> QED BY <2>2, <2>3
<1>3. CASE /\ fold # "COUNTD" /\ acc.kind = "num" /\ acc.sum \in Int /\ acc.raw \in Int
           /\ acc.count \in Nat \ {0} /\ acc.least \in Int /\ acc.most \in Int
  <2>1. /\ <<acc.sum, 1>> \in Fractions /\ <<acc.count, 1>> \in Fractions
        /\ <<acc.raw, acc.count>> \in Fractions /\ <<acc.least, 1>> \in Fractions
        /\ <<acc.most, 1>> \in Fractions
    BY <1>3, FractionIs
  <2>2. Finish(acc, fold) \in {<<acc.sum, 1>>, <<acc.count, 1>>, <<acc.raw, acc.count>>,
                               <<acc.least, 1>>, <<acc.most, 1>>}
    BY <1>3 DEF Finish, Implemented
  <2> QED BY <2>1, <2>2
<1>4. \/ acc.kind = "text" /\ acc.text \in Texts
      \/ acc.kind = "distinct" /\ IsFiniteSet(acc.values)
      \/ /\ fold # "COUNTD" /\ acc.kind = "num" /\ acc.sum \in Int /\ acc.raw \in Int
         /\ acc.count \in Nat \ {0} /\ acc.least \in Int /\ acc.most \in Int
  <2>1. acc = [kind |-> "distinct", values |-> acc.values] => acc.kind = "distinct"
    OBVIOUS
  <2> QED BY <2>1 DEF AccFits
<1> QED BY <1>1, <1>2, <1>3, <1>4

-------------------------------------------------------------------------------
(* The groups, step by step.                                               *)
LEMMA FoldGroups ==
  ASSUME NEW c, Fold(c), DOMAIN q = Fields
  PROVE  \/ (\E a \in Axis : c[a] \in q.denied[a]) /\ q'.groups = q.groups
         \/ /\ ~\E a \in Axis : c[a] \in q.denied[a]
            /\ \E accs, acc, w :
                 /\ accs = IF At(c, KeyAxes) \in DOMAIN q.groups THEN q.groups[At(c, KeyAxes)] ELSE <<>>
                 /\ acc = IF MeasureOf(c) \in DOMAIN accs THEN accs[MeasureOf(c)]
                          ELSE NewAcc(FoldOf(MeasureOf(c)))
                 /\ w = IF Read(c) \in Texts THEN Read(c) ELSE Weighted(c, Read(c))
                 /\ q'.groups = With(q.groups, At(c, KeyAxes),
                                     With(accs, MeasureOf(c), Add(acc, Read(c), w)))
<1>1. PICK accs : accs = IF At(c, KeyAxes) \in DOMAIN q.groups THEN q.groups[At(c, KeyAxes)] ELSE <<>>
  OBVIOUS
<1>2. PICK acc : acc = IF MeasureOf(c) \in DOMAIN accs THEN accs[MeasureOf(c)]
                       ELSE NewAcc(FoldOf(MeasureOf(c)))
  OBVIOUS
<1>3. PICK w : w = IF Read(c) \in Texts THEN Read(c) ELSE Weighted(c, Read(c))
  OBVIOUS
<1>4. PICK new : new = With(q.groups, At(c, KeyAxes), With(accs, MeasureOf(c), Add(acc, Read(c), w)))
  OBVIOUS
<1>5. q' = [q EXCEPT !.left = q.left \ {c},
                     !.groups = IF \E a \in Axis : c[a] \in q.denied[a] THEN q.groups ELSE new]
  BY <1>1, <1>2, <1>3, <1>4 DEF Fold
<1>6. q'.groups = IF \E a \in Axis : c[a] \in q.denied[a] THEN q.groups ELSE new
  BY <1>5 DEF Fields
<1>7. CASE \E a \in Axis : c[a] \in q.denied[a]
  BY <1>6, <1>7
<1>8. CASE ~\E a \in Axis : c[a] \in q.denied[a]
  <2>1. q'.groups = new
    BY <1>6, <1>8
  <2> QED BY <1>1, <1>2, <1>3, <1>4, <1>8, <2>1
<1> QED BY <1>7, <1>8

LEMMA FoldIsOne ==
  ASSUME FoldsTyped, NEW m
  PROVE  FoldOf(m) \in Implemented
  BY DEF FoldOf, FoldsTyped, Implemented

LEMMA GroupFolded ==
  ASSUME OrdersGrow, CellsTyped, FoldsTyped, ScopeTyped, GroupsTyped, RowsInOrder,
         NEW c \in q.left, Fold(c)
  PROVE  GroupsTyped'
<1>1. /\ DOMAIN q = Fields /\ q.pc = "fold" /\ q'.folds = q.folds /\ InScope(c)
      /\ c \in DOMAIN q.snapshot
  <2>1. DOMAIN q = Fields
    BY DEF OrdersGrow
  <2>2. q.pc = "fold" /\ q'.folds = q.folds
    BY <2>1, FoldMoves DEF Moves, Fields
  <2>3. InScope(c) /\ c \in DOMAIN q.snapshot
    BY <2>2 DEF ScopeTyped, RowsInOrder
  <2> QED BY <2>1, <2>2, <2>3
<1>2. \A m : FoldOf(m)' = FoldOf(m) /\ FoldOf(m) \in Implemented
  BY <1>1, FoldIsOne DEF FoldOf
<1>3. CASE q'.groups = q.groups
  BY <1>2, <1>3 DEF GroupsTyped
<1>4. CASE q'.groups # q.groups
  <2>1. PICK key, m, raw : key = At(c, KeyAxes) /\ m = MeasureOf(c) /\ raw = Read(c)
    OBVIOUS
  <2>2. PICK accs, acc, w :
            /\ accs = IF key \in DOMAIN q.groups THEN q.groups[key] ELSE <<>>
            /\ acc = IF m \in DOMAIN accs THEN accs[m] ELSE NewAcc(FoldOf(m))
            /\ w = IF raw \in Texts THEN raw ELSE Weighted(c, raw)
            /\ q'.groups = With(q.groups, key, With(accs, m, Add(acc, raw, w)))
    BY <1>1, <1>4, <2>1, FoldGroups
  <2>3. raw \in Amounts
    BY <1>1, <2>1 DEF Read, CellsTyped
  <2>4. w \in Int \/ raw \in Texts
    <3>1. CASE raw \notin Texts
      <4>1. raw \in Int
        BY <2>3, <3>1 DEF Amounts
      <4>2. Weighted(c, raw) \in Int
        BY <1>1, <4>1, WeightedIs
      <4> QED BY <2>2, <3>1, <4>2
    <3> QED BY <3>1
  <2>5. \A x \in DOMAIN accs : AccFits(accs[x], FoldOf(x))
    <3>1. CASE key \in DOMAIN q.groups
      <4>1. accs = q.groups[key]
        BY <2>2, <3>1
      <4> QED BY <3>1, <4>1 DEF GroupsTyped
    <3>2. CASE key \notin DOMAIN q.groups
      <4>1. DOMAIN accs = {}
        BY <2>2, <3>2, NoneIs
      <4> QED BY <4>1
    <3> QED BY <3>1, <3>2
  <2>6. AccFits(acc, FoldOf(m)) \/ acc = NewAcc(FoldOf(m))
    BY <2>2, <2>5
  <2>7. PICK new : new = Add(acc, raw, w) /\ AccFits(new, FoldOf(m))
    BY <1>2, <2>3, <2>4, <2>6, AddFits
  <2>8. PICK nexts : nexts = With(accs, m, new) /\ q'.groups = With(q.groups, key, nexts)
    BY <2>2, <2>7
  <2>9. ASSUME NEW x \in DOMAIN nexts PROVE AccFits(nexts[x], FoldOf(x))
    <3>1. CASE x = m
      <4>1. nexts[x] = new
        BY <2>8, <3>1 DEF With
      <4> QED BY <2>7, <3>1, <4>1
    <3>2. CASE x # m
      <4>1. x \in DOMAIN accs /\ nexts[x] = accs[x]
        BY <2>8, <3>2 DEF With
      <4> QED BY <2>5, <4>1
    <3> QED BY <3>1, <3>2
  <2>10. ASSUME NEW k \in DOMAIN q'.groups, NEW x \in DOMAIN q'.groups[k]
         PROVE  AccFits(q'.groups[k][x], FoldOf(x))
    <3>1. CASE k = key
      <4>1. q'.groups[k] = nexts
        BY <2>8, <3>1 DEF With
      <4> QED BY <2>9, <4>1
    <3>2. CASE k # key
      <4>1. k \in DOMAIN q.groups /\ q'.groups[k] = q.groups[k]
        BY <2>8, <3>2 DEF With
      <4> QED BY <4>1 DEF GroupsTyped
    <3> QED BY <3>1, <3>2
  <2>11. \A k \in DOMAIN q'.groups : \A x \in DOMAIN q'.groups[k] : AccFits(q'.groups[k][x], FoldOf(x)')
    BY <1>2, <2>10
  <2> QED BY <2>11 DEF GroupsTyped
<1> QED BY <1>3, <1>4

LEMMA GroupsStep ==
  ASSUME OrdersGrow, CellsTyped, FoldsTyped, ScopeTyped, GroupsTyped, RowsInOrder, [Next]_vars
  PROVE  GroupsTyped'
<1>1. CASE \E r \in Requests : Ask(r)
  <2>1. q'.groups = <<>> /\ DOMAIN <<>> = {}
    BY <1>1, AskedNow, NoneIs
  <2> QED BY <2>1 DEF GroupsTyped
<1>2. CASE ~\E r \in Requests : Ask(r)
  <2>1. Written
    BY <1>2, Writers DEF OrdersGrow
  <2>2. CASE Folding
    <3>1. PICK c \in q.left : Fold(c)
      BY <2>2 DEF Folding
    <3> QED BY <3>1, GroupFolded
  <2>3. CASE Emitting
    <3>1. PICK key \in DOMAIN q.groups : Emit(key)
      BY <2>3 DEF Emitting
    <3>2. q'.groups = Restrict(q.groups, DOMAIN q.groups \ {key}) /\ q'.folds = q.folds
      BY <3>1, EmitMoves DEF OrdersGrow, Moves, Fields
    <3>3. \A k \in DOMAIN q'.groups : k \in DOMAIN q.groups /\ q'.groups[k] = q.groups[k]
      BY <3>2 DEF Restrict
    <3> QED BY <3>2, <3>3 DEF GroupsTyped, FoldOf
  <2>4. CASE ~Folding /\ ~Emitting
    <3>1. q'.groups = q.groups
      BY <2>1, <2>4 DEF Written
    <3>2. CASE TakeMeasures
      <4>1. q.groups = <<>>
        BY <3>2 DEF TakeMeasures, RowsInOrder, Early
      <4>2. DOMAIN <<>> = {}
        BY NoneIs
      <4> QED BY <3>1, <4>1, <4>2 DEF GroupsTyped
    <3>3. CASE ~TakeMeasures
      <4>1. q'.folds = q.folds
        BY <2>1, <3>3 DEF Written
      <4> QED BY <3>1, <4>1 DEF GroupsTyped, FoldOf
    <3> QED BY <3>2, <3>3
  <2> QED BY <2>2, <2>3, <2>4
<1> QED BY <1>1, <1>2

LEMMA CountedGrows ==
  ASSUME OrdersGrow, Written, cube' = cube, ~TakeMeasures, ~EndFilters, ~Resolve, ~Scan
  PROVE  /\ KeyAxes' = KeyAxes
         /\ \A c : InScope(c)' <=> InScope(c)
         /\ \A key, m : Counted(key, m) \subseteq Counted(key, m)'
         /\ q'.left = q.left => \A key, m : Counted(key, m)' = Counted(key, m)
<1>1. /\ q'.request = q.request /\ q'.measures = q.measures /\ q'.snapshot = q.snapshot
      /\ q'.scope = q.scope /\ q'.denied = q.denied
  BY DEF Written
<1>2. KeyAxes' = KeyAxes
  BY <1>1 DEF KeyAxes, Pivoted
<1>3. ASSUME NEW c PROVE InScope(c)' <=> InScope(c)
  BY <1>1 DEF InScope
<1>4. ASSUME NEW c PROVE MeasureOf(c)' = MeasureOf(c) /\ At(c, KeyAxes)' = At(c, KeyAxes)
  BY <1>1, <1>2 DEF MeasureOf, Pivoted, At
<1>5. q'.left \subseteq q.left
  <2>1. CASE Folding
    <3>1. PICK c \in q.left : Fold(c)
      BY <2>1 DEF Folding
    <3> QED BY <3>1, FoldMoves DEF OrdersGrow
  <2>2. CASE ~Folding
    BY <2>2 DEF Written
  <2> QED BY <2>1, <2>2
<1>6. ASSUME NEW key, NEW m
      PROVE  Counted(key, m)' = {c \in DOMAIN q.snapshot \ q'.left :
                                    /\ InScope(c) /\ \A a \in Axis : c[a] \notin q.denied[a]
                                    /\ At(c, KeyAxes) = key /\ MeasureOf(c) = m}
  BY <1>1, <1>3, <1>4 DEF Counted
<1>7. ASSUME NEW key, NEW m PROVE Counted(key, m) \subseteq Counted(key, m)'
  BY <1>5, <1>6 DEF Counted
<1>8. ASSUME q'.left = q.left, NEW key, NEW m PROVE Counted(key, m)' = Counted(key, m)
  BY <1>6, <1>8 DEF Counted
<1> QED BY <1>2, <1>3, <1>7, <1>8

LEMMA GroupsSeenStep ==
  ASSUME OrdersGrow, ScopeTyped, GroupsSeen, RowsInOrder, [Next]_vars
  PROVE  GroupsSeen'
<1>1. CASE \E r \in Requests : Ask(r)
  <2>1. q'.groups = <<>> /\ DOMAIN <<>> = {}
    BY <1>1, AskedNow, NoneIs
  <2> QED BY <2>1 DEF GroupsSeen
<1>2. CASE ~\E r \in Requests : Ask(r)
  <2>1. Written /\ cube' = cube
    BY <1>2, Writers DEF OrdersGrow
  <2>2. CASE q.pc \in Early
    <3>1. q.groups = <<>> /\ DOMAIN <<>> = {}
      BY <2>2, NoneIs DEF RowsInOrder
    <3>2. ~Folding /\ ~Emitting
      BY <2>2 DEF Folding, Emitting, Fold, Emit, Early
    <3>3. q'.groups = <<>>
      BY <2>1, <3>1, <3>2 DEF Written
    <3> QED BY <3>1, <3>3 DEF GroupsSeen
  <2>3. CASE q.pc \notin Early
    <3>1. ~TakeMeasures /\ ~EndFilters /\ ~Resolve /\ ~Scan
      BY <2>3 DEF TakeMeasures, EndFilters, Resolve, Scan, Early
    <3>2. /\ KeyAxes' = KeyAxes
          /\ \A c : InScope(c)' <=> InScope(c)
          /\ \A key, m : Counted(key, m) \subseteq Counted(key, m)'
      BY <2>1, <3>1, CountedGrows
    <3>3. CASE Folding
      <4>1. PICK c \in q.left : Fold(c)
        BY <3>3 DEF Folding
      <4>2. PICK key, m : key = At(c, KeyAxes) /\ m = MeasureOf(c)
        OBVIOUS
      <4>3. /\ q'.left = q.left \ {c} /\ q'.snapshot = q.snapshot /\ q'.denied = q.denied
            /\ q'.measures = q.measures
        BY <4>1, FoldMoves DEF OrdersGrow, Moves, Fields
      <4>4. InScope(c) /\ c \in DOMAIN q.snapshot
        BY <4>1 DEF ScopeTyped, Fold, RowsInOrder
      <4>5. CASE q'.groups = q.groups
        BY <3>2, <4>5 DEF GroupsSeen
      <4>6. CASE q'.groups # q.groups
        <5>1. ~\E a \in Axis : c[a] \in q.denied[a]
          BY <4>1, <4>6, FoldGroups DEF OrdersGrow
        <5>2. c \in Counted(key, m)'
          <6>1. MeasureOf(c)' = m /\ At(c, KeyAxes)' = key
            BY <2>1, <3>2, <4>2, <4>3 DEF MeasureOf, Pivoted, At
          <6> QED BY <3>2, <4>3, <4>4, <5>1, <6>1 DEF Counted
        <5>3. PICK accs, v : /\ accs = IF key \in DOMAIN q.groups THEN q.groups[key] ELSE <<>>
                             /\ q'.groups = With(q.groups, key, With(accs, m, v))
          BY <4>1, <4>2, <4>6, FoldGroups DEF OrdersGrow
        <5>4. ASSUME NEW k \in DOMAIN q'.groups, NEW x \in DOMAIN q'.groups[k]
              PROVE  \/ k = key /\ x = m
                     \/ k \in DOMAIN q.groups /\ x \in DOMAIN q.groups[k]
          <6>1. CASE k # key
            BY <5>3, <5>4, <6>1 DEF With
          <6>2. CASE k = key
            <7>1. q'.groups[k] = With(accs, m, v)
              BY <5>3, <6>2 DEF With
            <7>2. x = m \/ x \in DOMAIN accs
              BY <5>4, <7>1 DEF With
            <7>3. DOMAIN <<>> = {}
              BY NoneIs
            <7> QED BY <5>3, <6>2, <7>2, <7>3
          <6> QED BY <6>1, <6>2
        <5>5. ASSUME NEW k \in DOMAIN q'.groups, NEW x \in DOMAIN q'.groups[k]
              PROVE  Counted(k, x)' # {}
          <6>1. CASE k = key /\ x = m
            BY <5>2, <6>1
          <6>2. CASE k \in DOMAIN q.groups /\ x \in DOMAIN q.groups[k]
            BY <3>2, <6>2 DEF GroupsSeen
          <6> QED BY <5>4, <6>1, <6>2
        <5> QED BY <5>5 DEF GroupsSeen
      <4> QED BY <4>5, <4>6
    <3>4. CASE Emitting
      <4>1. PICK key \in DOMAIN q.groups : Emit(key)
        BY <3>4 DEF Emitting
      <4>2. q'.groups = Restrict(q.groups, DOMAIN q.groups \ {key})
        BY <4>1, EmitMoves DEF OrdersGrow
      <4>3. \A k \in DOMAIN q'.groups : k \in DOMAIN q.groups /\ q'.groups[k] = q.groups[k]
        BY <4>2 DEF Restrict
      <4> QED BY <3>2, <4>3 DEF GroupsSeen
    <3>5. CASE ~Folding /\ ~Emitting
      <4>1. q'.groups = q.groups
        BY <2>1, <3>5 DEF Written
      <4> QED BY <3>2, <4>1 DEF GroupsSeen
    <3> QED BY <3>3, <3>4, <3>5
  <2> QED BY <2>2, <2>3
<1> QED BY <1>1, <1>2

-------------------------------------------------------------------------------
(* The rows, step by step.                                                 *)
LEMMA NeedsAreSlots ==
  \A f \in DOMAIN Formulas : \A m \in Needs[f] : \E s \in Range(Slots[f]) : s.name = m
<1> DEFINE P(f) == \A m \in Needs[f] : \E s \in Range(Slots[f]) : s.name = m
<1>1. PICK T : T = {d \in Nat : \A f \in UpTo(d) : P(f)}
  OBVIOUS
<1>2. 0 \in T
  BY <1>1, FormulaIs
<1>3. ASSUME NEW d \in Nat, d \in T PROVE d + 1 \in T
  <2> SUFFICES ASSUME NEW f \in UpTo(d + 1), NEW m \in Needs[f]
               PROVE  \E s \in Range(Slots[f]) : s.name = m
    BY <1>1
  <2>1. f \in DOMAIN Formulas
    BY DEF UpTo
  <2>2. Needs[f] = NeedsAt(Needs, f) /\ SlotsFit(f)
    BY <2>1, NeedsAre, SlotsIs
  <2>3. CASE Formulas[f].op \in Aggregates
    <3>1. m = Formulas[f].field
      BY <2>2, <2>3 DEF NeedsAt
    <3>2. SlotOf(f) \in Range(Slots[f])
      BY <2>2, <2>3 DEF SlotsFit
    <3>3. SlotOf(f).name = m
      BY <3>1 DEF SlotOf
    <3> QED BY <3>2, <3>3
  <2>4. CASE Formulas[f].op \notin Aggregates
    <3>1. \E g \in Range(Formulas[f].args) : m \in Needs[g]
      <4>1. CASE Formulas[f].op \in {"ZN", "IFNULL"}
        BY <2>2, <2>4, <4>1 DEF NeedsAt
      <4>2. CASE Formulas[f].op = "IF"
        <5>1. m \in Needs[Formulas[f].args[1]]
          BY <2>2, <2>4, <4>2 DEF NeedsAt
        <5>2. 1 \in DOMAIN Formulas[f].args
          <6>1. Len(Formulas[f].args) = 3
            BY <2>1, <4>2, OperandsAreThere
          <6>2. DOMAIN Formulas[f].args = 1..Len(Formulas[f].args)
            BY <2>1, FormulaIs
          <6> QED BY <6>1, <6>2
        <5> QED BY <5>1, <5>2 DEF Range
      <4>3. CASE Formulas[f].op \notin {"ZN", "IFNULL", "IF"}
        BY <2>2, <2>4, <4>3 DEF NeedsAt
      <4> QED BY <4>1, <4>2, <4>3
    <3>2. PICK i \in DOMAIN Formulas[f].args : m \in Needs[Formulas[f].args[i]]
      BY <3>1 DEF Range
    <3>3. Formulas[f].args[i] \in UpTo(d)
      BY FormulaIs
    <3>4. PICK s \in Range(Slots[Formulas[f].args[i]]) : s.name = m
      BY <1>1, <1>3, <3>2, <3>3
    <3>5. s \in Range(Slots[f])
      BY <2>2, <2>4 DEF SlotsFit
    <3> QED BY <3>4, <3>5
  <2> QED BY <2>3, <2>4
<1>4. Nesting \in T
  BY <1>2, <1>3, FormulaIs, SetInduction
<1> QED BY <1>1, <1>4, FormulaIs

LEMMA OutputsStay ==
  ASSUME Written, cube' = cube, ~TakeMeasures
  PROVE  Outputs' = Outputs /\ Measured' = Measured /\ Wanted' = Wanted /\ (Sql' <=> Sql)
<1>1. q'.request = q.request /\ q'.measures = q.measures /\ q'.columns = q.columns
  BY DEF Written
<1>2. Outputs' = Outputs
  BY <1>1 DEF Outputs, Pivoted, Sql
<1>3. Measured' = Measured
  BY <1>1, <1>2 DEF Measured, Calculated
<1> QED BY <1>1, <1>2, <1>3 DEF Wanted, Sql

LEMMA RowIs ==
  ASSUME FoldsTyped, GroupsTyped, GroupsSeen, NEW key \in DOMAIN q.groups
  PROVE  /\ Row(key).key = key /\ DOMAIN Row(key).values = Outputs
         /\ \A m \in Outputs : /\ Row(key).values[m] \in Amount0
                               /\ Row(key).values[m] # None => Counted(key, m) # {}
<1>1. PICK v : v = [m \in Outputs |-> IF m \in DOMAIN q.groups[key]
                                        THEN Finish(q.groups[key][m], FoldOf(m)) ELSE None]
  OBVIOUS
<1>2. Row(key) = [key |-> key, values |-> v]
  BY <1>1 DEF Row
<1>3. ASSUME NEW m \in Outputs PROVE v[m] \in Amount0 /\ (v[m] # None => Counted(key, m) # {})
  <2>1. CASE m \in DOMAIN q.groups[key]
    <3>1. AccFits(q.groups[key][m], FoldOf(m)) /\ Counted(key, m) # {}
      BY <2>1 DEF GroupsTyped, GroupsSeen
    <3>2. Finish(q.groups[key][m], FoldOf(m)) \in Texts \cup Fractions
      BY <3>1, FoldIsOne, FinishIs
    <3> QED BY <1>1, <2>1, <3>1, <3>2 DEF Amount0
  <2>2. CASE m \notin DOMAIN q.groups[key]
    BY <1>1, <2>2 DEF Amount0
  <2> QED BY <2>1, <2>2
<1> QED BY <1>1, <1>2, <1>3

LEMMA SameRow ==
  ASSUME OrdersGrow, Written, cube' = cube, ~TakeMeasures, ~EndFilters, ~Resolve, ~Scan,
         q'.left = q.left, NEW row
  PROVE  /\ q'.pc = q.pc /\ RowFits(row) => RowFits(row)'
         /\ q'.pc = q.pc /\ RowSeen(row) => RowSeen(row)'
         /\ \A key, m : Counted(key, m)' = Counted(key, m)
<1>1. Outputs' = Outputs /\ Measured' = Measured /\ Wanted' = Wanted
  BY OutputsStay
<1>2. \A key, m : Counted(key, m)' = Counted(key, m)
  BY CountedGrows
<1>3. q'.columns = q.columns
  BY DEF Written
<1> QED BY <1>1, <1>2, <1>3 DEF RowFits, RowSeen

LEMMA EmitFits ==
  ASSUME OrdersGrow, RowsInOrder, FoldsTyped, GroupsTyped, GroupsSeen, RowsTyped, RowsSeen,
         Written, cube' = cube, NEW key \in DOMAIN q.groups, Emit(key)
  PROVE  (RowsTyped /\ RowsSeen)'
<1>1. /\ q.pc = "fold" /\ q'.pc = "fold" /\ q.left = {} /\ q'.left = q.left
      /\ q'.rows = Append(q.rows, Row(key))
  BY EmitMoves DEF OrdersGrow, Moves, Fields
<1>2. ~TakeMeasures /\ ~EndFilters /\ ~Resolve /\ ~Scan
  BY <1>1 DEF TakeMeasures, EndFilters, Resolve, Scan
<1>3. PICK row : row = Row(key)
  OBVIOUS
<1>4. RowFits(row) /\ RowSeen(row)
  BY <1>1, <1>3, RowIs DEF RowFits, RowSeen
<1>5. ASSUME NEW i \in DOMAIN q'.rows PROVE RowFits(q'.rows[i]) /\ RowSeen(q'.rows[i])
  <2>1. PICK S : S = Range(q.rows) \cup {row}
    OBVIOUS
  <2>2. q.rows \in Seq(S)
    BY <2>1, SeqMonotonic DEF RowsInOrder, IsList
  <2>3. q'.rows[i] = row \/ (i \in DOMAIN q.rows /\ q'.rows[i] = q.rows[i])
    BY <1>1, <1>3, <1>5, <2>1, <2>2, AppendProperties, SeqIs
  <2> QED BY <1>4, <2>3 DEF RowsTyped, RowsSeen
<1>6. ASSUME NEW r, RowFits(r) /\ RowSeen(r) PROVE RowFits(r)' /\ RowSeen(r)'
  BY <1>1, <1>2, <1>6, SameRow
<1>7. \A i \in DOMAIN q'.rows : \A r : r = q'.rows[i] => RowFits(r)' /\ RowSeen(r)'
  BY <1>5, <1>6
<1> QED BY <1>1, <1>7 DEF RowsTyped, RowsSeen, RowFits, RowSeen

(* A formula of a row is worth an amount, and nothing without what it      *)
(* needs.                                                                  *)
LEMMA ColumnsFit ==
  ASSUME ColumnsTyped, q.pc = "fold", NEW row, RowFits(row), RowSeen(row),
         \A n \in DOMAIN q.columns :
             q.columns[n] # None => IsAmount(Evaluate(q.columns[n], row.values)),
         \E n \in DOMAIN q.columns : q.columns[n] # None
  PROVE  /\ DOMAIN Columns(row) = Measured
         /\ \A n \in DOMAIN q.columns :
                /\ Columns(row)[n] \in Amount0
                /\ /\ q.columns[n] # None
                   /\ \E m \in Needs[q.columns[n]] : Counted(row.key, m) = {}
                   => Columns(row)[n] = None
<1>1. DOMAIN Columns(row) = DOMAIN q.columns /\ Measured = DOMAIN q.columns
  BY DEF Columns, Measured, Calculated
<1>2. q.measures # {} => Outputs = q.measures
  BY DEF Outputs, Pivoted
<1>3. DOMAIN row.values = Outputs /\ \A m \in Outputs : row.values[m] \in Amount0
  BY DEF RowFits
<1> SUFFICES ASSUME NEW n \in DOMAIN q.columns
             PROVE  /\ Columns(row)[n] \in Amount0
                    /\ /\ q.columns[n] # None
                       /\ \E m \in Needs[q.columns[n]] : Counted(row.key, m) = {}
                       => Columns(row)[n] = None
  BY <1>1
<1>4. ColumnFits(n)
  BY DEF ColumnsTyped
<1>5. CASE q.columns[n] = None
  <2>1. n \in Outputs /\ Columns(row)[n] = row.values[n]
    BY <1>2, <1>4, <1>5 DEF ColumnFits, Columns
  <2> QED BY <1>3, <1>5, <2>1
<1>6. CASE q.columns[n] # None
  <2>1. PICK f \in DOMAIN Formulas : f = q.columns[n] /\ \A s \in Range(Slots[f]) : s.name \in q.measures
    BY <1>4, <1>6 DEF ColumnFits
  <2>2. \A s \in Range(Slots[f]) : s.name \in Outputs
    BY <1>2, <2>1
  <2>3. Amounted(f, row.values)
    BY <1>3, <2>2 DEF Amounted, Amount0
  <2>4. PICK v : v = Evaluate(f, row.values)
    OBVIOUS
  <2>5. /\ v \in Worths /\ IsAmount(v)
        /\ (\E m \in Needs[f] : row.values[m] = None) => v \in {Absent, Wrong}
    BY <1>6, <2>1, <2>3, <2>4, EvaluateFits
  <2>6. v = Absent \/ \E n1 \in Fractions : v = Num(n1)
    <3>1. v # Wrong /\ \A b \in BOOLEAN : v # Bool(b)
      BY <2>5, WorthIs DEF IsAmount, Wrong, Bool
    <3> QED BY <2>5, <3>1 DEF Worths
  <2>7. v # Wrong
    BY <2>5 DEF IsAmount, Wrong
  <2>8. Amount(v) \in Amount0 /\ Amount(Absent) = None
    <3>1. CASE v = Absent
      BY <3>1 DEF Amount, Amount0
    <3>2. CASE v # Absent
      <4>1. PICK n1 \in Fractions : v = Num(n1)
        BY <2>6, <3>2
      <4>2. Amount(v) = n1
        BY <3>2, <4>1 DEF Amount, Num
      <4> QED BY <4>1, <4>2 DEF Amount0, Amount
    <3> QED BY <3>1, <3>2
  <2>9. Columns(row)[n] = Amount(v)
    BY <1>6, <2>1, <2>4 DEF Columns
  <2>10. ASSUME NEW m \in Needs[f], Counted(row.key, m) = {} PROVE Amount(v) = None
    <3>1. m \in Outputs
      BY <2>1, <2>2, NeedsAreSlots
    <3>2. row.values[m] = None
      BY <2>10, <3>1 DEF RowSeen
    <3> QED BY <2>5, <2>7, <2>8, <3>2
  <2> QED BY <2>1, <2>8, <2>9, <2>10
<1> QED BY <1>5, <1>6

LEMMA CalculateFits ==
  ASSUME OrdersGrow, RowsInOrder, ColumnsTyped, RowsTyped, RowsSeen,
         Written, cube' = cube, Calculate
  PROVE  (RowsTyped /\ RowsSeen)'
<1>1. /\ q.pc = "fold" /\ q'.pc \in {"join", "refused"} /\ q'.left = q.left
      /\ q'.pc = "refused" => q'.rows = q.rows
  BY CalculateMoves DEF OrdersGrow, Moves, Fields
<1>2. ~TakeMeasures /\ ~EndFilters /\ ~Resolve /\ ~Scan
  BY <1>1 DEF TakeMeasures, EndFilters, Resolve, Scan
<1>3. /\ Outputs' = Outputs /\ Measured' = Measured /\ Wanted' = Wanted
      /\ q'.columns = q.columns
      /\ \A key, m : Counted(key, m)' = Counted(key, m)
  BY <1>1, <1>2, OutputsStay, SameRow DEF Written
<1>4. CASE q'.pc = "refused"
  <2>1. \A i \in DOMAIN q.rows : RowFits(q.rows[i])
    BY DEF RowsTyped
  <2>2. q'.rows = q.rows
    BY <1>1, <1>4
  <2> QED BY <1>1, <1>4, <2>1, <2>2 DEF RowsTyped, RowsSeen, RowFits, RowSeen
<1>5. CASE q'.pc = "join"
  <2>1. CASE q'.rows = q.rows /\ \A m \in DOMAIN q.columns : q.columns[m] = None
    <3>1. Measured = Outputs
      BY <2>1 DEF Measured, Calculated
    <3>2. \A i \in DOMAIN q.rows : RowFits(q.rows[i])
      BY DEF RowsTyped
    <3> QED BY <1>1, <1>3, <1>5, <2>1, <3>1, <3>2 DEF RowsTyped, RowsSeen, RowFits, RowSeen
  <2>2. CASE ~(q'.rows = q.rows /\ \A m \in DOMAIN q.columns : q.columns[m] = None)
    <3>1. /\ q'.rows = [i \in DOMAIN q.rows |-> [q.rows[i] EXCEPT !.values = Columns(q.rows[i])]]
          /\ \E m \in DOMAIN q.columns : q.columns[m] # None
          /\ \A i \in DOMAIN q.rows : \A m \in DOMAIN q.columns :
                 q.columns[m] # None => IsAmount(Evaluate(q.columns[m], q.rows[i].values))
      BY <1>5, <2>2, CalculateMoves DEF OrdersGrow
    <3>2. ASSUME NEW i \in DOMAIN q'.rows, NEW new, new = q'.rows[i]
          PROVE  RowFits(new)' /\ RowSeen(new)'
      <4>1. PICK row : row = q.rows[i]
        OBVIOUS
      <4>2. i \in DOMAIN q.rows /\ new = [row EXCEPT !.values = Columns(row)]
        BY <3>1, <3>2, <4>1
      <4>3. DOMAIN row = {"key", "values"}
        BY <4>1, <4>2 DEF RowsInOrder
      <4>4. new.key = row.key /\ new.values = Columns(row)
        BY <4>2, <4>3
      <4>5. /\ DOMAIN Columns(row) = Measured
            /\ \A n \in DOMAIN q.columns :
                   /\ Columns(row)[n] \in Amount0
                   /\ /\ q.columns[n] # None
                      /\ \E m \in Needs[q.columns[n]] : Counted(row.key, m) = {}
                      => Columns(row)[n] = None
        <5>1. RowFits(row) /\ RowSeen(row)
          BY <4>1, <4>2 DEF RowsTyped, RowsSeen
        <5>2. \A n \in DOMAIN q.columns : q.columns[n] # None => IsAmount(Evaluate(q.columns[n], row.values))
          BY <3>1, <4>1, <4>2
        <5> QED BY <1>1, <3>1, <5>1, <5>2, ColumnsFit
      <4>6. Measured = DOMAIN q.columns
        BY <3>1 DEF Measured, Calculated
      <4> QED BY <1>3, <1>5, <4>4, <4>5, <4>6 DEF RowFits, RowSeen
    <3>3. \A i \in DOMAIN q'.rows : \A new : new = q'.rows[i] => RowFits(new)' /\ RowSeen(new)'
      BY <3>2
    <3> QED BY <1>5, <3>3 DEF RowsTyped, RowsSeen, RowFits, RowSeen
  <2> QED BY <2>1, <2>2
<1> QED BY <1>1, <1>4, <1>5

LEMMA TagIs ==
  ASSUME CellsTyped, NEW key, NEW a
  PROVE  TagOf(key, a) \in {None} \cup Names
  BY DEF CellsTyped, TagOf

LEMMA WantedAreNoAxes ==
  ASSUME q.request.join # None, Joinable(q.request.join)
  PROVE  Wanted \cap Axis = {}
<1>1. Axis \subseteq Int
  BY DimsAreCounted DEF Axis
<1>2. Wanted = {} \/ Wanted \subseteq Attributes
  BY DEF Wanted, Joinable
<1> QED BY <1>1, <1>2, NamesAreNoNumbers

LEMMA AttachIs ==
  ASSUME CellsTyped, NEW row, NEW j, DOMAIN row = {"key", "values"}
  PROVE  /\ Attach(row, j).key = row.key
         /\ DOMAIN Attach(row, j).values = j.attributes \cup DOMAIN row.values
         /\ \A n \in j.attributes : Attach(row, j).values[n] \in {None} \cup Names
         /\ \A n \in DOMAIN row.values \ j.attributes : Attach(row, j).values[n] = row.values[n]
<1>1. PICK v : v = [a \in j.attributes \cup DOMAIN row.values |->
                       IF a \in j.attributes THEN TagOf(KeyOf(row.key), a) ELSE row.values[a]]
  OBVIOUS
<1>2. Attach(row, j) = [row EXCEPT !.values = v]
  BY <1>1 DEF Attach
<1>3. \A a \in j.attributes : v[a] \in {None} \cup Names
  BY <1>1, TagIs
<1> QED BY <1>1, <1>2, <1>3

LEMMA JoinFits ==
  ASSUME OrdersGrow, RowsInOrder, RequestStands, CellsTyped, ColumnsMean, RowsTyped, RowsSeen,
         Written, cube' = cube, Join
  PROVE  (RowsTyped /\ RowsSeen)'
<1>1. /\ q.pc = "join" /\ q'.pc \in {"page", "refused"} /\ q'.left = q.left
      /\ q'.pc = "refused" => q'.rows = q.rows
  BY JoinMoves DEF OrdersGrow, Moves, Fields
<1>2. ~TakeMeasures /\ ~EndFilters /\ ~Resolve /\ ~Scan
  BY <1>1 DEF TakeMeasures, EndFilters, Resolve, Scan
<1>3. /\ Outputs' = Outputs /\ Measured' = Measured /\ Wanted' = Wanted
      /\ q'.columns = q.columns
      /\ \A key, m : Counted(key, m)' = Counted(key, m)
  BY <1>1, <1>2, OutputsStay, SameRow DEF Written
<1>4. \A i \in DOMAIN q.rows : RowFits(q.rows[i]) /\ RowSeen(q.rows[i])
  BY DEF RowsTyped, RowsSeen
<1>5. CASE q'.pc = "refused"
  <2>1. \A i \in DOMAIN q.rows : RowFits(q.rows[i])'
    BY <1>1, <1>4, <1>5 DEF RowFits
  <2> QED BY <1>1, <1>5, <2>1 DEF RowsTyped, RowsSeen, RowFits, RowSeen
<1>6. CASE q'.pc = "page"
  <2>1. CASE q'.rows = q.rows /\ Wanted = {}
    <3>1. \A i \in DOMAIN q.rows : RowFits(q.rows[i])'
      BY <1>1, <1>3, <1>4, <1>6, <2>1 DEF RowFits
    <3>2. \A i \in DOMAIN q.rows : RowSeen(q.rows[i])'
      BY <1>1, <1>3, <1>4, <1>6, <2>1 DEF RowSeen
    <3> QED BY <1>3, <1>6, <2>1, <3>1, <3>2 DEF RowsTyped, RowsSeen, RowFits, RowSeen
  <2>2. CASE ~(q'.rows = q.rows /\ Wanted = {})
    <3>1. /\ Sql \/ q.request.join.attributes \cap Measured = {}
          /\ Joinable(q.request.join) /\ q.request.join # None
          /\ \E kept : /\ kept = Only(q.rows, {i \in DOMAIN q.rows : Survives(q.rows[i], q.request.join)})
                       /\ q'.rows = [i \in DOMAIN kept |-> Attach(kept[i], q.request.join)]
      <4>1. DOMAIN q = Fields
        BY DEF OrdersGrow
      <4> QED BY <1>6, <2>2, <4>1, JoinMoves
    <3>2. PICK j, I : j = q.request.join /\ I = {i \in DOMAIN q.rows : Survives(q.rows[i], q.request.join)}
      OBVIOUS
    <3>3. PICK kept : /\ kept = Only(q.rows, I)
                      /\ q'.rows = [i \in DOMAIN kept |-> Attach(kept[i], q.request.join)]
      BY <3>1, <3>2
    <3>4. Wanted = j.attributes /\ Wanted \cap Axis = {}
      BY <3>1, <3>2, WantedAreNoAxes DEF Wanted
    <3>5. ASSUME NEW n \in DOMAIN q.columns, q.columns[n] # None PROVE n \in Measured \ Wanted
      <4>1. n \in Measured
        BY <3>5 DEF Measured, Calculated
      <4>2. PICK e \in Range(Asked) : e.name = n /\ e.expr = q.columns[n]
        BY <1>1 DEF ColumnsMean, Built, Running
      <4>3. EntryFits(e)
        BY <1>1, AskedFit DEF Running
      <4>4. ~Sql
        BY <3>5, <4>2, <4>3 DEF EntryFits, Sql
      <4> QED BY <3>1, <3>2, <3>4, <4>1, <4>4
    <3>6. ASSUME NEW i \in DOMAIN q'.rows, NEW new, new = q'.rows[i]
          PROVE  RowFits(new)' /\ RowSeen(new)'
      <4>1. \E k \in DOMAIN q.rows : kept[i] = q.rows[k]
        <5>1. q.rows \in Seq(Range(q.rows)) /\ i \in DOMAIN kept
          BY <3>3, <3>6 DEF RowsInOrder, IsList
        <5>2. kept \in Seq(Range(q.rows)) /\ \E f : Kept(kept, q.rows, I, Len(q.rows), f)
          BY <3>3, <5>1, OnlyIs
        <5>3. PICK f : Kept(kept, q.rows, I, Len(q.rows), f)
          BY <5>2
        <5>4. i \in 1..Len(kept)
          BY <5>1, <5>2, SeqIs
        <5>5. f[i] \in 1..Len(q.rows) /\ kept[i] = q.rows[f[i]]
          BY <5>3, <5>4 DEF Kept
        <5>6. f[i] \in DOMAIN q.rows
          BY <5>1, <5>5, SeqIs
        <5> QED BY <5>5, <5>6
      <4>2. PICK row : row = kept[i] /\ new = Attach(row, j)
        BY <3>2, <3>3, <3>6
      <4>3. DOMAIN row = {"key", "values"}
        BY <4>1, <4>2 DEF RowsInOrder
      <4>4. /\ RowSeen(row) /\ DOMAIN row.values = Measured
            /\ \A m \in DOMAIN row.values : row.values[m] \in Amount0
        BY <1>1, <1>4, <4>1, <4>2 DEF RowFits
      <4>5. /\ new.key = row.key /\ DOMAIN new.values = Measured \cup Wanted
            /\ \A n \in Wanted : new.values[n] \in {None} \cup Names
            /\ \A n \in Measured \ Wanted : new.values[n] = row.values[n]
        BY <3>4, <4>2, <4>3, <4>4, AttachIs
      <4>6. RowFits(new)'
        BY <1>3, <1>6, <4>4, <4>5 DEF RowFits, Amount0
      <4>7. ASSUME NEW n \in DOMAIN q.columns, q.columns[n] # None,
                   \E m \in Needs[q.columns[n]] : Counted(new.key, m) = {}
            PROVE  new.values[n] = None
        <5>1. row.values[n] = None
          BY <1>1, <4>4, <4>5, <4>7 DEF RowSeen
        <5> QED BY <3>5, <4>5, <4>7, <5>1
      <4>8. RowSeen(new)'
        BY <1>3, <1>6, <4>7 DEF RowSeen
      <4> QED BY <4>6, <4>8
    <3>7. \A i \in DOMAIN q'.rows : \A new : new = q'.rows[i] => RowFits(new)' /\ RowSeen(new)'
      BY <3>6
    <3> QED BY <1>3, <1>6, <3>4, <3>7 DEF RowsTyped, RowsSeen, RowFits, RowSeen
  <2> QED BY <2>1, <2>2
<1> QED BY <1>1, <1>5, <1>6

LEMMA OrderAndLimitFits ==
  ASSUME OrdersGrow, RowsInOrder, RowsTyped, RowsSeen, Written, cube' = cube, OrderAndLimit
  PROVE  (RowsTyped /\ RowsSeen)'
<1>1. /\ q.pc = "page" /\ q'.pc \in {"done", "refused"} /\ q'.left = q.left /\ q'.rows = q.rows
      /\ q'.pc = "done" => \A i \in DOMAIN q.request.order :
             q.request.order[i].column \in q.request.groupBy \cup Measured \cup Wanted
  BY OrderAndLimitMoves DEF OrdersGrow, Moves, Fields
<1>2. ~TakeMeasures /\ ~EndFilters /\ ~Resolve /\ ~Scan
  BY <1>1 DEF TakeMeasures, EndFilters, Resolve, Scan
<1>3. /\ Outputs' = Outputs /\ Measured' = Measured /\ Wanted' = Wanted
      /\ q'.columns = q.columns /\ q'.request = q.request
      /\ \A key, m : Counted(key, m)' = Counted(key, m)
  BY <1>1, <1>2, OutputsStay, SameRow DEF Written
<1>4. \A i \in DOMAIN q.rows : RowFits(q.rows[i]) /\ RowSeen(q.rows[i])
  BY DEF RowsTyped, RowsSeen
<1>5. Wanted \cap Axis = {}
  BY <1>1 DEF RowsTyped
<1>6. \A i \in DOMAIN q.rows : RowFits(q.rows[i])'
  BY <1>1, <1>3, <1>4 DEF RowFits
<1>7. \A i \in DOMAIN q.rows : RowSeen(q.rows[i])'
  BY <1>1, <1>3, <1>4 DEF RowSeen
<1> QED BY <1>1, <1>3, <1>5, <1>6, <1>7 DEF RowsTyped, RowsSeen, RowFits, RowSeen

LEMMA RowsStep ==
  ASSUME OrdersGrow, RowsInOrder, RequestStands, CellsTyped, FoldsTyped, ColumnsTyped, ColumnsMean,
         GroupsTyped, GroupsSeen, RowsTyped, RowsSeen, [Next]_vars
  PROVE  (RowsTyped /\ RowsSeen)'
<1>1. DOMAIN q = Fields /\ DOMAIN <<>> = {}
  BY NoneIs DEF OrdersGrow
<1>2. ASSUME q'.rows = <<>>, q'.pc \notin {"page", "done"} PROVE (RowsTyped /\ RowsSeen)'
  BY <1>1, <1>2 DEF RowsTyped, RowsSeen
<1>3. CASE \E r \in Requests : Ask(r)
  BY <1>2, <1>3, AskedNow
<1>4. CASE ~\E r \in Requests : Ask(r)
  <2>1. Written /\ Led /\ cube' = cube
    BY <1>1, <1>4, Writers
  <2>2. CASE q.pc \in Early
    <3>1. q.rows = <<>> /\ ~Emitting /\ ~Calculate /\ ~Join /\ ~OrderAndLimit
      BY <2>2 DEF RowsInOrder, Emitting, Emit, Calculate, Join, OrderAndLimit, Early
    <3>2. q'.rows = <<>> /\ q'.pc \notin {"page", "done"}
      BY <2>1, <2>2, <3>1 DEF Written, Led, Early
    <3> QED BY <1>2, <3>2
  <2>3. CASE Folding
    <3>1. PICK c \in q.left : Fold(c)
      BY <2>3 DEF Folding
    <3>2. q.rows = <<>>
      BY <3>1 DEF RowsInOrder
    <3>3. q'.rows = <<>> /\ q'.pc = "fold"
      BY <1>1, <3>1, <3>2, FoldMoves DEF Moves, Fields
    <3> QED BY <1>2, <3>3
  <2>4. CASE Emitting
    BY <2>1, <2>4, EmitFits DEF Emitting
  <2>5. CASE Calculate
    BY <2>1, <2>5, CalculateFits
  <2>6. CASE Join
    BY <2>1, <2>6, JoinFits
  <2>7. CASE OrderAndLimit
    BY <2>1, <2>7, OrderAndLimitFits
  <2>8. CASE q' = q
    <3>1. /\ Outputs' = Outputs /\ Measured' = Measured /\ Wanted' = Wanted
          /\ \A key, m : Counted(key, m)' = Counted(key, m)
      BY <2>1, <2>8 DEF Outputs, Measured, Calculated, Wanted, Pivoted, Sql, Counted, InScope, At,
                        KeyAxes, MeasureOf
    <3>2. \A i \in DOMAIN q.rows : RowFits(q.rows[i])' /\ RowSeen(q.rows[i])'
      BY <2>8, <3>1 DEF RowFits, RowSeen, RowsTyped, RowsSeen
    <3> QED BY <2>8, <3>1, <3>2 DEF RowsTyped, RowsSeen, RowFits, RowSeen
  <2>9. TakeMeasures \/ AddFilter \/ EndFilters \/ EnsureDisplayOrder \/ Resolve \/ Scan => q.pc \in Early
    BY DEF TakeMeasures, AddFilter, EndFilters, EnsureDisplayOrder, Resolve, Scan, Early
  <2> QED BY <1>1, <1>4, <2>2, <2>3, <2>4, <2>5, <2>6, <2>7, <2>8, <2>9, Steps DEF Folding, Emitting
<1> QED BY <1>3, <1>4

-------------------------------------------------------------------------------
(* What a done query has looked at.                                        *)
AllTyped ==
    /\ RequestStands /\ CellsTyped /\ FoldsTyped /\ ColumnsTyped /\ ScopeTyped
    /\ GroupsTyped /\ RowsTyped

AllMeant ==
    /\ ColumnsMean /\ FiltersMean /\ ScopesMean /\ DeniedMean /\ GroupsSeen /\ RowsSeen

LEMMA InitTyped == Init => LeavesKnown /\ AllTyped /\ AllMeant
<1> SUFFICES ASSUME Init PROVE LeavesKnown /\ AllTyped /\ AllMeant
  OBVIOUS
<1>1. /\ q.pc = "idle" /\ q.folds = <<>> /\ q.columns = <<>> /\ q.measures = {}
      /\ q.filters = [a \in Axis |-> None] /\ q.scope = [a \in Axis |-> None]
      /\ q.groups = <<>> /\ q.rows = <<>> /\ q.snapshot = <<>>
  BY DEF Init, Idle
<1>2. DOMAIN <<>> = {}
  BY NoneIs
<1>3. LeavesKnown
  BY LeavesAreListedOnce DEF Init, LeavesKnown
<1>4. CellsTyped
  <2>1. cells \in Starts /\ tags = Tagged
    BY DEF Init
  <2> QED BY <1>1, <1>2, <2>1, CellsAreAtLeaves, NamesAreSpelled DEF CellsTyped
<1>5. RequestStands /\ FoldsTyped /\ ColumnsTyped /\ ScopeTyped
  BY <1>1, <1>2 DEF RequestStands, FoldsTyped, ColumnsTyped, ScopeTyped, Weighing, Running, Built
<1>6. GroupsTyped /\ RowsTyped /\ GroupsSeen /\ RowsSeen
  BY <1>1, <1>2 DEF GroupsTyped, RowsTyped, GroupsSeen, RowsSeen
<1>7. ColumnsMean /\ DeniedMean /\ FiltersMean /\ ScopesMean
  BY <1>1 DEF ColumnsMean, DeniedMean, FiltersMean, ScopesMean, Scoped, Running, Built, Filtered
<1> QED BY <1>3, <1>4, <1>5, <1>6, <1>7 DEF AllTyped, AllMeant

LEMMA StepTyped ==
  ASSUME OrdersGrow, RowsInOrder, NothingIsLeft, LeavesKnown, AllTyped, AllMeant, [Next]_vars,
         OrdersGrow'
  PROVE  (LeavesKnown /\ AllTyped /\ AllMeant)'
<1>1. LeavesKnown'
  BY KnownGrows
<1>2. RequestStands' /\ CellsTyped'
  BY RequestStep, CellsStep DEF AllTyped
<1>3. FoldsTyped' /\ ColumnsTyped'
  BY ColumnsStep DEF AllTyped
<1>4. ScopeTyped'
  BY ScopeTypedStep DEF AllTyped, AllMeant
<1>5. GroupsTyped' /\ GroupsSeen'
  BY GroupsStep, GroupsSeenStep DEF AllTyped, AllMeant
<1>6. RowsTyped' /\ RowsSeen'
  BY RowsStep DEF AllTyped, AllMeant
<1>7. ColumnsMean' /\ FiltersMean'
  BY ColumnsMeanStep, FiltersStep DEF AllTyped, AllMeant
<1>8. ScopesMean' /\ DeniedMean'
  BY ScopesStep, DeniedStep DEF AllTyped, AllMeant
<1> QED BY <1>1, <1>2, <1>3, <1>4, <1>5, <1>6, <1>7, <1>8 DEF AllTyped, AllMeant

LEMMA MeantOnce ==
  ASSUME OneEach, NEW f \in Meant, NEW g \in Meant, f.axis = g.axis
  PROVE  f = g
<1>1. PICK D : D = {b \in Defaulted : \A h \in Range(q.request.filters) : h.axis # b}
  OBVIOUS
<1>2. \A h \in Meant : \/ h \in Range(q.request.filters)
                       \/ \E a \in D : h = [axis |-> a, op |-> "equals", members |-> <<Default[a]>>]
  BY <1>1 DEF Meant
<1>3. CASE f \in Range(q.request.filters)
  <2>1. g \in Range(q.request.filters)
    BY <1>1, <1>2, <1>3
  <2> QED BY <1>3, <2>1 DEF OneEach
<1>4. CASE f \notin Range(q.request.filters)
  <2>1. PICK a \in D : f = [axis |-> a, op |-> "equals", members |-> <<Default[a]>>]
    BY <1>2, <1>4
  <2>2. g \notin Range(q.request.filters)
    BY <1>1, <2>1
  <2>3. PICK b \in D : g = [axis |-> b, op |-> "equals", members |-> <<Default[b]>>]
    BY <1>2, <2>2
  <2>4. a = b
    BY <2>1, <2>3
  <2> QED BY <2>1, <2>3, <2>4
<1> QED BY <1>3, <1>4

LEMMA MeantAxes ==
  ASSUME RequestStands, q.pc \in Running, NEW f \in Meant
  PROVE  f.axis \in Axis
<1>1. CASE f \in Range(q.request.filters)
  BY <1>1, FilterIs
<1>2. CASE f \notin Range(q.request.filters)
  <2>1. PICK a \in Defaulted : f = [axis |-> a, op |-> "equals", members |-> <<Default[a]>>]
    BY <1>2 DEF Meant
  <2> QED BY <2>1 DEF Defaulted
<1> QED BY <1>1, <1>2

(* A cell in scope passes every filter.                                    *)
LEMMA InScopePasses ==
  ASSUME OrdersGrow, LeavesKnown, AllTyped, AllMeant, q.pc = "done", OneEach,
         NEW c, InScope(c), NEW f \in Meant
  PROVE  Passes(c, f)
<1>1. RequestStands /\ FiltersMean /\ ScopesMean
  BY DEF AllTyped, AllMeant
<1>2. PICK a \in Axis : a = f.axis
  BY <1>1, MeantAxes DEF Running
<1>3. FilterMeans(a) /\ ScopeMean(a) /\ Handled = Meant
  BY <1>1 DEF FiltersMean, ScopesMean, Scoped, Handled, Running
<1>4. q.filters[a] # None
  BY <1>2, <1>3 DEF FilterMeans
<1>5. PICK g \in Meant : g.axis = a /\ Covers(a, g, q.filters[a])
  BY <1>3, <1>4 DEF FilterMeans
<1>6. g = f
  BY <1>2, <1>5, MeantOnce
<1>7. q.scope[a] # None /\ c[a] \in DOMAIN q.scope[a]
  BY <1>3, <1>4 DEF ScopeMean, InScope
<1>8. PICK x \in Range(q.filters[a]) : c[a] \in DOMAIN Stored(a, x)
  BY <1>3, <1>4, <1>7 DEF ScopeMean
<1>9. CASE f.op = "notEquals"
  <2>1. x \in Range(known[a]) /\ x \notin DOMAIN Under(a, f.members[1])
    BY <1>5, <1>6, <1>8, <1>9 DEF Covers
  <2>2. Stored(a, x) = [l \in {x} |-> 1]
    BY <2>1, StoredIs
  <2>3. c[a] = x
    BY <1>8, <2>2
  <2> QED BY <1>2, <1>9, <2>1, <2>3 DEF Passes
<1>10. CASE f.op # "notEquals"
  <2>1. x \in Range(f.members)
    BY <1>5, <1>6, <1>8, <1>10 DEF Covers
  <2> QED BY <1>2, <1>8, <1>10, <2>1 DEF Passes
<1> QED BY <1>9, <1>10

LEMMA CountedAreMeant ==
  ASSUME OrdersGrow, LeavesKnown, AllTyped, AllMeant, q.pc = "done", Plain, NEW key, NEW m
  PROVE  Counted(key, m) \subseteq CellsOf(key, m)
<1> SUFFICES ASSUME NEW c \in Counted(key, m) PROVE c \in CellsOf(key, m)
  OBVIOUS
<1>1. /\ c \in DOMAIN q.snapshot /\ InScope(c) /\ \A a \in Axis : c[a] \notin q.denied[a]
      /\ At(c, KeyAxes) = key /\ MeasureOf(c) = m
  BY DEF Counted
<1>2. OneEach /\ (Pivoted \/ cube.measureAxis = 0)
  BY DEF Plain, OneEach
<1>3. \A f \in Meant : Passes(c, f)
  BY <1>1, <1>2, InScopePasses
<1>4. ASSUME NEW a \in Axis, NEW n \in q.request.denied[a] PROVE c[a] \notin {n} \cup DOMAIN Under(a, n)
  <2>1. q.denied = [b \in Axis |-> Hidden(b)]
    BY DEF AllMeant, DeniedMean, Filtered, Built, Running
  <2>2. q.denied[a] = Hidden(a)
    BY <2>1
  <2>3. c[a] \notin Hidden(a)
    BY <1>1, <2>2
  <2>4. DenialsKnown
    BY DEF AllTyped, RequestStands, Running, IsRequest, DenialsKnown
  <2>5. Hidden(a) = UNION {Under1(a, d) : d \in q.request.denied[a]}
    BY <2>4, HiddenIs
  <2> QED BY <1>4, <2>3, <2>5 DEF Under1
<1>5. c \in Visible
  BY <1>1, <1>3, <1>4 DEF Visible
<1>6. At(c, RowAxes) = key
  BY <1>1, <1>2, KeyAxesAre
<1>7. cube.measureAxis # 0 => c[cube.measureAxis] = m
  BY <1>1, <1>2 DEF MeasureOf
<1> QED BY <1>5, <1>6, <1>7 DEF CellsOf

LEMMA FormulaColumn ==
  ASSUME OrdersGrow, AllTyped, AllMeant, q.pc = "done", Plain,
         NEW e \in Range(Asked), e.expr # None
  PROVE  e.name \in DOMAIN q.columns /\ q.columns[e.name] = e.expr
<1>1. IsRequest(q.request) /\ ColumnsMean
  BY DEF AllTyped, AllMeant, RequestStands, Running
<1>2. IsList(q.request.measures)
  BY <1>1 DEF IsRequest
<1>3. PICK d \in Range(q.request.measures) : e \in Range(ColumnsOf(d))
  BY <1>2, AskedAre
<1>4. d = [name |-> d.name, fold |-> d.fold, expr |-> d.expr]
  BY <1>1, <1>3 DEF IsRequest
<1>5. ~IsAll(d)
  <2> SUFFICES ASSUME IsAll(d) PROVE FALSE
    OBVIOUS
  <2>1. PICK n \in Range(known[cube.measureAxis]) : e = [d EXCEPT !.name = n]
    BY <1>3, ColumnsAre
  <2>2. d.expr = None
    BY DEF IsAll
  <2> QED BY <1>4, <2>1, <2>2
<1>6. e = d
  BY <1>3, <1>5, ColumnsAre
<1>7. e.name \in DOMAIN q.columns
  BY <1>1, <1>6 DEF ColumnsMean, Built, Running
<1>8. PICK g \in Range(Asked) : g.name = e.name /\ g.expr = q.columns[e.name]
  BY <1>1, <1>7 DEF ColumnsMean, Built, Running
<1>9. g = e
  BY <1>8 DEF Plain
<1> QED BY <1>7, <1>8, <1>9

LEMMA NothingIsInvented ==
  ASSUME OrdersGrow, LeavesKnown, AllTyped, AllMeant
  PROVE  NoNumberFromNothing
<1> SUFFICES ASSUME q.pc = "done", Plain, NEW i \in DOMAIN q.rows, NEW e \in Range(Asked),
                    e.expr # None, NEW m \in Needs[e.expr], CellsOf(q.rows[i].key, m) = {}
             PROVE  q.rows[i].values[e.name] = None
  BY DEF NoNumberFromNothing
<1>1. e.name \in DOMAIN q.columns /\ q.columns[e.name] = e.expr
  BY FormulaColumn
<1>2. Counted(q.rows[i].key, m) = {}
  BY CountedAreMeant
<1>3. RowSeen(q.rows[i])
  BY DEF AllMeant, RowsSeen
<1> QED BY <1>1, <1>2, <1>3 DEF RowSeen

(* Whatever the formulas and whatever is written meanwhile, a formula      *)
(* leaves its row empty where a measure it needs has no visible cell.      *)
THEOREM FormulasInventNothing == Spec => []NoNumberFromNothing
<1> DEFINE IInv == OrdersGrow /\ RowsInOrder /\ NothingIsLeft /\ LeavesKnown /\ AllTyped /\ AllMeant
<1>1. Init => IInv
  BY InitOrders, InitTyped DEF Init, Idle, NothingIsLeft
<1>2. IInv /\ [Next]_vars => IInv'
  BY StepOrders, StepRows, StepLeft, StepTyped
<1>3. IInv => NoNumberFromNothing
  BY NothingIsInvented
<1> QED BY <1>1, <1>2, <1>3, PTL DEF Spec

-------------------------------------------------------------------------------
(* The order of a page.  Values are compared by their class first, then as *)
(* fractions or by their spelling.                                         *)
LEMMA ScaledIs ==
  ASSUME NEW x \in Int, NEW y \in Int, NEW k \in Nat, k > 0
  PROVE  x < y <=> x * k < y * k
<1>1. PICK d \in Int : d = y - x
  OBVIOUS
<1>2. y * k = x * k + d * k
  BY <1>1
<1>3. d > 0 <=> d * k > 0
  OBVIOUS
<1>4. x * k \in Int /\ d * k \in Int /\ y * k \in Int
  OBVIOUS
<1> QED BY <1>1, <1>2, <1>3, <1>4

Less(u, v) == u[1] * v[2] < v[1] * u[2]

LEMMA LessIs ==
  ASSUME NEW u \in Fractions, NEW v \in Fractions, NEW w \in Fractions
  PROVE  /\ ~(Less(u, v) /\ Less(v, u))
         /\ Less(u, w) => Less(u, v) \/ Less(v, w)
<1>1. PICK a, b, c \in Int, d, e, f \in Nat :
          /\ d > 0 /\ e > 0 /\ f > 0
          /\ a = u[1] /\ b = v[1] /\ c = w[1] /\ d = u[2] /\ e = v[2] /\ f = w[2]
  BY FractionIs
<1>2. PICK x, y, z, p, r, s \in Int :
          /\ x = a * e /\ y = b * d /\ z = b * f /\ p = c * e /\ r = a * f /\ s = c * d
  BY FractionIs
<1>3. (Less(u, v) <=> x < y) /\ (Less(v, w) <=> z < p) /\ (Less(u, w) <=> r < s) /\ (Less(v, u) <=> y < x)
  BY <1>1, <1>2 DEF Less
<1>4. (x < y <=> x * f < y * f) /\ (z < p <=> z * d < p * d) /\ (r < s <=> r * e < s * e)
  BY <1>1, <1>2, ScaledIs
<1>5. x * f = r * e /\ y * f = z * d /\ p * d = s * e
  BY <1>1, <1>2
<1>6. r * e \in Int /\ z * d \in Int /\ s * e \in Int
  BY <1>1, <1>2, FractionIs
<1> QED BY <1>2, <1>3, <1>4, <1>5, <1>6

Sortable == {None} \cup Names \cup Fractions
Class(x) == IF x = None THEN 0 ELSE IF x \in Names THEN 2 ELSE 1

LEMMA SmallerIs ==
  ASSUME NEW u \in Sortable, NEW v \in Sortable, NEW w \in Sortable
  PROVE  /\ ~(Smaller(u, v) /\ Smaller(v, u))
         /\ Smaller(u, w) => Smaller(u, v) \/ Smaller(v, w)
<1>1. ASSUME NEW x \in Sortable
      PROVE  /\ Class(x) \in 0..2
             /\ Class(x) = 1 => x \in Fractions
             /\ Class(x) = 2 => Spelling[x] \in Nat
  BY NamesAreSpelled DEF Class, Sortable
<1>2. ASSUME NEW x \in Sortable, NEW y \in Sortable
      PROVE  Smaller(x, y) <=> \/ Class(x) < Class(y)
                               \/ Class(x) = 2 /\ Class(y) = 2 /\ Spelling[x] < Spelling[y]
                               \/ Class(x) = 1 /\ Class(y) = 1 /\ Less(x, y)
  BY DEF Smaller, Class, Less
<1>3. PICK a, b, c \in 0..2 : a = Class(u) /\ b = Class(v) /\ c = Class(w)
  BY <1>1
<1>4. CASE a = 1 /\ b = 1 /\ c = 1
  BY <1>1, <1>2, <1>3, <1>4, LessIs
<1>5. CASE a = 1 /\ b = 1 /\ c # 1
  BY <1>1, <1>2, <1>3, <1>5, LessIs
<1>6. CASE a # 1 \/ b # 1
  BY <1>1, <1>2, <1>3, <1>6
<1> QED BY <1>4, <1>5, <1>6

(* Rows are compared by the first key that tells them apart.               *)
Comparable(r) ==
    \A i \in DOMAIN q.request.order : Cell(r, q.request.order[i].column) \in Sortable

LEMMA CompareIs ==
  ASSUME NEW r, NEW s, NEW t, Comparable(r), Comparable(s), Comparable(t),
         NEW i \in DOMAIN q.request.order, NEW k, k = q.request.order[i]
  PROVE  /\ ~(Compare(k, r, s) /\ Compare(k, s, r))
         /\ Compare(k, r, t) => Compare(k, r, s) \/ Compare(k, s, t)
<1>1. PICK x, y, z \in Sortable :
          x = Cell(r, k.column) /\ y = Cell(s, k.column) /\ z = Cell(t, k.column)
  BY DEF Comparable
<1>2. \A u, v \in Sortable : ~(Smaller(u, v) /\ Smaller(v, u))
  BY SmallerIs
<1>3. \A u, v, w \in Sortable : Smaller(u, w) => Smaller(u, v) \/ Smaller(v, w)
  BY SmallerIs
<1> QED BY <1>1, <1>2, <1>3 DEF Compare

LEMMA BeforeIs ==
  ASSUME NEW r, NEW s, NEW t, Comparable(r), Comparable(s), Comparable(t),
         NEW n \in Nat, DOMAIN q.request.order = 1..n
  PROVE  /\ ~(Before(r, s) /\ Before(s, r))
         /\ Before(r, t) => Before(r, s) \/ Before(s, t)
<1> DEFINE C(i, u, v) == Compare(q.request.order[i], u, v)
<1>1. \A u, v : Before(u, v) <=> \E i \in 1..n : C(i, u, v) /\ \A j \in 1..(i - 1) : ~C(j, v, u)
  BY DEF Before
<1>2. \A i \in 1..n : \A u, v, w \in {r, s, t} :
          /\ ~(C(i, u, v) /\ C(i, v, u))
          /\ C(i, u, w) => C(i, u, v) \/ C(i, v, w)
  BY CompareIs
<1> HIDE DEF C
<1>3. ~(Before(r, s) /\ Before(s, r))
  <2> SUFFICES ASSUME NEW i \in 1..n, C(i, r, s), \A j \in 1..(i - 1) : ~C(j, s, r),
                      NEW k \in 1..n, C(k, s, r), \A j \in 1..(k - 1) : ~C(j, r, s)
               PROVE  FALSE
    BY <1>1
  <2>1. i < k \/ k < i \/ i = k
    OBVIOUS
  <2>2. ~(i < k)
    OBVIOUS
  <2>3. ~(k < i)
    OBVIOUS
  <2> QED BY <1>2, <2>1, <2>2, <2>3
<1>4. ASSUME Before(r, t) PROVE Before(r, s) \/ Before(s, t)
  <2>1. PICK i \in 1..n : C(i, r, t) /\ \A j \in 1..(i - 1) : ~C(j, t, r)
    BY <1>1, <1>4
  <2>2. PICK D : D = {j \in 1..i : C(j, r, s) \/ C(j, s, r) \/ C(j, s, t) \/ C(j, t, s)}
    OBVIOUS
  <2>3. i \in D /\ D \subseteq Nat
    BY <1>2, <2>1, <2>2
  <2>4. PICK k \in D : \A j \in D : k <= j
    BY <2>3, LeastExists
  <2>5. k \in 1..n /\ k \in 1..i
    BY <2>1, <2>2
  <2>6. \A j \in 1..(k - 1) : ~C(j, s, r) /\ ~C(j, t, s)
    BY <2>2, <2>4, <2>5
  <2>7. ~C(k, t, r)
    BY <1>2, <2>1, <2>5
  <2>8. C(k, r, s) \/ C(k, s, t)
    BY <1>2, <2>2, <2>5, <2>7
  <2> QED BY <1>1, <2>5, <2>6, <2>8
<1> QED BY <1>3, <1>4

(* A strict order of 1..n lists it, and each in the place of those before. *)
Orders1(R, n) ==
    \A i, j, k \in 1..n :
        /\ i # j => <<i, j>> \in R \/ <<j, i>> \in R
        /\ ~(<<i, j>> \in R /\ <<j, i>> \in R)
        /\ <<i, j>> \in R /\ <<j, k>> \in R => <<i, k>> \in R

Lists(s, m, R) ==
    s \in [1..m -> 1..m] /\ \A i, j \in 1..m : i < j => <<s[i], s[j]>> \in R

LEMMA OneIsInserted ==
  ASSUME NEW n \in Nat, NEW R, Orders1(R, n), NEW m \in Nat, m + 1 <= n, NEW s, Lists(s, m, R)
  PROVE  \E t : Lists(t, m + 1, R)
<1>1. PICK P : P = {i \in 1..(m + 1) : i = m + 1 \/ <<m + 1, s[i]>> \in R}
  OBVIOUS
<1>2. m + 1 \in P /\ P \subseteq Nat
  BY <1>1
<1>3. PICK p \in P : \A i \in P : p <= i
  BY <1>2, LeastExists
<1>4. PICK t : t = [i \in 1..(m + 1) |-> IF i < p THEN s[i] ELSE IF i = p THEN m + 1 ELSE s[i - 1]]
  OBVIOUS
<1>5. p \in 1..(m + 1)
  BY <1>1
<1>6. \A i \in 1..m : s[i] \in 1..m /\ s[i] \in 1..n
  BY DEF Lists
<1>7. ASSUME NEW i \in 1..(m + 1)
      PROVE  /\ i < p => t[i] = s[i] /\ i \in 1..m
             /\ i = p => t[i] = m + 1
             /\ i > p => t[i] = s[i - 1] /\ i - 1 \in 1..m
  BY <1>4, <1>5
<1>8. ASSUME NEW i \in 1..(m + 1) PROVE t[i] \in 1..(m + 1)
  <2>1. CASE i < p
    <3>1. t[i] = s[i] /\ s[i] \in 1..m
      BY <1>6, <1>7, <2>1
    <3> QED BY <3>1
  <2>2. CASE i = p
    BY <1>7, <2>2
  <2>3. CASE i > p
    <3>1. t[i] = s[i - 1] /\ s[i - 1] \in 1..m
      BY <1>6, <1>7, <2>3
    <3> QED BY <3>1
  <2> QED BY <1>5, <2>1, <2>2, <2>3
<1>9. ASSUME NEW i \in 1..m, i < p PROVE <<s[i], m + 1>> \in R
  <2>1. i \notin P
    BY <1>3, <1>5, <1>9
  <2>2. <<m + 1, s[i]>> \notin R
    BY <1>1, <2>1
  <2>3. s[i] \in 1..n /\ m + 1 \in 1..n /\ s[i] # m + 1
    BY <1>6
  <2> QED BY <2>2, <2>3 DEF Orders1
<1>10. ASSUME NEW i \in 1..m, p <= i PROVE <<m + 1, s[i]>> \in R
  <2>1. p \in 1..m
    BY <1>5, <1>10
  <2>2. <<m + 1, s[p]>> \in R
    BY <1>1, <2>1
  <2>3. p = i \/ <<s[p], s[i]>> \in R
    BY <1>10, <2>1 DEF Lists
  <2>4. s[p] \in 1..n /\ s[i] \in 1..n /\ m + 1 \in 1..n
    BY <1>6, <2>1
  <2> QED BY <2>2, <2>3, <2>4 DEF Orders1
<1>11. ASSUME NEW i \in 1..(m + 1), NEW j \in 1..(m + 1), i < j PROVE <<t[i], t[j]>> \in R
  <2>1. CASE j < p
    <3>1. i < p
      BY <1>5, <1>11, <2>1
    <3>2. t[i] = s[i] /\ t[j] = s[j] /\ i \in 1..m /\ j \in 1..m
      BY <1>7, <2>1, <3>1
    <3> QED BY <1>11, <3>2 DEF Lists
  <2>2. CASE j = p
    <3>1. t[i] = s[i] /\ i \in 1..m /\ t[j] = m + 1 /\ i < p
      BY <1>7, <1>11, <2>2
    <3> QED BY <1>9, <3>1
  <2>3. CASE j > p /\ i < p
    <3>1. t[i] = s[i] /\ i \in 1..m /\ t[j] = s[j - 1] /\ j - 1 \in 1..m
      BY <1>7, <2>3
    <3>2. i < j - 1
      BY <1>5, <2>3
    <3> QED BY <3>1, <3>2 DEF Lists
  <2>4. CASE j > p /\ i = p
    <3>1. t[i] = m + 1 /\ t[j] = s[j - 1] /\ j - 1 \in 1..m
      BY <1>7, <2>4
    <3>2. p <= j - 1
      BY <1>5, <2>4
    <3> QED BY <1>10, <3>1, <3>2
  <2>5. CASE j > p /\ i > p
    <3>1. t[i] = s[i - 1] /\ i - 1 \in 1..m /\ t[j] = s[j - 1] /\ j - 1 \in 1..m
      BY <1>7, <2>5
    <3>2. i - 1 < j - 1
      BY <1>11
    <3> QED BY <3>1, <3>2 DEF Lists
  <2> QED BY <1>5, <2>1, <2>2, <2>3, <2>4, <2>5
<1>12. t \in [1..(m + 1) -> 1..(m + 1)]
  BY <1>4, <1>8
<1> QED BY <1>11, <1>12 DEF Lists

LEMMA ListedIs ==
  ASSUME NEW n \in Nat, NEW R, Orders1(R, n), NEW s, s = Listed(1..n, R)
  PROVE  /\ Lists(s, n, R)
         /\ \A m \in 1..n : Cardinality({x \in 1..n : <<x, s[m]>> \in R}) = m - 1
<1>1. PICK T : T = {m \in Nat : m <= n => \E t : Lists(t, m, R)}
  OBVIOUS
<1>2. 0 \in T
  <2>1. PICK t : t = [i \in 1..0 |-> i]
    OBVIOUS
  <2>2. Lists(t, 0, R)
    BY <2>1 DEF Lists
  <2> QED BY <1>1, <2>2
<1>3. ASSUME NEW m \in Nat, m \in T PROVE m + 1 \in T
  <2> SUFFICES ASSUME m + 1 <= n PROVE \E t : Lists(t, m + 1, R)
    BY <1>1
  <2>1. PICK t : Lists(t, m, R)
    BY <1>1, <1>3
  <2> QED BY <2>1, OneIsInserted
<1>4. n \in T
  BY <1>2, <1>3, SetInduction
<1>5. Cardinality(1..n) = n /\ IsFiniteSet(1..n)
  <2>1. 1 \in Int /\ n \in Int
    OBVIOUS
  <2> QED BY <2>1, FS_Interval
<1>6. Listed(1..n, R) = CHOOSE t \in [1..n -> 1..n] : \A i, j \in DOMAIN t : i < j => <<t[i], t[j]>> \in R
  BY <1>5 DEF Listed
<1>7. \E t \in [1..n -> 1..n] : \A i, j \in DOMAIN t : i < j => <<t[i], t[j]>> \in R
  BY <1>1, <1>4 DEF Lists
<1>8. Lists(s, n, R)
  BY <1>6, <1>7 DEF Lists
<1>9. \A i, j \in 1..n : s[i] = s[j] => i = j
  <2> SUFFICES ASSUME NEW i \in 1..n, NEW j \in 1..n, i < j, s[i] = s[j] PROVE FALSE
    OBVIOUS
  <2>1. <<s[i], s[j]>> \in R /\ s[i] \in 1..n
    BY <1>8 DEF Lists
  <2> QED BY <2>1 DEF Orders1
<1>10. \A x \in 1..n : \E l \in 1..n : s[l] = x
  <2>1. s \in Injection(1..n, 1..n)
    BY <1>8, <1>9 DEF Lists, Injection, IsInjective
  <2>2. s \in Surjection(1..n, 1..n)
    BY <1>5, <2>1, FS_Injection
  <2> QED BY <2>2 DEF Surjection
<1>11. ASSUME NEW m \in 1..n PROVE Cardinality({x \in 1..n : <<x, s[m]>> \in R}) = m - 1
  <2>1. PICK A, B, g : A = 1..(m - 1) /\ B = {x \in 1..n : <<x, s[m]>> \in R} /\ g = [l \in A |-> s[l]]
    OBVIOUS
  <2>2. ASSUME NEW l \in A PROVE g[l] \in B
    <3>1. l \in 1..n /\ l < m
      BY <2>1
    <3> QED BY <1>8, <2>1, <3>1 DEF Lists
  <2>3. ASSUME NEW x \in B PROVE \E l \in A : g[l] = x
    <3>1. PICK l \in 1..n : s[l] = x
      BY <1>10, <2>1
    <3>2. ~(m < l) /\ l # m
      <4>1. ASSUME m < l PROVE FALSE
        <5>1. <<s[m], s[l]>> \in R /\ <<s[l], s[m]>> \in R /\ s[m] \in 1..n /\ s[l] \in 1..n
          BY <1>8, <2>1, <3>1, <4>1 DEF Lists
        <5> QED BY <5>1 DEF Orders1
      <4>2. ASSUME l = m PROVE FALSE
        <5>1. <<s[m], s[m]>> \in R /\ s[m] \in 1..n
          BY <1>8, <2>1, <3>1, <4>2 DEF Lists
        <5> QED BY <5>1 DEF Orders1
      <4> QED BY <4>1, <4>2
    <3>3. l \in A
      BY <2>1, <3>2
    <3> QED BY <2>1, <3>1, <3>3
  <2>4. \A i, j \in A : g[i] = g[j] => i = j
    BY <1>9, <2>1
  <2>5. g \in [A -> B]
    BY <2>1, <2>2
  <2>6. g \in Bijection(A, B)
    BY <2>3, <2>4, <2>5 DEF Bijection, Injection, Surjection, IsInjective
  <2>7. IsFiniteSet(A) /\ Cardinality(A) = m - 1
    <3>1. 1 \in Int /\ m - 1 \in Int
      OBVIOUS
    <3> QED BY <2>1, <3>1, FS_Interval
  <2>8. Cardinality(B) = Cardinality(A)
    BY <2>6, <2>7, FS_Bijection DEF ExistsBijection
  <2> QED BY <2>1, <2>7, <2>8
<1> QED BY <1>8, <1>11

(* A dimension of the columns is one of every row's key.                   *)
LEMMA RowAxesHave ==
  ASSUME OrdersGrow, ColumnsTyped, q.pc \in Built, NEW a \in Axis, a \in q.request.groupBy
  PROVE  /\ RowAxes \in Seq(Axis) /\ Len(RowAxes) <= Len(KeyAxes)
         /\ \E s \in DOMAIN RowAxes : RowAxes[s] = a
<1>1. PICK s, I : /\ s = [x \in Axis |-> x]
                  /\ I = {x \in Axis : IF x = cube.measureAxis THEN ~Pivoted
                                       ELSE x \in q.request.groupBy}
  OBVIOUS
<1>2. s \in Seq(Axis) /\ Len(s) = Dims /\ Dims \in Nat
  <2>1. PICK n \in Nat : n = Dims /\ Axis = 1..n
    BY DimsAreCounted DEF Axis
  <2>2. s \in [1..n -> Axis]
    BY <1>1, <2>1
  <2>3. s \in Seq(Axis)
    BY <2>1, <2>2, SeqDef
  <2>4. Len(s) = n
    BY <2>1, <2>2, <2>3, LenProperties
  <2> QED BY <2>1, <2>3, <2>4
<1>3. KeyAxes = Only(s, I)
  BY <1>1 DEF KeyAxes
<1>4. KeyAxes \in Seq(Axis) /\ \E f : Kept(KeyAxes, s, I, Len(s), f)
  BY <1>2, <1>3, OnlyIs
<1>5. PICK f : Kept(KeyAxes, s, I, Len(s), f)
  BY <1>4
<1>6. a \in I
  <2>1. Pivoted => cube.measureAxis \notin q.request.groupBy
    BY DEF ColumnsTyped, Pivoted
  <2> QED BY <1>1, <2>1
<1>7. PICK i \in 1..Len(KeyAxes) : f[i] = a
  BY <1>2, <1>5, <1>6 DEF Kept, Axis
<1>8. KeyAxes[i] = a
  BY <1>1, <1>5, <1>7 DEF Kept
<1>9. PICK k, J : k = KeyAxes /\ J = {n \in DOMAIN k : k[n] \in q.request.groupBy}
  OBVIOUS
<1>10. k \in Seq(Axis) /\ RowAxes = Only(k, J) /\ i \in (1..Len(k)) \cap J
  BY <1>4, <1>7, <1>8, <1>9, SeqIs DEF RowAxes
<1>11. RowAxes \in Seq(Axis) /\ \E g : Kept(RowAxes, k, J, Len(k), g)
  BY <1>10, OnlyIs
<1>12. PICK g : Kept(RowAxes, k, J, Len(k), g)
  BY <1>11
<1>13. PICK j \in 1..Len(RowAxes) : g[j] = i
  BY <1>10, <1>12 DEF Kept
<1>14. RowAxes[j] = a
  BY <1>8, <1>9, <1>12, <1>13 DEF Kept
<1>15. j \in DOMAIN RowAxes
  BY <1>11, <1>13, SeqIs
<1>16. Len(RowAxes) <= Len(k)
  <2>1. PICK m, n \in Nat : m = Len(k) /\ n = Len(RowAxes)
    BY <1>10, <1>11, SeqIs
  <2>2. /\ g \in [1..n -> 1..m] /\ \A x, y \in 1..n : x < y => g[x] < g[y]
    BY <1>12, <2>1 DEF Kept
  <2>3. g \in Injection(1..n, 1..m)
    <3>1. \A x, y \in 1..n : g[x] = g[y] => x = y
      <4> SUFFICES ASSUME NEW x \in 1..n, NEW y \in 1..n, x < y PROVE g[x] # g[y]
        OBVIOUS
      <4>1. g[x] < g[y] /\ g[x] \in 1..m /\ g[y] \in 1..m
        BY <2>2
      <4> QED BY <4>1
    <3> QED BY <2>2, <3>1 DEF Injection, IsInjective
  <2>4. IsFiniteSet(1..m) /\ Cardinality(1..m) = m /\ Cardinality(1..n) = n
    <3>1. 1 \in Int /\ m \in Int /\ n \in Int
      OBVIOUS
    <3> QED BY <3>1, FS_Interval
  <2>5. n <= m
    BY <2>3, <2>4, FS_Injection
  <2> QED BY <2>1, <2>5
<1> QED BY <1>9, <1>11, <1>14, <1>15, <1>16

LEMMA NoColumnIsAnAxis ==
  ASSUME OrdersGrow, ColumnsTyped
  PROVE  Measured \cap Axis = {}
<1>1. Value \notin Axis
  <2>1. Axis \subseteq Int
    BY DimsAreCounted DEF Axis
  <2> QED BY <2>1, NamesAreNoNumbers
<1>2. Outputs \cap Axis = {}
  BY <1>1 DEF Outputs, ColumnsTyped
<1>3. DOMAIN q.columns \cap Axis = {}
  BY DEF ColumnsTyped, ColumnFits
<1> QED BY <1>2, <1>3 DEF Measured

LEMMA RowsCompare ==
  ASSUME OrdersGrow, RowsInOrder, AllTyped, q.pc = "done", NEW i \in DOMAIN q.rows
  PROVE  Comparable(q.rows[i])
<1> SUFFICES ASSUME NEW n \in DOMAIN q.request.order, NEW col, col = q.request.order[n].column
             PROVE  Cell(q.rows[i], col) \in Sortable
  BY DEF Comparable
<1>1. PICK row : row = q.rows[i]
  OBVIOUS
<1>2. col \in q.request.groupBy \cup Measured \cup Wanted /\ Wanted \cap Axis = {} /\ RowFits(row)
  BY <1>1 DEF AllTyped, RowsTyped
<1>3. Measured \cap Axis = {}
  BY NoColumnIsAnAxis DEF AllTyped
<1>4. q.request.groupBy \subseteq Axis
  BY DEF AllTyped, RequestStands, Running, IsRequest
<1>5. CASE col \in Axis
  <2>1. col \in q.request.groupBy
    BY <1>2, <1>3, <1>5
  <2>2. /\ RowAxes \in Seq(Axis) /\ Len(RowAxes) <= Len(KeyAxes)
        /\ \E s \in DOMAIN RowAxes : RowAxes[s] = col
    BY <1>5, <2>1, RowAxesHave DEF AllTyped, Built, Running
  <2>3. PICK s \in DOMAIN RowAxes : s = CHOOSE t \in DOMAIN RowAxes : RowAxes[t] = col
    BY <2>2
  <2>4. Cell(row, col) = row.key[s]
    BY <1>5, <2>3 DEF Cell
  <2>5. PICK k : k = KeyAxes
    OBVIOUS
  <2>6. k \in Seq(Axis)
    BY <2>5, KeyAxesAre
  <2>7. s \in DOMAIN k /\ k[s] \in Axis
    <3>1. PICK l, m \in Nat : /\ l = Len(RowAxes) /\ DOMAIN RowAxes = 1..l
                              /\ m = Len(k) /\ DOMAIN k = 1..m /\ \A x \in 1..m : k[x] \in Axis
      BY <2>2, <2>6, SeqIs
    <3>2. s \in 1..l /\ l <= m
      BY <2>2, <2>3, <2>5, <3>1
    <3> QED BY <3>1, <3>2
  <2>8. PICK c \in DOMAIN q.snapshot : row.key = At(c, k)
    BY <1>1, <2>5 DEF RowsInOrder, Keys
  <2>9. c \in [Axis -> Members]
    <3>1. CellsTyped
      BY DEF AllTyped
    <3> QED BY <2>8, <3>1 DEF CellsTyped
  <2>10. row.key[s] = c[k[s]]
    BY <2>7, <2>8 DEF At
  <2> QED BY <1>1, <2>4, <2>7, <2>9, <2>10, NamesAreSpelled DEF Sortable
<1>6. CASE col \notin Axis
  <2>1. col \in Measured \cup Wanted
    BY <1>2, <1>4, <1>6
  <2>2. row.values[col] \in Amount0 \cup Names
    BY <1>2, <2>1 DEF RowFits
  <2>3. Cell(row, col) = row.values[col]
    BY <1>6 DEF Cell
  <2> QED BY <1>1, <2>2, <2>3, NamesAreSpelled DEF Sortable, Amount0
<1> QED BY <1>5, <1>6

(* A page is a stretch of the sorted rows, and the place of a row in them  *)
(* is the number of rows that come first.                                  *)
First(rows, i, j) == Before(rows[i], rows[j]) \/ (~Before(rows[j], rows[i]) /\ i < j)

LEMMA SortedIs ==
  ASSUME NEW rows, NEW n \in Nat, DOMAIN rows = 1..n,
         \A i \in 1..n : Comparable(rows[i]), NEW l \in Nat, DOMAIN q.request.order = 1..l
  PROVE  \E s : /\ s \in [1..n -> 1..n] /\ Sorted(rows) = [m \in 1..n |-> rows[s[m]]]
                /\ \A m \in 1..n : Cardinality({i \in 1..n : First(rows, i, s[m])}) = m - 1
<1>1. PICK R : R = {p \in (1..n) \X (1..n) : First(rows, p[1], p[2])}
  OBVIOUS
<1>2. \A i, j \in 1..n : <<i, j>> \in R <=> First(rows, i, j)
  BY <1>1
<1>3. ASSUME NEW i \in 1..n, NEW j \in 1..n, NEW k \in 1..n
      PROVE  /\ ~(Before(rows[i], rows[j]) /\ Before(rows[j], rows[i]))
             /\ Before(rows[i], rows[k]) => Before(rows[i], rows[j]) \/ Before(rows[j], rows[k])
  BY BeforeIs
<1>4. ASSUME NEW i \in 1..n, NEW j \in 1..n, NEW k \in 1..n
      PROVE  /\ i # j => <<i, j>> \in R \/ <<j, i>> \in R
             /\ ~(<<i, j>> \in R /\ <<j, i>> \in R)
             /\ <<i, j>> \in R /\ <<j, k>> \in R => <<i, k>> \in R
  <2>1. i # j => First(rows, i, j) \/ First(rows, j, i)
    BY <1>3 DEF First
  <2>2. ~(First(rows, i, j) /\ First(rows, j, i))
    BY <1>3 DEF First
  <2>3. ASSUME First(rows, i, j), First(rows, j, k) PROVE First(rows, i, k)
    <3>1. ~Before(rows[j], rows[i]) /\ ~Before(rows[k], rows[j])
      BY <1>3, <2>3 DEF First
    <3>2. ~Before(rows[k], rows[i])
      BY <1>3, <3>1
    <3>3. ASSUME ~Before(rows[i], rows[k]) PROVE i < k
      <4>1. ~Before(rows[i], rows[j])
        BY <1>3, <3>1, <3>3
      <4>2. ~Before(rows[j], rows[k])
        BY <1>3, <3>1, <3>3
      <4>3. i < j /\ j < k
        BY <2>3, <4>1, <4>2 DEF First
      <4> QED BY <4>3
    <3> QED BY <3>2, <3>3 DEF First
  <2> QED BY <1>2, <2>1, <2>2, <2>3
<1>5. Orders1(R, n)
  BY <1>4 DEF Orders1
<1>6. PICK s : s = Listed(1..n, R)
  OBVIOUS
<1>7. /\ Lists(s, n, R)
      /\ \A m \in 1..n : Cardinality({x \in 1..n : <<x, s[m]>> \in R}) = m - 1
  BY <1>5, <1>6, ListedIs
<1>8. s \in [1..n -> 1..n]
  BY <1>7 DEF Lists
<1>9. Sorted(rows) = [m \in 1..n |-> rows[s[m]]]
  BY <1>1, <1>6 DEF Sorted, First
<1>10. ASSUME NEW m \in 1..n PROVE Cardinality({i \in 1..n : First(rows, i, s[m])}) = m - 1
  <2>1. {i \in 1..n : First(rows, i, s[m])} = {x \in 1..n : <<x, s[m]>> \in R}
    BY <1>2, <1>8
  <2> QED BY <1>7, <2>1
<1> QED BY <1>8, <1>9, <1>10

LEMMA MinIs ==
  ASSUME NEW x \in Int, NEW y \in Int, x <= y
  PROVE  Min({x, y}) = x /\ Min({y, x}) = x /\ Max({x, y}) = y /\ Max({y, x}) = y
<1>1. \A S : Min(S) = CHOOSE m \in S : \A k \in S : m <= k
  BY DEF Min
<1>2. \A S : Max(S) = CHOOSE m \in S : \A k \in S : m >= k
  BY DEF Max
<1>3. {x, y} = {y, x}
  OBVIOUS
<1>4. \A m \in {x, y} : (\A k \in {x, y} : m <= k) <=> m = x
  OBVIOUS
<1>5. \A m \in {x, y} : (\A k \in {x, y} : m >= k) <=> m = y
  OBVIOUS
<1> QED BY <1>1, <1>2, <1>3, <1>4, <1>5

LEMMA StretchIs ==
  ASSUME NEW S, NEW rows \in Seq(S), NEW o \in Nat
  PROVE  \E t : /\ t = SubSeq(rows, o + 1, Len(rows)) /\ t \in Seq(S) /\ Len(t) \in Nat
                /\ Len(rows) <= o => Len(t) = 0
                /\ Len(rows) > o => Len(t) = Len(rows) - o
                /\ \A i \in 1..Len(t) : t[i] = rows[o + i] /\ o + i \in 1..Len(rows)
<1>1. PICK n \in Nat : n = Len(rows) /\ \A i \in 1..n : rows[i] \in S
  BY SeqIs
<1>2. PICK k \in Int : k = o + 1
  OBVIOUS
<1>3. \A i \in k..n : rows[i] \in S
  BY <1>1, <1>2
<1>4. PICK t : t = SubSeq(rows, k, n)
  OBVIOUS
<1>5. /\ t \in Seq(S) /\ Len(t) = IF k <= n THEN n - k + 1 ELSE 0
      /\ \A i \in 1..(n - k + 1) : t[i] = rows[k + i - 1]
  BY <1>2, <1>3, <1>4, SubSeqProperties
<1>6. (n <= o => Len(t) = 0) /\ (n > o => Len(t) = n - o)
  <2>1. n <= o => Len(t) = 0
    BY <1>2, <1>5
  <2>2. n > o => Len(t) = n - o
    BY <1>2, <1>5
  <2> QED BY <2>1, <2>2
<1>7. PICK r \in Nat : r = Len(t)
  BY <1>5, SeqIs
<1>8. ASSUME NEW i \in 1..r PROVE t[i] = rows[o + i] /\ o + i \in 1..n
  <2>1. n > o /\ r = n - o
    BY <1>6, <1>7
  <2>2. i \in 1..(n - k + 1) /\ k + i - 1 = o + i /\ o + i \in 1..n
    BY <1>2, <2>1
  <2> QED BY <1>5, <2>2
<1>9. t = SubSeq(rows, o + 1, Len(rows))
  BY <1>1, <1>2, <1>4
<1> QED BY <1>1, <1>5, <1>6, <1>7, <1>8, <1>9

LEMMA WindowIs ==
  ASSUME NEW S, NEW rows \in Seq(S), NEW n \in Nat, n = Len(rows),
         NEW o \in Nat, o = q.request.offset, NEW rest \in Nat,
         n <= o => rest = 0, n > o => rest = n - o,
         q.request.limit # None => q.request.limit \in Nat
  PROVE  /\ Cut(rows) <=> q.request.limit # None /\ rest > q.request.limit
         /\ Len(Window(rows)) = IF Cut(rows) THEN q.request.limit ELSE rest
         /\ Len(Window(rows)) \in Nat /\ DOMAIN Window(rows) = 1..Len(Window(rows))
         /\ \A i \in 1..Len(Window(rows)) : o + i \in 1..n /\ Window(rows)[i] = rows[o + i]
<1>1. PICK t : /\ t = SubSeq(rows, o + 1, n) /\ t \in Seq(S) /\ Len(t) \in Nat
               /\ n <= o => Len(t) = 0
               /\ n > o => Len(t) = n - o
               /\ \A i \in 1..Len(t) : t[i] = rows[o + i] /\ o + i \in 1..n
  BY StretchIs, Zenon
<1>2. t \in Seq(S) /\ Len(t) = rest /\ \A i \in 1..rest : t[i] = rows[o + i] /\ o + i \in 1..n
  <2>1. PICK l \in Nat : /\ l = Len(t) /\ (n <= o => l = 0) /\ (n > o => l = n - o)
    BY <1>1, Zenon
  <2>2. n <= o \/ n > o
    OBVIOUS
  <2>3. l = rest
    BY <2>1, <2>2
  <2> QED BY <1>1, <2>1, <2>3
<1>3. CASE q.request.limit = None
  <2>1. Window(rows) = t
    BY <1>1, <1>3 DEF Window
  <2>2. DOMAIN t = 1..Len(t)
    BY <1>2, SeqIs
  <2>3. ~Cut(rows)
    BY <1>3 DEF Cut
  <2> QED BY <1>2, <1>3, <2>1, <2>2, <2>3
<1>4. CASE q.request.limit # None
  <2>1. PICK l \in Nat : l = q.request.limit
    BY <1>4
  <2>2. Cut(rows) <=> n - o > l
    BY <1>4, <2>1 DEF Cut
  <2>3. Cut(rows) <=> rest > l
    BY <2>2
  <2>4. PICK m \in Nat : m = Min({l, rest}) /\ (l <= rest => m = l) /\ (rest <= l => m = rest)
    <3>1. l <= rest => Min({l, rest}) = l
      BY MinIs
    <3>2. rest <= l => Min({l, rest}) = rest
      BY MinIs
    <3>3. l <= rest \/ rest <= l
      OBVIOUS
    <3> QED BY <3>1, <3>2, <3>3
  <2>5. PICK u : u = SubSeq(t, 1, m)
    OBVIOUS
  <2>6. Window(rows) = u
    BY <1>1, <1>2, <1>4, <2>1, <2>4, <2>5 DEF Window
  <2>7. \A i \in 1..m : i \in 1..rest /\ t[i] \in S
    <3>1. m <= rest
      BY <2>4
    <3>2. \A i \in 1..rest : t[i] \in S
      BY <1>2, SeqIs
    <3>3. \A i \in 1..m : i \in 1..rest
      BY <3>1
    <3> QED BY <3>2, <3>3
  <2>8. /\ u \in Seq(S) /\ Len(u) = m /\ \A i \in 1..m : u[i] = t[i]
    <3>1. /\ u \in Seq(S) /\ Len(u) = IF 1 <= m THEN m - 1 + 1 ELSE 0
          /\ \A i \in 1..(m - 1 + 1) : u[i] = t[1 + i - 1]
      BY <2>5, <2>7, SubSeqProperties
    <3>2. \A i \in 1..m : i \in 1..(m - 1 + 1) /\ 1 + i - 1 = i
      OBVIOUS
    <3> QED BY <3>1, <3>2
  <2>9. DOMAIN u = 1..m
    BY <2>8, SeqIs
  <2>10. \A i \in 1..m : u[i] = rows[o + i] /\ o + i \in 1..n
    BY <1>2, <2>7, <2>8
  <2>11. (Cut(rows) => m = l) /\ (~Cut(rows) => m = rest)
    BY <2>3, <2>4
  <2>12. Len(u) = IF Cut(rows) THEN q.request.limit ELSE rest
    BY <2>1, <2>8, <2>11
  <2> QED BY <1>4, <2>1, <2>3, <2>6, <2>8, <2>9, <2>10, <2>12
<1> QED BY <1>3, <1>4

(* A page stays the one that was cut from the rows.                        *)
PageCut == q.pc = "done" => q.page = PageOf(q.rows) /\ (q.truncated <=> Cut(q.rows))

LEMMA SamePage ==
  ASSUME RowAxes' = RowAxes, q'.request = q.request
  PROVE  \A rows : PageOf(rows)' = PageOf(rows) /\ (Cut(rows)' <=> Cut(rows))
<1>1. \A r, col : Cell(r, col)' = Cell(r, col)
  BY DEF Cell
<1>2. \A k, r, s : Compare(k, r, s)' <=> Compare(k, r, s)
  BY <1>1 DEF Compare
<1>3. \A r, s : Before(r, s)' <=> Before(r, s)
  BY <1>2 DEF Before
<1>4. \A rows : Sorted(rows)' = Sorted(rows)
  <2> TAKE rows
  <2>1. \A i, j : (Before(rows[i], rows[j]) \/ (~Before(rows[j], rows[i]) /\ i < j))'
              <=> (Before(rows[i], rows[j]) \/ (~Before(rows[j], rows[i]) /\ i < j))
    BY <1>3
  <2> QED BY <2>1 DEF Sorted
<1>5. \A rows : Window(rows)' = Window(rows)
  BY DEF Window
<1>6. \A rows : Cut(rows)' <=> Cut(rows)
  BY DEF Cut
<1>7. ASSUME NEW rows PROVE PageOf(rows)' = PageOf(rows)
  <2>1. PICK s : s = Sorted(rows) /\ s = Sorted(rows)'
    BY <1>4
  <2>2. PageOf(rows) = Window(s)
    BY <2>1 DEF PageOf
  <2>3. PageOf(rows)' = Window(s)'
    BY <2>1 DEF PageOf
  <2> QED BY <1>5, <2>2, <2>3
<1> QED BY <1>6, <1>7

LEMMA StepPage ==
  ASSUME OrdersGrow, PageCut, [Next]_vars
  PROVE  PageCut'
<1>1. DOMAIN q = Fields
  BY DEF OrdersGrow
<1>2. CASE \E r \in Requests : Ask(r)
  BY <1>2 DEF PageCut, Ask, Idle
<1>3. CASE ~\E r \in Requests : Ask(r)
  <2> SUFFICES ASSUME q'.pc = "done" PROVE PageCut'
    BY DEF PageCut
  <2>1. cube' = cube /\ Written /\ Led
    BY <1>1, <1>3, Writers
  <2>2. OrderAndLimit \/ q.pc = "done"
    BY <2>1 DEF Led
  <2>3. q.pc \in {"page", "done"}
    BY <2>2 DEF OrderAndLimit
  <2>4. /\ ~TakeMeasures /\ ~Scan /\ ~Emitting /\ ~Calculate /\ ~Join
    BY <2>3 DEF TakeMeasures, Scan, Emitting, Emit, Calculate, Join
  <2>5. /\ q'.measures = q.measures /\ q'.request = q.request
        /\ q'.snapshot = q.snapshot /\ q'.asked = q.asked /\ q'.rows = q.rows
    BY <2>1, <2>4 DEF Written
  <2>6. RowAxes' = RowAxes
    BY <2>1, <2>5, SameKeys
  <2>7. PICK rows : rows = q.rows
    OBVIOUS
  <2>8. PageOf(rows)' = PageOf(rows) /\ (Cut(rows)' <=> Cut(rows))
    BY <2>5, <2>6, SamePage
  <2>9. q'.page = PageOf(rows) /\ (q'.truncated <=> Cut(rows))
    <3>1. CASE OrderAndLimit
      <4>1. q'.page = PageOf(q.rows) /\ q'.truncated = Cut(q.rows)
        BY <1>1, <3>1, OrderAndLimitMoves
      <4> QED BY <2>7, <4>1
    <3>2. CASE ~OrderAndLimit
      <4>1. q.pc = "done" /\ q'.page = q.page /\ q'.truncated = q.truncated
        BY <2>1, <2>2, <3>2 DEF Written
      <4> QED BY <2>7, <4>1 DEF PageCut
    <3> QED BY <3>1, <3>2
  <2>10. q'.rows = rows
    BY <2>5, <2>7
  <2> QED BY <2>8, <2>9, <2>10 DEF PageCut
<1> QED BY <1>2, <1>3

LEMMA CutPageIs ==
  ASSUME OrdersGrow, RowsInOrder, AllTyped, PageCut
  PROVE  PageIsTheRightOne
<1> DEFINE place(r)    == CHOOSE i \in DOMAIN q.rows : q.rows[i] = r
           first(r, s) == Before(r, s) \/ (~Before(s, r) /\ place(r) < place(s))
           ahead(r)    == Cardinality({i \in DOMAIN q.rows : first(q.rows[i], r)})
           rest        == Max({0, Len(q.rows) - q.request.offset})
<1> SUFFICES ASSUME q.pc = "done", \A i, j \in DOMAIN q.rows : q.rows[i] = q.rows[j] => i = j
             PROVE  /\ \A i \in DOMAIN q.page : ahead(q.page[i]) = q.request.offset + i - 1
                    /\ q.truncated <=> q.request.limit # None /\ rest > q.request.limit
                    /\ Len(q.page) = IF q.truncated THEN q.request.limit ELSE rest
  BY DEF PageIsTheRightOne
<1>1. PICK rows, S : rows = q.rows /\ S = Range(q.rows) /\ rows \in Seq(S)
  BY DEF RowsInOrder, IsList
<1>2. PICK n \in Nat : n = Len(rows) /\ DOMAIN rows = 1..n /\ \A i \in 1..n : rows[i] \in S
  BY <1>1, SeqIs
<1>3. IsRequest(q.request)
  BY DEF AllTyped, RequestStands, Running
<1>4. PICK l \in Nat : DOMAIN q.request.order = 1..l
  BY <1>3, SeqIs DEF IsRequest, IsList
<1>5. PICK o \in Nat : o = q.request.offset
  BY <1>3 DEF IsRequest
<1>6. \A i \in 1..n : Comparable(rows[i])
  BY <1>1, <1>2, RowsCompare
<1>7. PICK s : /\ s \in [1..n -> 1..n] /\ Sorted(rows) = [m \in 1..n |-> rows[s[m]]]
               /\ \A m \in 1..n : Cardinality({i \in 1..n : First(rows, i, s[m])}) = m - 1
  <2>1. DOMAIN rows = 1..n
    BY <1>2
  <2> HIDE DEF place, first, ahead, rest
  <2>2. \E s : /\ s \in [1..n -> 1..n] /\ Sorted(rows) = [m \in 1..n |-> rows[s[m]]]
               /\ \A m \in 1..n : Cardinality({i \in 1..n : First(rows, i, s[m])}) = m - 1
    BY <1>4, <1>6, <2>1, SortedIs
  <2> QED BY <2>2, Zenon
<1>8. PICK t : t = Sorted(rows)
  OBVIOUS
<1>9. t \in Seq(S) /\ Len(t) = n
  <2>1. t \in [1..n -> S]
    BY <1>2, <1>7, <1>8
  <2>2. t \in Seq(S)
    BY <2>1, SeqDef
  <2> QED BY <2>1, <2>2, LenProperties
<1>10. PICK r \in Nat : r = rest /\ (n <= o => r = 0) /\ (n > o => r = n - o)
  <2> HIDE DEF rest
  <2>1. PICK d \in Int : d = n - o
    OBVIOUS
  <2>2. rest = Max({0, d})
    BY <1>1, <1>2, <1>5, <2>1 DEF rest
  <2>3. CASE d <= 0
    <3>1. Max({0, d}) = 0
      BY <2>3, MinIs
    <3> QED BY <2>1, <2>2, <2>3, <3>1
  <2>4. CASE 0 <= d
    <3>1. Max({0, d}) = d
      BY <2>4, MinIs
    <3> QED BY <2>1, <2>2, <2>4, <3>1
  <2>5. d <= 0 \/ 0 <= d
    OBVIOUS
  <2> QED BY <2>3, <2>4, <2>5
<1>11. /\ Cut(t) <=> q.request.limit # None /\ r > q.request.limit
       /\ Len(Window(t)) = IF Cut(t) THEN q.request.limit ELSE r
       /\ Len(Window(t)) \in Nat /\ DOMAIN Window(t) = 1..Len(Window(t))
       /\ \A i \in 1..Len(Window(t)) : o + i \in 1..n /\ Window(t)[i] = t[o + i]
  <2>1. q.request.limit # None => q.request.limit \in Nat
    BY <1>3 DEF IsRequest
  <2> HIDE DEF place, first, ahead, rest
  <2>2. n = Len(t) /\ (n <= o => r = 0) /\ (n > o => r = n - o)
    BY <1>9, <1>10
  <2> QED BY <1>5, <1>9, <2>1, <2>2, WindowIs
<1>12. Cut(rows) <=> Cut(t)
  BY <1>2, <1>9 DEF Cut
<1>13. q.page = Window(t) /\ (q.truncated <=> Cut(t))
  BY <1>1, <1>8, <1>12 DEF PageCut, PageOf
<1>14. ASSUME NEW i \in 1..n PROVE place(rows[i]) = i
  BY <1>1, <1>2
<1>15. ASSUME NEW k \in 1..n PROVE ahead(rows[k]) = Cardinality({i \in 1..n : First(rows, i, k)})
  <2>1. ASSUME NEW i \in 1..n PROVE first(rows[i], rows[k]) <=> First(rows, i, k)
    <3> HIDE DEF place
    <3> QED BY <1>14 DEF First
  <2> HIDE DEF first
  <2>2. {i \in DOMAIN rows : first(rows[i], rows[k])} = {i \in 1..n : First(rows, i, k)}
    BY <1>2, <2>1
  <2>3. ahead(rows[k]) = Cardinality({i \in DOMAIN rows : first(rows[i], rows[k])})
    BY <1>1
  <2> QED BY <2>2, <2>3
<1> HIDE DEF ahead
<1>16. ASSUME NEW i \in DOMAIN q.page PROVE ahead(q.page[i]) = q.request.offset + i - 1
  <2>1. i \in 1..Len(Window(t)) /\ o + i \in 1..n /\ q.page[i] = t[o + i]
    BY <1>11, <1>13
  <2>2. PICK m \in 1..n : m = o + i
    BY <2>1
  <2>3. s[m] \in 1..n /\ q.page[i] = rows[s[m]]
    BY <1>7, <1>8, <2>1, <2>2
  <2>4. ahead(rows[s[m]]) = m - 1
    BY <1>7, <1>15, <2>3
  <2>5. m - 1 = o + i - 1
    <3>1. i \in Int
      BY <1>11, <2>1
    <3> QED BY <2>2, <3>1
  <2>6. ahead(q.page[i]) = m - 1
    BY <2>3, <2>4
  <2> QED BY <1>5, <2>5, <2>6
<1> HIDE DEF rest
<1>17. q.truncated <=> q.request.limit # None /\ rest > q.request.limit
  BY <1>10, <1>11, <1>13
<1>18. Len(q.page) = IF q.truncated THEN q.request.limit ELSE rest
  BY <1>10, <1>11, <1>13
<1> QED BY <1>16, <1>17, <1>18

(* For every cube, every request and every order of its rows, the page of  *)
(* an answer is the stretch of the stably sorted rows that was asked for,  *)
(* and it says that it was cut exactly when rows follow it.                *)
THEOREM PagesAreRight == Spec => []PageIsTheRightOne
<1> DEFINE IInv == /\ OrdersGrow /\ RowsInOrder /\ NothingIsLeft /\ LeavesKnown /\ AllTyped /\ AllMeant
                   /\ PageCut
<1>1. Init => IInv
  BY InitOrders, InitTyped DEF Init, Idle, NothingIsLeft, PageCut
<1>2. IInv /\ [Next]_vars => IInv'
  BY StepOrders, StepRows, StepLeft, StepTyped, StepPage
<1>3. IInv => PageIsTheRightOne
  BY CutPageIs
<1> QED BY <1>1, <1>2, <1>3, PTL DEF Spec
-------------------------------------------------------------------------------
(* Sums and products over finite sets: a fold that takes the elements in   *)
(* any order.                                                              *)
Pick(T) == CHOOSE x \in T : TRUE

FoldsBy(w, D, v, g, e) ==
    w = [T \in D |-> IF T = {} THEN e ELSE g[<<v[Pick(T)], w[T \ {Pick(T)}]>>]]

Commutes(g) ==
    /\ \A a, b \in Int : g[<<a, b>>] \in Int
    /\ \A a, b, c \in Int : g[<<a, g[<<b, c>>]>>] = g[<<b, g[<<a, c>>]>>]

Small(S, n) == {T \in SUBSET S : Cardinality(T) <= n}

LEMMA PickIs ==
  ASSUME NEW S, IsFiniteSet(S), NEW T \in SUBSET S
  PROVE  /\ IsFiniteSet(T) /\ Cardinality(T) \in Nat
         /\ T # {} => Pick(T) \in T /\ Cardinality(T) > 0
         /\ \A x \in T : /\ T \ {x} \in SUBSET S
                         /\ Cardinality(T \ {x}) = Cardinality(T) - 1
<1>1. IsFiniteSet(T) BY FS_Subset
<1>2. Cardinality(T) \in Nat BY <1>1, FS_CardinalityType
<1>3. T # {} => Cardinality(T) # 0 BY <1>1, FS_EmptySet
<1>4. T # {} => Pick(T) \in T BY DEF Pick
<1>5. \A x \in T : Cardinality(T \ {x}) = Cardinality(T) - 1 BY <1>1, FS_RemoveElement
<1>. QED BY <1>1, <1>2, <1>3, <1>4, <1>5

LEMMA SmallIs ==
  ASSUME NEW S, IsFiniteSet(S)
  PROVE  /\ Small(S, Cardinality(S)) = SUBSET S
         /\ \A n \in Nat : \A T \in Small(S, n + 1) :
                T # {} => Pick(T) \in T /\ T \ {Pick(T)} \in Small(S, n)
         /\ \A n \in Nat : Small(S, n) \subseteq Small(S, n + 1)
         /\ \A T \in Small(S, 0) : T = {}
<1>1. \A T \in SUBSET S : Cardinality(T) <= Cardinality(S) BY FS_Subset
<1>2. \A T \in SUBSET S : Cardinality(T) \in Nat BY PickIs
<1>3. \A n \in Nat : \A T \in Small(S, n + 1) :
          T # {} => Pick(T) \in T /\ T \ {Pick(T)} \in Small(S, n)
  <2> SUFFICES ASSUME NEW n \in Nat, NEW T \in Small(S, n + 1), T # {}
               PROVE  Pick(T) \in T /\ T \ {Pick(T)} \in Small(S, n)
    OBVIOUS
  <2>1. T \in SUBSET S /\ Cardinality(T) <= n + 1 BY DEF Small
  <2>2. Pick(T) \in T /\ Cardinality(T) \in Nat BY <2>1, PickIs
  <2>3. /\ T \ {Pick(T)} \in SUBSET S
        /\ Cardinality(T \ {Pick(T)}) = Cardinality(T) - 1
    BY <2>1, <2>2, PickIs
  <2>. QED BY <2>1, <2>2, <2>3 DEF Small
<1>4. \A T \in Small(S, 0) : T = {}
  <2> SUFFICES ASSUME NEW T \in Small(S, 0) PROVE T = {} OBVIOUS
  <2>1. T \in SUBSET S /\ Cardinality(T) <= 0 BY DEF Small
  <2>. QED BY <2>1, PickIs
<1>. QED BY <1>1, <1>2, <1>3, <1>4 DEF Small

LEMMA FoldExists ==
  ASSUME NEW S, IsFiniteSet(S), NEW v, NEW g, NEW e
  PROVE  \E w : FoldsBy(w, SUBSET S, v, g, e)
<1> DEFINE Good == {n \in Nat : \E w : FoldsBy(w, Small(S, n), v, g, e)}
<1>1. 0 \in Good
  <2>1. PICK w : w = [T \in Small(S, 0) |-> e] OBVIOUS
  <2>2. [T \in Small(S, 0) |-> IF T = {} THEN e ELSE g[<<v[Pick(T)], w[T \ {Pick(T)}]>>]]
            = [T \in Small(S, 0) |-> e]
    BY SmallIs
  <2>. QED BY <2>1, <2>2 DEF FoldsBy
<1>2. \A n \in Nat : n \in Good => n + 1 \in Good
  <2> SUFFICES ASSUME NEW n \in Nat, NEW w, FoldsBy(w, Small(S, n), v, g, e)
               PROVE  \E u : FoldsBy(u, Small(S, n + 1), v, g, e)
    OBVIOUS
  <2>1. PICK u : u = [T \in Small(S, n + 1) |->
                         IF T = {} THEN e ELSE g[<<v[Pick(T)], w[T \ {Pick(T)}]>>]]
    OBVIOUS
  <2>2. \A T \in Small(S, n) : u[T] = w[T]
    BY <2>1, SmallIs DEF FoldsBy
  <2>3. \A T \in Small(S, n + 1) : T # {} => u[T \ {Pick(T)}] = w[T \ {Pick(T)}]
    BY <2>2, SmallIs
  <2>4. u = [T \in Small(S, n + 1) |->
                IF T = {} THEN e ELSE g[<<v[Pick(T)], u[T \ {Pick(T)}]>>]]
    BY <2>1, <2>3
  <2>. QED BY <2>4 DEF FoldsBy
<1> HIDE DEF Good
<1>3. Nat \subseteq Good BY <1>1, <1>2, SetInduction
<1>4. Cardinality(S) \in Good BY <1>3, FS_CardinalityType
<1>5. \E w : FoldsBy(w, Small(S, Cardinality(S)), v, g, e) BY <1>4 DEF Good
<1>6. Small(S, Cardinality(S)) = SUBSET S BY SmallIs
<1>. QED BY <1>5, <1>6

(* The order does not matter, and neither does what is not folded.         *)
Foldable(S, v, g, e) == IsFiniteSet(S) /\ Commutes(g) /\ e \in Int /\ \A x \in S : v[x] \in Int

FoldsAny(w, S, v, g, e) ==
    /\ w[{}] = e
    /\ \A T \in SUBSET S : w[T] \in Int /\ \A x \in T : w[T] = g[<<v[x], w[T \ {x}]>>]

LEMMA FoldAdds ==
  ASSUME NEW S, NEW v, NEW g, NEW e, Foldable(S, v, g, e), NEW w, FoldsBy(w, SUBSET S, v, g, e)
  PROVE  FoldsAny(w, S, v, g, e)
<1> USE DEF Foldable
<1> DEFINE Fine(T) == w[T] \in Int /\ \A x \in T : w[T] = g[<<v[x], w[T \ {x}]>>]
           Good == {n \in Nat : \A T \in Small(S, n) : Fine(T)}
<1>1. w[{}] = e /\ Fine({}) BY DEF FoldsBy
<1>2. \A T \in SUBSET S : T # {} => w[T] = g[<<v[Pick(T)], w[T \ {Pick(T)}]>>]
  BY DEF FoldsBy
<1>3. 0 \in Good BY <1>1, SmallIs
<1>4. \A n \in Nat : n \in Good => n + 1 \in Good
  <2> HIDE DEF Fine
  <2> SUFFICES ASSUME NEW n \in Nat, \A T \in Small(S, n) : Fine(T), NEW T \in Small(S, n + 1)
               PROVE  Fine(T)
    OBVIOUS
  <2> USE DEF Fine
  <2>0. CASE T = {} BY <2>0, <1>1
  <2>1. CASE T # {}
    <3>1. PICK y : y = Pick(T) OBVIOUS
    <3>2. y \in T /\ T \ {y} \in Small(S, n) /\ T \in SUBSET S
      BY <2>1, <3>1, SmallIs DEF Small
    <3>3. v[y] \in Int /\ Fine(T \ {y}) /\ w[T] = g[<<v[y], w[T \ {y}]>>]
      BY <3>1, <3>2, <2>1, <1>2
    <3>4. w[T] \in Int BY <3>3 DEF Commutes
    <3>5. ASSUME NEW x \in T, x # y PROVE w[T] = g[<<v[x], w[T \ {x}]>>]
      <4>1. PICK U : U = (T \ {y}) \ {x} OBVIOUS
      <4>2. x \in T \ {y} /\ y \in T \ {x} /\ U = (T \ {x}) \ {y} BY <3>5, <3>2, <4>1
      <4>3. w[T \ {y}] = g[<<v[x], w[U]>>] BY <3>3, <4>1, <4>2
      <4>4. T \ {x} \in Small(S, n)
        <5>1. Cardinality(T) \in Nat /\ Cardinality(T) <= n + 1 BY <3>2, PickIs DEF Small
        <5>2. T \ {x} \in SUBSET S /\ Cardinality(T \ {x}) = Cardinality(T) - 1 BY <3>2, PickIs
        <5>. QED BY <5>1, <5>2 DEF Small
      <4>5. Fine(T \ {x}) BY <4>4
      <4>6. w[T \ {x}] = g[<<v[y], w[U]>>] BY <4>5, <4>2
      <4>7. U \in Small(S, n)
        <5>1. Cardinality(T \ {x}) \in Nat /\ Cardinality(T \ {x}) <= n /\ T \ {x} \in SUBSET S
          BY <4>4, PickIs DEF Small
        <5>2. U \in SUBSET S /\ Cardinality(U) = Cardinality(T \ {x}) - 1
          BY <5>1, <4>2, PickIs
        <5>. QED BY <5>1, <5>2 DEF Small
      <4>8. w[U] \in Int /\ v[x] \in Int BY <4>7, <3>2
      <4>. HIDE DEF Fine
      <4>. QED BY <4>3, <4>6, <4>8, <3>3 DEF Commutes
    <3>. QED BY <3>3, <3>4, <3>5
  <2>. QED BY <2>0, <2>1
<1> HIDE DEF Good
<1>5. Nat \subseteq Good BY <1>3, <1>4, SetInduction
<1>6. Cardinality(S) \in Good BY <1>5, FS_CardinalityType
<1>7. \A T \in SUBSET S : Fine(T) BY <1>6, SmallIs DEF Good
<1>. QED BY <1>1, <1>7 DEF FoldsAny

LEMMA FoldsAgree ==
  ASSUME NEW S, IsFiniteSet(S), NEW w, NEW x, w[{}] = x[{}],
         \A T \in SUBSET S : T # {} /\ w[T \ {Pick(T)}] = x[T \ {Pick(T)}] => w[T] = x[T]
  PROVE  w[S] = x[S]
<1> DEFINE Good == {n \in Nat : \A T \in Small(S, n) : w[T] = x[T]}
<1>1. 0 \in Good BY SmallIs
<1>2. \A n \in Nat : n \in Good => n + 1 \in Good
  <2> SUFFICES ASSUME NEW n \in Nat, n \in Good, NEW T \in Small(S, n + 1) PROVE w[T] = x[T]
    OBVIOUS
  <2>1. T \in SUBSET S /\ (T # {} => Pick(T) \in T /\ T \ {Pick(T)} \in Small(S, n))
    BY SmallIs DEF Small
  <2>. QED BY <2>1
<1> HIDE DEF Good
<1>3. Nat \subseteq Good BY <1>1, <1>2, SetInduction
<1>4. Cardinality(S) \in Good BY <1>3, FS_CardinalityType
<1>. QED BY <1>4, SmallIs DEF Good

Plus  == [p \in Int \X Int |-> p[1] + p[2]]
Times == [p \in Int \X Int |-> p[1] * p[2]]

LEMMA PlusAndTimes ==
  /\ Commutes(Plus) /\ \A a, b \in Int : Plus[<<a, b>>] = a + b
  /\ Commutes(Times) /\ \A a, b \in Int : Times[<<a, b>>] = a * b
<1>1. \A a, b \in Int : Plus[<<a, b>>] = a + b /\ a + b \in Int BY DEF Plus
<1>2. \A a, b \in Int : Times[<<a, b>>] = a * b /\ a * b \in Int BY DEF Times
<1>3. Commutes(Plus) BY <1>1 DEF Commutes
<1>4. \A a, b, c \in Int : a * (b * c) = b * (a * c) OBVIOUS
<1>5. Commutes(Times) BY <1>2, <1>4 DEF Commutes
<1>. QED BY <1>1, <1>2, <1>3, <1>5

FoldOver(S, v, g, e) == (CHOOSE w : FoldsBy(w, SUBSET S, v, g, e))[S]

LEMMA FoldOverIs ==
  ASSUME NEW S, IsFiniteSet(S), NEW v, NEW g, NEW e \in Int, Commutes(g), \A x \in S : v[x] \in Int
  PROVE  /\ FoldOver(S, v, g, e) \in Int /\ FoldOver({}, v, g, e) = e
         /\ \A u : (\A x \in S : u[x] = v[x]) => FoldOver(S, u, g, e) = FoldOver(S, v, g, e)
         /\ \A x : x \notin S /\ v[x] \in Int =>
                FoldOver(S \cup {x}, v, g, e) = g[<<v[x], FoldOver(S, v, g, e)>>]
<1>1. PICK w : FoldsBy(w, SUBSET S, v, g, e) /\ FoldOver(S, v, g, e) = w[S]
  <2>1. \E w : FoldsBy(w, SUBSET S, v, g, e) BY FoldExists
  <2>. QED BY <2>1 DEF FoldOver
<1>2. /\ w[{}] = e /\ \A T \in SUBSET S : w[T] \in Int
      /\ \A T \in SUBSET S : T # {} => w[T] = g[<<v[Pick(T)], w[T \ {Pick(T)}]>>]
  <2>0. Foldable(S, v, g, e) BY DEF Foldable
  <2>1. FoldsBy(w, SUBSET S, v, g, e) BY <1>1
  <2>2. FoldsAny(w, S, v, g, e) BY <2>0, <2>1, FoldAdds
  <2>3. \A T \in SUBSET S : T # {} => w[T] = g[<<v[Pick(T)], w[T \ {Pick(T)}]>>]
    BY <2>1 DEF FoldsBy
  <2>. QED BY <2>2, <2>3 DEF FoldsAny
<1>3. FoldOver({}, v, g, e) = e
  <2>0. IsFiniteSet({}) BY FS_EmptySet
  <2>1. \E y : FoldsBy(y, SUBSET {}, v, g, e) BY <2>0, FoldExists
  <2>2. PICK y : FoldsBy(y, SUBSET {}, v, g, e) /\ FoldOver({}, v, g, e) = y[{}]
    BY <2>1 DEF FoldOver
  <2>. QED BY <2>2 DEF FoldsBy
<1>4. ASSUME NEW u, \A x \in S : u[x] = v[x]
      PROVE  FoldOver(S, u, g, e) = FoldOver(S, v, g, e)
  <2>1. \E y : FoldsBy(y, SUBSET S, u, g, e) BY FoldExists
  <2>2. PICK y : FoldsBy(y, SUBSET S, u, g, e) /\ FoldOver(S, u, g, e) = y[S]
    BY <2>1 DEF FoldOver
  <2>3. y[{}] = e /\ \A T \in SUBSET S : T # {} => y[T] = g[<<u[Pick(T)], y[T \ {Pick(T)}]>>]
    BY <2>2 DEF FoldsBy
  <2>4. \A T \in SUBSET S : T # {} => u[Pick(T)] = v[Pick(T)] BY <1>4, PickIs
  <2>5. \A T \in SUBSET S : T # {} /\ y[T \ {Pick(T)}] = w[T \ {Pick(T)}] => y[T] = w[T]
    BY <2>3, <2>4, <1>2
  <2>6. y[{}] = w[{}] BY <2>3, <1>2
  <2>7. y[S] = w[S] BY <2>5, <2>6, FoldsAgree
  <2>. QED BY <2>2, <2>7, <1>1
<1>5. ASSUME NEW x, x \notin S, v[x] \in Int
      PROVE  FoldOver(S \cup {x}, v, g, e) = g[<<v[x], FoldOver(S, v, g, e)>>]
  <2> DEFINE R == S \cup {x}
  <2>0. IsFiniteSet(R) BY FS_AddElement
  <2>1. \E y : FoldsBy(y, SUBSET R, v, g, e) BY <2>0, FoldExists
  <2>2. PICK y : FoldsBy(y, SUBSET R, v, g, e) /\ FoldOver(R, v, g, e) = y[R]
    BY <2>1 DEF FoldOver
  <2>3. \A z \in R : v[z] \in Int BY <1>5
  <2>4. /\ y[{}] = e
        /\ \A T \in SUBSET R : y[T] \in Int /\ \A z \in T : y[T] = g[<<v[z], y[T \ {z}]>>]
    <3> HIDE DEF R
    <3>1. FoldsBy(y, SUBSET R, v, g, e) BY <2>2
    <3>2. Foldable(R, v, g, e) BY <2>0, <2>3 DEF Foldable
    <3>3. FoldsAny(y, R, v, g, e) BY <3>1, <3>2, FoldAdds
    <3>. QED BY <3>3 DEF FoldsAny
  <2>5. R \in SUBSET R /\ x \in R /\ R \ {x} = S BY <1>5
  <2>6. y[R] = g[<<v[x], y[S]>>] BY <2>4, <2>5
  <2>7. /\ y[{}] = e
        /\ \A T \in SUBSET R : T # {} => y[T] = g[<<v[Pick(T)], y[T \ {Pick(T)}]>>]
    <3> HIDE DEF R
    <3>. QED BY <2>2 DEF FoldsBy
  <2>8. \A T \in SUBSET S : T \in SUBSET R OBVIOUS
  <2>9. y[{}] = w[{}] /\ \A T \in SUBSET S :
            T # {} /\ y[T \ {Pick(T)}] = w[T \ {Pick(T)}] => y[T] = w[T]
    BY <2>7, <2>8, <1>2
  <2>10. y[S] = w[S] BY <2>9, FoldsAgree
  <2>. QED BY <2>2, <2>6, <2>10, <1>1
<1>. QED BY <1>1, <1>2, <1>3, <1>4, <1>5

SumOf(v, S)     == FoldOver(S, v, Plus, 0)
ProductOf(v, S) == FoldOver(S, v, Times, 1)

LEMMA SumIs ==
  ASSUME NEW S, IsFiniteSet(S), NEW v, \A x \in S : v[x] \in Int
  PROVE  /\ SumOf(v, S) \in Int /\ SumOf(v, {}) = 0
         /\ \A u : (\A x \in S : u[x] = v[x]) => SumOf(u, S) = SumOf(v, S)
         /\ \A x : x \notin S /\ v[x] \in Int => SumOf(v, S \cup {x}) = v[x] + SumOf(v, S)
<1>1. Commutes(Plus) /\ 0 \in Int BY PlusAndTimes
<1>2. /\ FoldOver(S, v, Plus, 0) \in Int /\ FoldOver({}, v, Plus, 0) = 0
      /\ \A u : (\A x \in S : u[x] = v[x]) => FoldOver(S, u, Plus, 0) = FoldOver(S, v, Plus, 0)
      /\ \A x : x \notin S /\ v[x] \in Int =>
             FoldOver(S \cup {x}, v, Plus, 0) = Plus[<<v[x], FoldOver(S, v, Plus, 0)>>]
  BY <1>1, FoldOverIs
<1>. QED BY <1>2, PlusAndTimes DEF SumOf

LEMMA ProductOfIs ==
  ASSUME NEW S, IsFiniteSet(S), NEW v, \A x \in S : v[x] \in Int
  PROVE  /\ ProductOf(v, S) \in Int /\ ProductOf(v, {}) = 1
         /\ \A x : x \notin S /\ v[x] \in Int => ProductOf(v, S \cup {x}) = v[x] * ProductOf(v, S)
<1>1. Commutes(Times) /\ 1 \in Int BY PlusAndTimes
<1>2. /\ FoldOver(S, v, Times, 1) \in Int /\ FoldOver({}, v, Times, 1) = 1
      /\ \A x : x \notin S /\ v[x] \in Int =>
             FoldOver(S \cup {x}, v, Times, 1) = Times[<<v[x], FoldOver(S, v, Times, 1)>>]
  BY <1>1, FoldOverIs
<1>. QED BY <1>2, PlusAndTimes DEF ProductOf

(* The sums and products of a request's meaning are such folds.            *)
Whole(C, v) == IsFiniteSet(C) /\ \A c \in C : v[c] \in Int

SumsTo(w, C, v) ==
    /\ w[{}] = 0
    /\ \A T \in SUBSET C : T # {} => w[T] = v[Pick(T)] + w[T \ {Pick(T)}]

LEMMA SumRuns ==
  ASSUME NEW C, NEW v, Whole(C, v)
  PROVE  /\ \E w : w = [T \in SUBSET C |-> w[T]] /\ SumsTo(w, C, v)
         /\ \A x : SumsTo(x, C, v) => x[C] = SumOf(v, C)
<1>0. IsFiniteSet(C) /\ \A c \in C : v[c] \in Int BY DEF Whole
<1>1. \E w : FoldsBy(w, SUBSET C, v, Plus, 0) BY <1>0, FoldExists
<1>2. PICK w : FoldsBy(w, SUBSET C, v, Plus, 0) /\ SumOf(v, C) = w[C]
  BY <1>1 DEF SumOf, FoldOver
<1>3. w[{}] = 0 /\ \A T \in SUBSET C : w[T] \in Int
  <2>1. Foldable(C, v, Plus, 0) BY <1>0, PlusAndTimes DEF Foldable
  <2>2. FoldsAny(w, C, v, Plus, 0) BY <2>1, <1>2, FoldAdds
  <2>. QED BY <2>2 DEF FoldsAny
<1>4. \A T \in SUBSET C : T # {} => w[T] = v[Pick(T)] + w[T \ {Pick(T)}]
  <2> SUFFICES ASSUME NEW T \in SUBSET C, T # {} PROVE w[T] = v[Pick(T)] + w[T \ {Pick(T)}]
    OBVIOUS
  <2>1. Pick(T) \in T /\ T \ {Pick(T)} \in SUBSET C BY <1>0, PickIs
  <2>2. w[T] = Plus[<<v[Pick(T)], w[T \ {Pick(T)}]>>] BY <1>2 DEF FoldsBy
  <2>. QED BY <2>1, <2>2, <1>0, <1>3, PlusAndTimes
<1>5. w = [T \in SUBSET C |-> w[T]] BY <1>2 DEF FoldsBy
<1>6. ASSUME NEW x, SumsTo(x, C, v) PROVE x[C] = SumOf(v, C)
  <2>1. \A T \in SUBSET C : T # {} /\ x[T \ {Pick(T)}] = w[T \ {Pick(T)}] => x[T] = w[T]
    BY <1>6, <1>4 DEF SumsTo
  <2>2. x[{}] = w[{}] BY <1>3, <1>6 DEF SumsTo
  <2>3. x[C] = w[C] BY <2>1, <2>2, <1>0, FoldsAgree
  <2>. QED BY <2>3, <1>2
<1>7. SumsTo(w, C, v) BY <1>3, <1>4 DEF SumsTo
<1>. QED BY <1>5, <1>6, <1>7

GrowsTo(w, C, v) ==
    /\ w[{}] = 1
    /\ \A T \in SUBSET C : T # {} => w[T] = w[T \ {Pick(T)}] * v[Pick(T)]

LEMMA ProductRuns ==
  ASSUME NEW C, NEW v, Whole(C, v)
  PROVE  /\ \E w : w = [T \in SUBSET C |-> w[T]] /\ GrowsTo(w, C, v)
         /\ \A x : GrowsTo(x, C, v) => x[C] = ProductOf(v, C)
<1>0. IsFiniteSet(C) /\ \A c \in C : v[c] \in Int BY DEF Whole
<1>1. \E w : FoldsBy(w, SUBSET C, v, Times, 1) BY <1>0, FoldExists
<1>2. PICK w : FoldsBy(w, SUBSET C, v, Times, 1) /\ ProductOf(v, C) = w[C]
  BY <1>1 DEF ProductOf, FoldOver
<1>3. w[{}] = 1 /\ \A T \in SUBSET C : w[T] \in Int
  <2>1. Foldable(C, v, Times, 1) BY <1>0, PlusAndTimes DEF Foldable
  <2>2. FoldsAny(w, C, v, Times, 1) BY <2>1, <1>2, FoldAdds
  <2>. QED BY <2>2 DEF FoldsAny
<1>4. \A T \in SUBSET C : T # {} => w[T] = w[T \ {Pick(T)}] * v[Pick(T)]
  <2> SUFFICES ASSUME NEW T \in SUBSET C, T # {} PROVE w[T] = w[T \ {Pick(T)}] * v[Pick(T)]
    OBVIOUS
  <2>1. Pick(T) \in T /\ T \ {Pick(T)} \in SUBSET C BY <1>0, PickIs
  <2>2. w[T] = Times[<<v[Pick(T)], w[T \ {Pick(T)}]>>] BY <1>2 DEF FoldsBy
  <2>. QED BY <2>1, <2>2, <1>0, <1>3, PlusAndTimes
<1>5. w = [T \in SUBSET C |-> w[T]] BY <1>2 DEF FoldsBy
<1>6. ASSUME NEW x, GrowsTo(x, C, v) PROVE x[C] = ProductOf(v, C)
  <2>1. \A T \in SUBSET C : T # {} /\ x[T \ {Pick(T)}] = w[T \ {Pick(T)}] => x[T] = w[T]
    BY <1>6, <1>4 DEF GrowsTo
  <2>2. x[{}] = w[{}] BY <1>3, <1>6 DEF GrowsTo
  <2>3. x[C] = w[C] BY <2>1, <2>2, <1>0, FoldsAgree
  <2>. QED BY <2>3, <1>2
<1>7. GrowsTo(w, C, v) BY <1>3, <1>4 DEF GrowsTo
<1>. QED BY <1>5, <1>6, <1>7

LEMMA RawSumIs ==
  ASSUME NEW C, IsFiniteSet(C), NEW v, \A c \in C : v[c] = q.snapshot[c] /\ v[c] \in Int
  PROVE  MapThenSumSet(LAMBDA c : q.snapshot[c], C) = SumOf(v, C)
<1>0. Whole(C, v) BY DEF Whole
<1> DEFINE Sums(w) == w = [s \in SUBSET C |-> IF s = {} THEN 0
                              ELSE q.snapshot[CHOOSE x \in s : TRUE] + w[s \ {CHOOSE x \in s : TRUE}]]
<1>1. MapThenSumSet(LAMBDA c : q.snapshot[c], C) = (CHOOSE w : Sums(w))[C]
  BY DEF MapThenSumSet, MapThenFoldSet
<1>2. \A T \in SUBSET C : T # {} => v[Pick(T)] = q.snapshot[Pick(T)] BY PickIs
<1>3. PICK w : w = [T \in SUBSET C |-> w[T]] /\ SumsTo(w, C, v)
  BY <1>0, SumRuns
<1>4. \A T \in SUBSET C : T # {} => w[T] = q.snapshot[Pick(T)] + w[T \ {Pick(T)}] BY <1>2, <1>3 DEF SumsTo
<1>5. Sums(w) BY <1>3, <1>4 DEF Pick, SumsTo
<1> HIDE DEF Sums
<1>6. PICK x : x = CHOOSE y : Sums(y) OBVIOUS
<1>7. Sums(x) BY <1>5, <1>6
<1>8. x[{}] = 0 /\ \A T \in SUBSET C : T # {} => x[T] = q.snapshot[Pick(T)] + x[T \ {Pick(T)}]
  BY <1>7 DEF Pick, Sums
<1>9. SumsTo(x, C, v) BY <1>2, <1>8 DEF SumsTo
<1>10. x[C] = SumOf(v, C) BY <1>0, <1>9, SumRuns
<1>. QED BY <1>1, <1>6, <1>10

LEMMA WeightedSumIs ==
  ASSUME NEW C, IsFiniteSet(C), NEW v,
         \A c \in C : v[c] = WeightOf(c) * q.snapshot[c] /\ v[c] \in Int
  PROVE  MapThenSumSet(LAMBDA c : WeightOf(c) * q.snapshot[c], C) = SumOf(v, C)
<1>0. Whole(C, v) BY DEF Whole
<1> DEFINE Sums(w) == w = [s \in SUBSET C |-> IF s = {} THEN 0
                              ELSE WeightOf(CHOOSE x \in s : TRUE) * q.snapshot[CHOOSE x \in s : TRUE]
                                   + w[s \ {CHOOSE x \in s : TRUE}]]
<1>1. MapThenSumSet(LAMBDA c : WeightOf(c) * q.snapshot[c], C) = (CHOOSE w : Sums(w))[C]
  BY DEF MapThenSumSet, MapThenFoldSet
<1>2. \A T \in SUBSET C : T # {} => v[Pick(T)] = WeightOf(Pick(T)) * q.snapshot[Pick(T)] BY PickIs
<1>3. PICK w : w = [T \in SUBSET C |-> w[T]] /\ SumsTo(w, C, v)
  BY <1>0, SumRuns
<1>4. \A T \in SUBSET C :
          T # {} => w[T] = WeightOf(Pick(T)) * q.snapshot[Pick(T)] + w[T \ {Pick(T)}] BY <1>2, <1>3 DEF SumsTo
<1>5. Sums(w) BY <1>3, <1>4 DEF Pick, SumsTo
<1> HIDE DEF Sums
<1>6. PICK x : x = CHOOSE y : Sums(y) OBVIOUS
<1>7. Sums(x) BY <1>5, <1>6
<1>8. x[{}] = 0 /\ \A T \in SUBSET C :
          T # {} => x[T] = WeightOf(Pick(T)) * q.snapshot[Pick(T)] + x[T \ {Pick(T)}]
  BY <1>7 DEF Pick, Sums
<1>9. SumsTo(x, C, v) BY <1>2, <1>8 DEF SumsTo
<1>10. x[C] = SumOf(v, C) BY <1>0, <1>9, SumRuns
<1>. QED BY <1>1, <1>6, <1>10

(* What a filter multiplies a cell by.                                     *)
WeightBy(c, f) ==
    IF f.op = "notEquals" \/ ~cube.aggregating THEN 1
    ELSE Under(f.axis, CHOOSE m \in Range(f.members) : c[f.axis] \in DOMAIN Stored(f.axis, m))[c[f.axis]]

LEMMA WeightOfIs ==
  ASSUME IsFiniteSet(Meant), NEW c, NEW v, \A f \in Meant : v[f] = WeightBy(c, f) /\ v[f] \in Int
  PROVE  WeightOf(c) = ProductOf(v, Meant)
<1>0. Whole(Meant, v) BY DEF Whole
<1> DEFINE Runs(w) == w = [s \in SUBSET Meant |-> IF s = {} THEN 1
                              ELSE w[s \ {CHOOSE x \in s : TRUE}] * WeightBy(c, CHOOSE x \in s : TRUE)]
<1>1. WeightOf(c) = (CHOOSE w : Runs(w))[Meant]
  BY DEF WeightOf, FoldSet, MapThenFoldSet, WeightBy
<1>2. \A T \in SUBSET Meant : T # {} => v[Pick(T)] = WeightBy(c, Pick(T)) BY PickIs
<1>3. PICK w : w = [T \in SUBSET Meant |-> w[T]] /\ GrowsTo(w, Meant, v)
  BY <1>0, ProductRuns
<1>4. \A T \in SUBSET Meant : T # {} => w[T] = w[T \ {Pick(T)}] * WeightBy(c, Pick(T)) BY <1>2, <1>3 DEF GrowsTo
<1>5. Runs(w) BY <1>3, <1>4 DEF Pick, GrowsTo
<1> HIDE DEF Runs
<1>6. PICK x : x = CHOOSE y : Runs(y) OBVIOUS
<1>7. Runs(x) BY <1>5, <1>6
<1>8. x[{}] = 1 /\ \A T \in SUBSET Meant :
          T # {} => x[T] = x[T \ {Pick(T)}] * WeightBy(c, Pick(T))
  BY <1>7 DEF Pick, Runs
<1>9. GrowsTo(x, Meant, v) BY <1>2, <1>8 DEF GrowsTo
<1>10. x[Meant] = ProductOf(v, Meant) BY <1>0, <1>9, ProductRuns
<1>. QED BY <1>1, <1>6, <1>10
-------------------------------------------------------------------------------
(* The weight of a cell: what its filters multiply it by, dimension by     *)
(* dimension.                                                              *)
Weight(c, a) == IF q.scope[a] = None THEN 1 ELSE q.scope[a][c[a]]

LEMMA WeightedSteps ==
  ASSUME ScopeTyped, NEW c, InScope(c), NEW n \in Int
  PROVE  \E x : /\ x[0] = n /\ Weighted(c, n) = (IF cube.aggregating THEN x[Dims] ELSE n)
                /\ \A a \in Axis : x[a] = x[a - 1] * Weight(c, a)
<1>1. PICK k : k = [a \in Axis |-> Weight(c, a)]
  OBVIOUS
<1>2. Dims \in Nat /\ Axis = 1..Dims
  BY DimsAreCounted DEF Axis
<1>3. ASSUME NEW a \in 1..Dims PROVE k[a] \in Int
  <2>1. CASE q.scope[a] = None
    BY <1>1, <1>2, <2>1 DEF Weight
  <2>2. CASE q.scope[a] # None
    <3>1. c[a] \in DOMAIN q.scope[a]
      BY <1>2, <2>2 DEF InScope
    <3>2. q.scope[a][c[a]] \in Int
      BY <1>2, <2>2, <3>1 DEF ScopeTyped, Weighing
    <3> QED BY <1>1, <1>2, <2>2, <3>2 DEF Weight
  <2> QED BY <2>1, <2>2
<1>4. PICK w : Product(w, Dims, n, k) /\ \A i \in 0..Dims : w[i] \in Int
  BY <1>2, <1>3, ProductExists
<1>5. ASSUME NEW v
      PROVE  Product(v, Dims, n, k) <=>
                 v = [a \in 0..Dims |-> IF a = 0 THEN n
                        ELSE v[a - 1] * (IF q.scope[a] = None THEN 1 ELSE q.scope[a][c[a]])]
  <2>1. \A a \in 0..Dims : a # 0 => k[a] = IF q.scope[a] = None THEN 1 ELSE q.scope[a][c[a]]
    BY <1>1, <1>2 DEF Weight
  <2>2. [a \in 0..Dims |-> IF a = 0 THEN n ELSE v[a - 1] * k[a]]
          = [a \in 0..Dims |-> IF a = 0 THEN n
                        ELSE v[a - 1] * (IF q.scope[a] = None THEN 1 ELSE q.scope[a][c[a]])]
    BY <2>1
  <2> QED BY <2>2 DEF Product
<1>6. PICK x : x = CHOOSE v : v = [a \in 0..Dims |-> IF a = 0 THEN n
                        ELSE v[a - 1] * (IF q.scope[a] = None THEN 1 ELSE q.scope[a][c[a]])]
  OBVIOUS
<1>7. Product(x, Dims, n, k)
  BY <1>4, <1>5, <1>6
<1>8. x[0] = n /\ \A a \in Axis : x[a] = x[a - 1] * k[a]
  BY <1>2, <1>7 DEF Product
<1>9. Weighted(c, n) = IF cube.aggregating THEN x[Dims] ELSE n
  BY <1>6 DEF Weighted
<1> QED BY <1>1, <1>8, <1>9

LEMMA MeantIsFinite ==
  ASSUME RequestStands, q.pc \in Running, OneEach
  PROVE  IsFiniteSet(Meant)
<1>1. PICK h : h = [f \in Meant |-> f.axis]
  OBVIOUS
<1>2. h \in [Meant -> Axis]
  BY <1>1, MeantAxes
<1>3. \A f, g \in Meant : h[f] = h[g] => f = g
  BY <1>1, MeantOnce
<1>4. h \in Injection(Meant, Axis)
  BY <1>2, <1>3 DEF Injection, IsInjective
<1>5. IsFiniteSet(Axis)
  BY DimsAreCounted, FS_Interval DEF Axis
<1> QED BY <1>4, <1>5, FS_Injection

(* The filter of a dimension, where there is one, has the weight of its    *)
(* scope.                                                                  *)
LEMMA WeightByScope ==
  ASSUME OrdersGrow, LeavesKnown, AllTyped, AllMeant, q.pc = "done", Plain, cube.aggregating,
         NEW c, InScope(c)
  PROVE  /\ \A f \in Meant : WeightBy(c, f) = Weight(c, f.axis)
         /\ \A a \in Axis : (\A f \in Meant : f.axis # a) => Weight(c, a) = 1
<1>0. RequestStands /\ FiltersMean /\ ScopesMean /\ OneEach
  BY DEF AllTyped, AllMeant, Plain, OneEach
<1>1. \A a \in Axis : FilterMeans(a) /\ ScopeMean(a)
  BY <1>0 DEF FiltersMean, ScopesMean, Scoped, Running
<1>2. Handled = Meant
  BY DEF Handled
<1>3. ASSUME NEW a \in Axis, \A f \in Meant : f.axis # a PROVE Weight(c, a) = 1
  <2>1. q.filters[a] = None
    BY <1>0, <1>1, <1>2, <1>3 DEF FilterMeans
  <2> QED BY <1>1, <2>1 DEF ScopeMean, Weight
<1>4. ASSUME NEW f \in Meant PROVE WeightBy(c, f) = Weight(c, f.axis)
  <2>1. PICK a \in Axis : a = f.axis
    BY <1>0, MeantAxes DEF Running
  <2>2. q.filters[a] # None
    BY <1>1, <1>2, <2>1 DEF FilterMeans
  <2>3. PICK g \in Meant : g.axis = a /\ Covers(a, g, q.filters[a])
    BY <1>0, <1>1, <1>2, <2>2 DEF FilterMeans
  <2>4. g = f
    BY <1>0, <2>1, <2>3, MeantOnce
  <2>5. q.scope[a] # None /\ c[a] \in DOMAIN q.scope[a]
    BY <1>1, <2>2 DEF ScopeMean, InScope
  <2>6. PICK x \in Range(q.filters[a]) : /\ c[a] \in DOMAIN Stored(a, x)
                                         /\ q.scope[a][c[a]] = Stored(a, x)[c[a]]
    BY <1>1, <2>2, <2>5 DEF ScopeMean
  <2>7. Weight(c, a) = Stored(a, x)[c[a]]
    BY <2>5, <2>6 DEF Weight
  <2>8. CASE f.op = "notEquals"
    <3>1. x \in Range(known[a])
      BY <2>3, <2>4, <2>6, <2>8 DEF Covers
    <3>2. Stored(a, x) = [l \in {x} |-> 1]
      BY <3>1, StoredIs
    <3>3. Stored(a, x)[c[a]] = 1
      BY <2>6, <3>2
    <3> QED BY <2>1, <2>7, <2>8, <3>3 DEF WeightBy
  <2>9. CASE f.op # "notEquals"
    <3>1. x \in Range(f.members)
      BY <2>3, <2>4, <2>6, <2>9 DEF Covers
    <3>2. PICK m : m = CHOOSE n \in Range(f.members) : c[a] \in DOMAIN Stored(a, n)
      OBVIOUS
    <3>3. m \in Range(f.members) /\ c[a] \in DOMAIN Stored(a, m)
      BY <2>6, <3>1, <3>2
    <3>4. m = x
      <4>1. CASE f \in Range(q.request.filters)
        <5>1. m # x => DOMAIN Stored(a, m) \cap DOMAIN Stored(a, x) = {}
          BY <2>1, <3>1, <3>3, <4>1 DEF Plain
        <5> QED BY <2>6, <3>3, <5>1
      <4>2. CASE f \notin Range(q.request.filters)
        <5>1. PICK b \in Defaulted : f = [axis |-> b, op |-> "equals", members |-> <<Default[b]>>]
          BY <4>2 DEF Meant
        <5>2. Range(f.members) = {Default[b]}
          BY <5>1, OneIs
        <5> QED BY <3>1, <3>3, <5>2
      <4> QED BY <4>1, <4>2
    <3>5. WeightBy(c, f) = Under(a, m)[c[a]]
      BY <2>1, <2>9, <3>2 DEF WeightBy
    <3> QED BY <2>1, <2>7, <3>4, <3>5 DEF Stored
  <2> QED BY <2>8, <2>9
<1> QED BY <1>3, <1>4

LEMMA WeightsAgree ==
  ASSUME OrdersGrow, LeavesKnown, AllTyped, AllMeant, q.pc = "done", Plain,
         NEW c, InScope(c), NEW n \in Int
  PROVE  WeightOf(c) * n = Weighted(c, n) /\ WeightOf(c) \in Int
<1>0. RequestStands /\ ScopeTyped /\ OneEach /\ IsFiniteSet(Meant)
  <2>1. RequestStands /\ ScopeTyped /\ OneEach
    BY DEF AllTyped, Plain, OneEach
  <2> QED BY <2>1, MeantIsFinite DEF Running
<1>1. PICK v : v = [f \in Meant |-> WeightBy(c, f)]
  OBVIOUS
<1>2. \A a \in Axis : Weight(c, a) \in Int
  <2> SUFFICES ASSUME NEW a \in Axis PROVE Weight(c, a) \in Int
    OBVIOUS
  <2>1. q.scope[a] # None => q.scope[a][c[a]] \in Int
    BY <1>0 DEF ScopeTyped, Weighing, InScope
  <2> QED BY <2>1 DEF Weight
<1>3. \A f \in Meant : v[f] = WeightBy(c, f) /\ v[f] \in Int /\ f.axis \in Axis
  <2> SUFFICES ASSUME NEW f \in Meant PROVE WeightBy(c, f) \in Int /\ f.axis \in Axis
    BY <1>1
  <2>1. f.axis \in Axis
    BY <1>0, MeantAxes DEF Running
  <2>2. cube.aggregating => WeightBy(c, f) = Weight(c, f.axis)
    BY WeightByScope
  <2>3. ~cube.aggregating => WeightBy(c, f) = 1
    BY DEF WeightBy
  <2> QED BY <1>2, <2>1, <2>2, <2>3
<1>4. WeightOf(c) = ProductOf(v, Meant)
  BY <1>0, <1>3, WeightOfIs
<1>5. ProductOf(v, Meant) \in Int
  BY <1>0, <1>3, ProductOfIs
<1>6. PICK M : M = [i \in 0..Dims |-> {f \in Meant : f.axis <= i}]
  OBVIOUS
<1>7. Dims \in Nat /\ Axis = 1..Dims
  BY DimsAreCounted DEF Axis
<1>8. /\ M[0] = {} /\ M[Dims] = Meant
      /\ \A i \in 0..Dims : M[i] \in SUBSET Meant /\ IsFiniteSet(M[i])
  <2>1. \A i \in 0..Dims : M[i] = {f \in Meant : f.axis <= i}
    BY <1>6
  <2>2. M[0] = {} /\ M[Dims] = Meant
    <3>1. \A f \in Meant : ~(f.axis <= 0) /\ f.axis <= Dims
      BY <1>3, <1>7
    <3>2. M[0] = {f \in Meant : f.axis <= 0} /\ M[Dims] = {f \in Meant : f.axis <= Dims}
      BY <2>1, <1>7
    <3> QED BY <3>1, <3>2
  <2>3. \A i \in 0..Dims : M[i] \in SUBSET Meant
    BY <2>1
  <2> QED BY <2>2, <2>3, <1>0, FS_Subset
<1>9. PICK p : p = [i \in 0..Dims |-> ProductOf(v, M[i])]
  OBVIOUS
<1>10. /\ p[0] = 1 /\ p[Dims] = WeightOf(c) /\ \A i \in 0..Dims : p[i] \in Int
  <2>1. \A i \in 0..Dims : p[i] \in Int
    <3> SUFFICES ASSUME NEW i \in 0..Dims PROVE ProductOf(v, M[i]) \in Int
      BY <1>9
    <3>1. IsFiniteSet(M[i]) /\ \A f \in M[i] : v[f] \in Int
      BY <1>3, <1>8
    <3> QED BY <3>1, ProductOfIs
  <2>2. ProductOf(v, {}) = 1
    BY <1>0, <1>3, ProductOfIs
  <2>3. 0 \in 0..Dims /\ Dims \in 0..Dims
    BY <1>7
  <2>4. p[0] = ProductOf(v, {}) /\ p[Dims] = ProductOf(v, Meant)
    BY <2>3, <1>8, <1>9
  <2> QED BY <2>1, <2>2, <2>4, <1>4
<1>11. CASE ~cube.aggregating
  <2>1. \A i \in Nat : i + 1 \in 0..Dims => p[i + 1] = p[i]
    <3> SUFFICES ASSUME NEW i \in Nat, i + 1 \in 0..Dims PROVE p[i + 1] = p[i]
      OBVIOUS
    <3>0. i \in 0..Dims
      BY <1>7
    <3>1. CASE \A f \in Meant : f.axis # i + 1
      <4>1. M[i + 1] = M[i]
        BY <1>3, <1>6, <1>7, <3>0, <3>1
      <4> QED BY <1>9, <3>0, <4>1
    <3>2. CASE \E f \in Meant : f.axis = i + 1
      <4>1. PICK f \in Meant : f.axis = i + 1
        BY <3>2
      <4>2. \A g \in Meant : g.axis = i + 1 => g = f
        BY <4>1, <1>0, MeantOnce
      <4>3. M[i + 1] = M[i] \cup {f} /\ f \notin M[i]
        BY <1>3, <1>6, <1>7, <3>0, <4>1, <4>2
      <4>4. IsFiniteSet(M[i]) /\ \A g \in M[i] : v[g] \in Int
        BY <1>3, <1>8, <3>0
      <4>5. ProductOf(v, M[i] \cup {f}) = v[f] * ProductOf(v, M[i])
        BY <1>3, <4>3, <4>4, ProductOfIs
      <4>6. v[f] = 1
        BY <1>3, <1>11 DEF WeightBy
      <4>7. p[i + 1] = v[f] * p[i]
        BY <1>9, <3>0, <4>3, <4>5
      <4> QED BY <1>10, <3>0, <4>6, <4>7
    <3> QED BY <3>1, <3>2
  <2>2. PICK T : T = {i \in Nat : i \in 0..Dims => p[i] = 1}
    OBVIOUS
  <2>3. 0 \in T
    BY <2>2, <1>10
  <2>4. \A i \in Nat : i \in T => i + 1 \in T
    BY <2>1, <2>2, <1>7
  <2>5. Nat \subseteq T
    BY <2>3, <2>4, SetInduction
  <2>6. p[Dims] = 1
    BY <2>2, <2>5, <1>7
  <2>7. Weighted(c, n) = n
    BY <1>11 DEF Weighted
  <2> QED BY <1>10, <2>6, <2>7
<1>12. CASE cube.aggregating
  <2>0. PICK x : /\ x[0] = n /\ Weighted(c, n) = x[Dims]
                 /\ \A a \in Axis : x[a] = x[a - 1] * Weight(c, a)
    BY <1>0, <1>12, WeightedSteps
  <2>1. \A i \in Nat : i + 1 \in 0..Dims => p[i + 1] = Weight(c, i + 1) * p[i]
    <3> SUFFICES ASSUME NEW i \in Nat, i + 1 \in 0..Dims PROVE p[i + 1] = Weight(c, i + 1) * p[i]
      OBVIOUS
    <3>0. i \in 0..Dims /\ i + 1 \in Axis
      BY <1>7
    <3>1. CASE \A f \in Meant : f.axis # i + 1
      <4>1. M[i + 1] = M[i]
        BY <1>3, <1>6, <1>7, <3>0, <3>1
      <4>2. Weight(c, i + 1) = 1
        BY <3>0, <3>1, <1>12, WeightByScope
      <4>3. p[i + 1] = p[i]
        BY <1>9, <3>0, <4>1
      <4> QED BY <1>10, <3>0, <4>2, <4>3
    <3>2. CASE \E f \in Meant : f.axis = i + 1
      <4>1. PICK f \in Meant : f.axis = i + 1
        BY <3>2
      <4>2. \A g \in Meant : g.axis = i + 1 => g = f
        BY <4>1, <1>0, MeantOnce
      <4>3. M[i + 1] = M[i] \cup {f} /\ f \notin M[i]
        BY <1>3, <1>6, <1>7, <3>0, <4>1, <4>2
      <4>4. IsFiniteSet(M[i]) /\ \A g \in M[i] : v[g] \in Int
        BY <1>3, <1>8, <3>0
      <4>5. ProductOf(v, M[i] \cup {f}) = v[f] * ProductOf(v, M[i])
        BY <1>3, <4>3, <4>4, ProductOfIs
      <4>6. v[f] = Weight(c, i + 1)
        BY <1>3, <1>12, <4>1, WeightByScope
      <4>7. p[i + 1] = v[f] * p[i]
        BY <1>9, <3>0, <4>3, <4>5
      <4> QED BY <4>6, <4>7
    <3> QED BY <3>1, <3>2
  <2>2. PICK T : T = {i \in Nat : i \in 0..Dims => x[i] = p[i] * n}
    OBVIOUS
  <2>3. 0 \in T
    BY <2>0, <2>2, <1>10
  <2>4. ASSUME NEW i \in Nat, i \in T PROVE i + 1 \in T
    <3> SUFFICES ASSUME i + 1 \in 0..Dims PROVE x[i + 1] = p[i + 1] * n
      BY <2>2
    <3>1. x[i] = p[i] * n /\ i + 1 \in Axis /\ (i + 1) - 1 = i /\ p[i] \in Int
      BY <1>7, <1>10, <2>2, <2>4
    <3>2. PICK k \in Int : k = Weight(c, i + 1)
      BY <1>2, <3>1
    <3>3. x[i + 1] = x[i] * k /\ p[i + 1] = k * p[i]
      BY <2>0, <2>1, <3>1, <3>2
    <3>4. PICK y \in Int : y = p[i]
      BY <3>1
    <3>5. (y * n) * k = (k * y) * n
      OBVIOUS
    <3> QED BY <3>1, <3>3, <3>4, <3>5
  <2>5. Nat \subseteq T
    BY <2>3, <2>4, SetInduction
  <2>6. x[Dims] = p[Dims] * n
    BY <2>2, <2>5, <1>7
  <2> QED BY <1>10, <1>7, <2>0, <2>6
<1> QED BY <1>4, <1>5, <1>11, <1>12
-------------------------------------------------------------------------------
(* When a query is done, it has looked at every visible cell.              *)
Seen ==
    {c \in DOMAIN q.snapshot \ q.left : InScope(c) /\ \A a \in Axis : c[a] \notin q.denied[a]}

LEMMA CountedAreSeen ==
  ASSUME NEW key, NEW m
  PROVE  Counted(key, m) = {c \in Seen : At(c, KeyAxes) = key /\ MeasureOf(c) = m}
BY DEF Counted, Seen

LEMMA VisibleInScope ==
  ASSUME OrdersGrow, LeavesKnown, AllTyped, AllMeant, q.pc = "done", Plain, NEW c \in Visible
  PROVE  InScope(c)
<1>0. RequestStands /\ FiltersMean /\ ScopesMean /\ OneEach
  BY DEF AllTyped, AllMeant, Plain, OneEach
<1>1. \A a \in Axis : FilterMeans(a) /\ ScopeMean(a)
  BY <1>0 DEF FiltersMean, ScopesMean, Scoped, Running
<1>2. Handled = Meant
  BY DEF Handled
<1> SUFFICES ASSUME NEW a \in Axis, q.scope[a] # None PROVE c[a] \in DOMAIN q.scope[a]
  BY DEF InScope
<1>3. q.filters[a] # None
  BY <1>1 DEF ScopeMean
<1>4. PICK f \in Meant : f.axis = a /\ Covers(a, f, q.filters[a])
  BY <1>0, <1>1, <1>2, <1>3 DEF FilterMeans
<1>5. Passes(c, f)
  BY DEF Visible
<1>6. c[a] \in Range(q.asked[a])
  BY DEF Visible, Plain
<1>7. CASE f.op = "notEquals"
  <2>1. c[a] \notin DOMAIN Under(a, f.members[1])
    BY <1>4, <1>5, <1>7 DEF Passes
  <2>2. c[a] \in Range(q.filters[a])
    BY <1>4, <1>6, <1>7, <2>1 DEF Covers
  <2>3. Stored(a, c[a]) = [l \in {c[a]} |-> 1]
    BY <1>6, AskedAreKnown, StoredIs
  <2>4. c[a] \in DOMAIN Stored(a, c[a])
    BY <2>3
  <2> QED BY <1>1, <1>3, <2>2, <2>4 DEF ScopeMean
<1>8. CASE f.op # "notEquals"
  <2>1. PICK m \in Range(f.members) : c[a] \in DOMAIN Stored(a, m)
    BY <1>4, <1>5, <1>8 DEF Passes
  <2>2. m \in Range(q.filters[a])
    BY <1>4, <1>8, <2>1 DEF Covers
  <2> QED BY <1>1, <1>3, <2>1, <2>2 DEF ScopeMean
<1> QED BY <1>7, <1>8

LEMMA SeenIsVisible ==
  ASSUME OrdersGrow, LeavesKnown, NothingIsLeft, AllTyped, AllMeant, q.pc = "done", Plain
  PROVE  Seen = Visible
<1>0. q.left = {} /\ OneEach
  BY DEF NothingIsLeft, Plain, OneEach
<1>1. q.denied = [b \in Axis |-> Hidden(b)]
  BY DEF AllMeant, DeniedMean, Filtered, Built, Running
<1>2. ASSUME NEW c
      PROVE  (\A a \in Axis : c[a] \notin q.denied[a])
             <=> \A a \in Axis : \A m \in q.request.denied[a] : c[a] \notin {m} \cup DOMAIN Under(a, m)
  <2>1. \A a \in Axis : q.denied[a] = Hidden(a)
    BY <1>1
  <2>2. \A a \in Axis : c[a] \notin Hidden(a)
            <=> \A m \in q.request.denied[a] : c[a] \notin {m} \cup DOMAIN Under(a, m)
    <3>1. DenialsKnown
      BY DEF AllTyped, RequestStands, Running, IsRequest, DenialsKnown
    <3>2. \A a \in Axis : Hidden(a) = UNION {Under1(a, m) : m \in q.request.denied[a]}
      BY <3>1, HiddenIs
    <3> QED BY <3>2 DEF Under1
  <2> QED BY <2>1, <2>2
<1>3. ASSUME NEW c \in Seen PROVE c \in Visible
  <2>1. c \in DOMAIN q.snapshot /\ InScope(c) /\ \A a \in Axis : c[a] \notin q.denied[a]
    BY DEF Seen
  <2>2. \A f \in Meant : Passes(c, f)
    BY <1>0, <2>1, InScopePasses
  <2> QED BY <1>2, <2>1, <2>2 DEF Visible
<1>4. ASSUME NEW c \in Visible PROVE c \in Seen
  <2>1. c \in DOMAIN q.snapshot
        /\ \A a \in Axis : \A m \in q.request.denied[a] : c[a] \notin {m} \cup DOMAIN Under(a, m)
    BY DEF Visible
  <2> QED BY <1>0, <1>2, <2>1, VisibleInScope DEF Seen
<1> QED BY <1>3, <1>4

LEMMA CountedAreCells ==
  ASSUME OrdersGrow, LeavesKnown, NothingIsLeft, AllTyped, AllMeant, q.pc = "done", Plain,
         NEW key, NEW m, cube.measureAxis = 0 => m = Value
  PROVE  Counted(key, m) = CellsOf(key, m)
<1>1. Seen = Visible /\ (Pivoted \/ cube.measureAxis = 0)
  BY SeenIsVisible DEF Plain
<1>2. RowAxes = KeyAxes
  BY <1>1, KeyAxesAre
<1>3. \A c : MeasureOf(c) = m <=> (cube.measureAxis # 0 => c[cube.measureAxis] = m)
  BY <1>1 DEF MeasureOf
<1> QED BY <1>1, <1>2, <1>3, CountedAreSeen DEF CellsOf
-------------------------------------------------------------------------------
(* What an accumulator means: of cells C with values val and, weighted,    *)
(* wgt, what its aggregation makes of them.  Among numbers only, but for   *)
(* the count of distinct values.                                           *)
Worths1(C, val) == {val[c] : c \in C}

Least(n, S) == n \in S /\ \A y \in S : n <= y
Most(n, S)  == n \in S /\ \A y \in S : n >= y

Numbered(C, val, wgt) ==
    \A c \in C : val[c] \in Amounts /\ (val[c] \notin Texts => val[c] \in Int /\ wgt[c] \in Int)

AccMeans(acc, fold, C, val, wgt) ==
    IF fold = "COUNTD" THEN acc.values = Worths1(C, val)
    ELSE (\A c \in C : val[c] \notin Texts) =>
             /\ acc.kind = "num" /\ acc.count = Cardinality(C)
             /\ acc.sum = SumOf(wgt, C) /\ acc.raw = SumOf(val, C)
             /\ Least(acc.least, Worths1(C, val)) /\ Most(acc.most, Worths1(C, val))

Denoted(fold, C, val, wgt) ==
    CASE fold = "SUM"    -> <<SumOf(wgt, C), 1>>
      [] fold = "AVG"    -> <<SumOf(val, C), Cardinality(C)>>
      [] fold = "COUNT"  -> <<Cardinality(C), 1>>
      [] fold = "COUNTD" -> <<Cardinality(Worths1(C, val)), 1>>
      [] fold = "MIN"    -> <<Min(Worths1(C, val)), 1>>
      [] fold = "MAX"    -> <<Max(Worths1(C, val)), 1>>

ValueMeans(v, fold, C, val, wgt) ==
    /\ C = {} => v = None
    /\ C # {} /\ (fold = "COUNTD" \/ \A c \in C : val[c] \notin Texts) =>
           v = Denoted(fold, C, val, wgt)

LEMMA LeastIs ==
  ASSUME NEW S, S \subseteq Int, NEW n
  PROVE  /\ Least(n, S) => Min(S) = n
         /\ Most(n, S) => Max(S) = n
<1>1. ASSUME Least(n, S) PROVE Min(S) = n
  <2>1. n \in S /\ \A y \in S : n <= y
    BY <1>1 DEF Least
  <2>2. \A x \in S : (\A y \in S : x <= y) => x = n
    BY <2>1
  <2> QED BY <2>1, <2>2 DEF Min
<1>2. ASSUME Most(n, S) PROVE Max(S) = n
  <2>1. n \in S /\ \A y \in S : n >= y
    BY <1>2 DEF Most
  <2>2. \A x \in S : (\A y \in S : x >= y) => x = n
    BY <2>1
  <2> QED BY <2>1, <2>2 DEF Max
<1> QED BY <1>1, <1>2

(* The smaller and the greater of a bound and one value more.              *)
LEMMA BoundIs ==
  ASSUME NEW S, S \subseteq Int, NEW n \in Int, NEW x \in Int
  PROVE  /\ Least(n, S) => Least(Min({n, x}), S \cup {x})
         /\ Most(n, S) => Most(Max({n, x}), S \cup {x})
         /\ Least(x, {x}) /\ Most(x, {x})
<1>1. ASSUME Least(n, S) PROVE Least(Min({n, x}), S \cup {x})
  <2>1. CASE n <= x
    BY <1>1, <2>1, MinIs DEF Least
  <2>2. CASE ~(n <= x)
    <3>1. Min({n, x}) = x
      BY <2>2, MinIs
    <3> QED BY <1>1, <2>2, <3>1 DEF Least
  <2> QED BY <2>1, <2>2
<1>2. ASSUME Most(n, S) PROVE Most(Max({n, x}), S \cup {x})
  <2>1. CASE x <= n
    <3>1. Max({n, x}) = n
      BY <2>1, MinIs
    <3> QED BY <1>2, <2>1, <3>1 DEF Most
  <2>2. CASE ~(x <= n)
    <3>1. Max({n, x}) = x
      BY <2>2, MinIs
    <3> QED BY <1>2, <2>2, <3>1 DEF Most
  <2> QED BY <2>1, <2>2
<1> QED BY <1>1, <1>2 DEF Least, Most

LEMMA AddMeans ==
  ASSUME NEW fold \in Implemented, NEW C, IsFiniteSet(C), NEW c, c \notin C, NEW val, NEW wgt,
         Numbered(C \cup {c}, val, wgt), NEW acc,
         \/ C = {} /\ acc = NewAcc(fold)
         \/ C # {} /\ AccFits(acc, fold) /\ AccMeans(acc, fold, C, val, wgt),
         NEW w, w = IF val[c] \in Texts THEN val[c] ELSE wgt[c]
  PROVE  AccMeans(Add(acc, val[c], w), fold, C \cup {c}, val, wgt)
<1>0. Worths1(C \cup {c}, val) = Worths1(C, val) \cup {val[c]} /\ Worths1({}, val) = {}
  BY DEF Worths1
<1>1. CASE fold = "COUNTD"
  <2>1. acc = [kind |-> "distinct", values |-> acc.values] /\ acc.values = Worths1(C, val)
    <3>1. CASE C = {}
      BY <1>0, <1>1, <3>1 DEF NewAcc
    <3>2. CASE C # {}
      BY <1>1, <3>2 DEF AccFits, AccMeans
    <3> QED BY <3>1, <3>2
  <2>2. Add(acc, val[c], w).values = acc.values \cup {val[c]}
    BY <2>1 DEF Add
  <2> QED BY <1>0, <1>1, <2>1, <2>2 DEF AccMeans
<1>2. CASE fold # "COUNTD"
  <2>0. PICK new, D : new = Add(acc, val[c], w) /\ D = C \cup {c}
    OBVIOUS
  <2> SUFFICES ASSUME \A x \in C \cup {c} : val[x] \notin Texts
               PROVE  /\ new.kind = "num" /\ new.count = Cardinality(D)
                      /\ new.sum = SumOf(wgt, D) /\ new.raw = SumOf(val, D)
                      /\ Least(new.least, Worths1(D, val)) /\ Most(new.most, Worths1(D, val))
    BY <1>2, <2>0 DEF AccMeans
  <2>1. \A x \in C \cup {c} : val[x] \in Int /\ wgt[x] \in Int
    BY DEF Numbered
  <2>2. PICK r \in Int, v \in Int : r = val[c] /\ v = wgt[c] /\ w = v /\ r \notin Texts
    BY <2>1
  <2>3. /\ SumOf(wgt, C \cup {c}) = v + SumOf(wgt, C) /\ SumOf(wgt, C) \in Int /\ SumOf(wgt, {}) = 0
        /\ SumOf(val, C \cup {c}) = r + SumOf(val, C) /\ SumOf(val, C) \in Int /\ SumOf(val, {}) = 0
    BY <2>1, <2>2, SumIs
  <2>4. Cardinality(C \cup {c}) = Cardinality(C) + 1 /\ Cardinality(C) \in Nat /\ Cardinality({}) = 0
    BY FS_AddElement, FS_CardinalityType, FS_EmptySet
  <2>5. CASE C = {}
    <3>1. acc = [kind |-> "num", sum |-> 0, raw |-> 0, count |-> 0, least |-> 0, most |-> 0]
      BY <1>2, <2>5 DEF NewAcc
    <3>2. Add(acc, r, v) = [kind |-> "num", sum |-> v, raw |-> r, count |-> 1,
                            least |-> r, most |-> r]
      BY <2>2, <3>1 DEF Add
    <3>3. Worths1(C \cup {c}, val) = {r} /\ Least(r, {r}) /\ Most(r, {r})
      BY <1>0, <2>2, <2>5 DEF Least, Most
    <3>4. /\ new.kind = "num" /\ new.sum = v /\ new.raw = r /\ new.count = 1
          /\ new.least = r /\ new.most = r
      BY <2>0, <2>2, <3>2
    <3>5. SumOf(wgt, D) = v /\ SumOf(val, D) = r /\ Cardinality(D) = 1
      BY <2>0, <2>3, <2>4, <2>5
    <3>6. Least(r, Worths1(D, val)) /\ Most(r, Worths1(D, val))
      BY <2>0, <3>3
    <3> QED BY <3>4, <3>5, <3>6
  <2>6. CASE C # {}
    <3>1. /\ acc.kind = "num" /\ acc.sum \in Int /\ acc.raw \in Int /\ acc.count \in Nat \ {0}
          /\ acc.least \in Int /\ acc.most \in Int
          /\ acc.count = Cardinality(C) /\ acc.sum = SumOf(wgt, C) /\ acc.raw = SumOf(val, C)
          /\ Least(acc.least, Worths1(C, val)) /\ Most(acc.most, Worths1(C, val))
      BY <1>2, <2>6 DEF AccFits, AccMeans
    <3>2. Add(acc, r, v) =
              [kind |-> "num", sum |-> acc.sum + v, raw |-> acc.raw + r, count |-> acc.count + 1,
               least |-> Min({acc.least, r}), most |-> Max({acc.most, r})]
      BY <2>2, <3>1 DEF Add
    <3>3. Worths1(C, val) \subseteq Int
      BY <2>1 DEF Worths1
    <3>4. /\ Least(Min({acc.least, r}), Worths1(C, val) \cup {r})
          /\ Most(Max({acc.most, r}), Worths1(C, val) \cup {r})
      BY <3>1, <3>3, BoundIs
    <3>5. /\ new.kind = "num" /\ new.sum = acc.sum + v /\ new.raw = acc.raw + r
          /\ new.count = acc.count + 1 /\ new.least = Min({acc.least, r}) /\ new.most = Max({acc.most, r})
      <4>1. PICK a1, a2, a3, a4, a5 :
                /\ a1 = acc.sum + v /\ a2 = acc.raw + r /\ a3 = acc.count + 1
                /\ a4 = Min({acc.least, r}) /\ a5 = Max({acc.most, r})
        OBVIOUS
      <4>2. new = [kind |-> "num", sum |-> a1, raw |-> a2, count |-> a3, least |-> a4, most |-> a5]
        BY <2>0, <2>2, <3>2, <4>1
      <4>3. /\ new.kind = "num" /\ new.sum = a1 /\ new.raw = a2 /\ new.count = a3
            /\ new.least = a4 /\ new.most = a5
        BY <4>2
      <4> QED BY <4>1, <4>3
    <3>6. SumOf(wgt, D) = acc.sum + v /\ SumOf(val, D) = acc.raw + r /\ Cardinality(D) = acc.count + 1
      BY <2>0, <2>3, <2>4, <3>1
    <3>7. Least(new.least, Worths1(D, val)) /\ Most(new.most, Worths1(D, val))
      BY <1>0, <2>0, <2>2, <3>4, <3>5
    <3> QED BY <3>5, <3>6, <3>7
  <2> QED BY <2>5, <2>6
<1> QED BY <1>1, <1>2

LEMMA FinishMeans ==
  ASSUME NEW fold \in Implemented, NEW C, C # {}, NEW val, NEW wgt, Numbered(C, val, wgt),
         NEW acc, AccFits(acc, fold), AccMeans(acc, fold, C, val, wgt)
  PROVE  ValueMeans(Finish(acc, fold), fold, C, val, wgt)
<1>1. CASE fold = "COUNTD"
  <2>1. acc.kind = "distinct" /\ acc.values = Worths1(C, val)
    BY <1>1 DEF AccFits, AccMeans
  <2> QED BY <1>1, <2>1 DEF Finish, ValueMeans, Denoted
<1>2. CASE fold # "COUNTD"
  <2> SUFFICES ASSUME \A c \in C : val[c] \notin Texts
               PROVE  Finish(acc, fold) = Denoted(fold, C, val, wgt)
    BY <1>2 DEF ValueMeans
  <2>1. /\ acc.kind = "num" /\ acc.count = Cardinality(C)
        /\ acc.sum = SumOf(wgt, C) /\ acc.raw = SumOf(val, C)
        /\ Least(acc.least, Worths1(C, val)) /\ Most(acc.most, Worths1(C, val))
    BY <1>2 DEF AccMeans
  <2>2. Worths1(C, val) \subseteq Int
    BY DEF Numbered, Worths1
  <2>3. Min(Worths1(C, val)) = acc.least /\ Max(Worths1(C, val)) = acc.most
    BY <2>1, <2>2, LeastIs
  <2> QED BY <1>2, <2>1, <2>3 DEF Finish, Denoted, Implemented
<1> QED BY <1>1, <1>2
-------------------------------------------------------------------------------
(* Cells, weighted; every group has what its cells come to, and every cell *)
(* that was seen its group or its row.                                     *)
Scaled == [c \in DOMAIN q.snapshot |-> Weighted(c, q.snapshot[c])]

CellsFinite == IsFiniteSet(DOMAIN cells) /\ IsFiniteSet(DOMAIN q.snapshot)

GroupMeans(key) ==
    /\ \A m : m \in DOMAIN q.groups[key] <=> Counted(key, m) # {}
    /\ \A m \in DOMAIN q.groups[key] :
           AccMeans(q.groups[key][m], FoldOf(m), Counted(key, m), q.snapshot, Scaled)

GroupsMean == \A key \in DOMAIN q.groups : GroupMeans(key)

SeenAt(k) == \E c \in Seen : At(c, KeyAxes) = k

KeysWhole ==
    q.pc \in {"fold", "join"} =>
        \A k : SeenAt(k) <=> (k \in DOMAIN q.groups \/ \E i \in DOMAIN q.rows : q.rows[i].key = k)

LEMMA FiniteStep ==
  ASSUME OrdersGrow, CellsFinite, [Next]_vars
  PROVE  CellsFinite'
<1>1. IsFiniteSet(DOMAIN cells')
  <2>1. CASE \E w \in Writes : PutCell(w)
    <3>1. PICK w \in Writes : PutCell(w)
      BY <2>1
    <3>2. cells' = With(cells, w.at, w.value)
      BY <3>1 DEF PutCell
    <3>3. DOMAIN cells' = DOMAIN cells \cup {w.at}
      BY <3>2 DEF With
    <3> QED BY <3>3, FS_AddElement DEF CellsFinite
  <2>2. CASE ~\E w \in Writes : PutCell(w)
    <3>1. cells' = cells
      <4>1. CASE Query
        BY <4>1, QueryWrites
      <4>2. CASE Other
        BY <2>2, <4>2 DEF Other, RefreshOrder, AddLeaf, PutTag
      <4>3. CASE UNCHANGED vars
        BY <4>3 DEF vars
      <4> QED BY <4>1, <4>2, <4>3 DEF Next
    <3> QED BY <3>1 DEF CellsFinite
  <2> QED BY <2>1, <2>2
<1>2. IsFiniteSet(DOMAIN q'.snapshot)
  <2>1. CASE \E r \in Requests : Ask(r)
    <3>1. q'.snapshot = <<>> /\ DOMAIN <<>> = {}
      BY <2>1, AskedNow, NoneIs
    <3> QED BY <3>1, FS_EmptySet
  <2>2. CASE Scan
    <3>1. q'.snapshot = cells
      BY <2>2, ScanMoves DEF OrdersGrow
    <3> QED BY <3>1 DEF CellsFinite
  <2>3. CASE ~(\E r \in Requests : Ask(r)) /\ ~Scan
    <3>1. Written
      BY <2>3, Writers DEF OrdersGrow
    <3>2. q'.snapshot = q.snapshot
      BY <2>3, <3>1 DEF Written
    <3> QED BY <3>2 DEF CellsFinite
  <2> QED BY <2>1, <2>2, <2>3
<1> QED BY <1>1, <1>2 DEF CellsFinite

(* What is seen, counted and weighted while a query folds and emits.       *)
WeightedIn(scope, aggregating, c, n) ==
    LET upto[a \in 0..Dims] ==
            IF a = 0 THEN n ELSE upto[a - 1] * (IF scope[a] = None THEN 1 ELSE scope[a][c[a]])
    IN  IF aggregating THEN upto[Dims] ELSE n

LEMMA SameWeights ==
  ASSUME q'.scope = q.scope, cube' = cube
  PROVE  /\ \A c, n : Weighted(c, n)' = Weighted(c, n)
         /\ q'.snapshot = q.snapshot => Scaled' = Scaled
<1>1. \A c, n : Weighted(c, n) = WeightedIn(q.scope, cube.aggregating, c, n)
  BY DEF Weighted, WeightedIn
<1>2. ASSUME NEW c, NEW n
      PROVE  Weighted(c, n)' = WeightedIn(q'.scope, cube'.aggregating, c, n)
  BY DEF Weighted, WeightedIn
<1>3. \A c, n : Weighted(c, n)' = Weighted(c, n)
  BY <1>1, <1>2
<1>4. ASSUME q'.snapshot = q.snapshot PROVE Scaled' = Scaled
  BY <1>3, <1>4 DEF Scaled
<1> QED BY <1>3, <1>4

Steady ==
    /\ Written /\ cube' = cube /\ ~TakeMeasures /\ ~EndFilters /\ ~Resolve /\ ~Scan

LEMMA SameSeen ==
  ASSUME OrdersGrow, Steady
  PROVE  /\ KeyAxes' = KeyAxes /\ Scaled' = Scaled /\ q'.snapshot = q.snapshot
         /\ \A c, key : SeenAt(key)' <=> \E d \in Seen' : At(d, KeyAxes) = key
         /\ \A c : /\ At(c, KeyAxes)' = At(c, KeyAxes) /\ MeasureOf(c)' = MeasureOf(c)
                   /\ InScope(c)' <=> InScope(c)
         /\ \A m : FoldOf(m)' = FoldOf(m)
         /\ q'.left = q.left => /\ Seen' = Seen /\ \A key : SeenAt(key)' <=> SeenAt(key)
                                /\ \A key, m : Counted(key, m)' = Counted(key, m)
<1>1. /\ q'.request = q.request /\ q'.measures = q.measures /\ q'.snapshot = q.snapshot
      /\ q'.scope = q.scope /\ q'.denied = q.denied /\ q'.folds = q.folds
  BY DEF Written, Steady
<1>2. /\ KeyAxes' = KeyAxes
      /\ \A c : InScope(c)' <=> InScope(c)
      /\ q'.left = q.left => \A key, m : Counted(key, m)' = Counted(key, m)
  BY CountedGrows DEF Steady
<1>3. \A c : At(c, KeyAxes)' = At(c, KeyAxes) /\ MeasureOf(c)' = MeasureOf(c)
  BY <1>1, <1>2 DEF MeasureOf, Pivoted, At, Steady
<1>4. \A m : FoldOf(m)' = FoldOf(m)
  BY <1>1 DEF FoldOf
<1>5. Scaled' = Scaled
  BY <1>1, SameWeights DEF Steady
<1>6. \A key : SeenAt(key)' <=> \E d \in Seen' : At(d, KeyAxes) = key
  BY <1>3 DEF SeenAt
<1>7. ASSUME q'.left = q.left PROVE Seen' = Seen /\ \A key : SeenAt(key)' <=> SeenAt(key)
  <2>1. Seen' = Seen
    BY <1>1, <1>2, <1>7 DEF Seen
  <2> QED BY <1>6, <2>1 DEF SeenAt
<1> QED BY <1>1, <1>2, <1>3, <1>4, <1>5, <1>6, <1>7

LEMMA FoldIsSteady ==
  ASSUME OrdersGrow, [Next]_vars, ~(\E r \in Requests : Ask(r)), q.pc \notin Early
  PROVE  Steady
<1>1. Written /\ cube' = cube
  BY Writers DEF OrdersGrow
<1>2. ~TakeMeasures /\ ~EndFilters /\ ~Resolve /\ ~Scan
  BY DEF TakeMeasures, EndFilters, Resolve, Scan, Early
<1> QED BY <1>1, <1>2 DEF Steady

Denied(c) == \E a \in Axis : c[a] \in q.denied[a]

LEMMA SeenFolded ==
  ASSUME OrdersGrow, ScopeTyped, RowsInOrder, Steady, NEW c \in q.left, Fold(c)
  PROVE  /\ c \notin Seen /\ c \in DOMAIN q.snapshot /\ InScope(c)
         /\ Denied(c) => Seen' = Seen /\ \A key, m : Counted(key, m)' = Counted(key, m)
         /\ ~Denied(c) =>
                /\ Seen' = Seen \cup {c}
                /\ Counted(At(c, KeyAxes), MeasureOf(c))' = Counted(At(c, KeyAxes), MeasureOf(c)) \cup {c}
                /\ \A key, m : key # At(c, KeyAxes) \/ m # MeasureOf(c) =>
                       Counted(key, m)' = Counted(key, m)
<1>1. /\ q'.left = q.left \ {c} /\ q'.snapshot = q.snapshot /\ q'.denied = q.denied /\ q.pc = "fold"
  BY FoldMoves DEF OrdersGrow, Moves, Fields
<1>2. InScope(c) /\ c \in DOMAIN q.snapshot
  BY <1>1 DEF ScopeTyped, RowsInOrder
<1>3. \A d : InScope(d)' <=> InScope(d)
  BY SameSeen
<1>4. Seen' = {d \in DOMAIN q.snapshot \ (q.left \ {c}) : InScope(d) /\ \A a \in Axis : d[a] \notin q.denied[a]}
  BY <1>1, <1>3 DEF Seen
<1>5. Denied(c) => Seen' = Seen
  BY <1>4 DEF Seen, Denied
<1>6. ~Denied(c) => Seen' = Seen \cup {c}
  BY <1>2, <1>4 DEF Seen, Denied
<1>7. c \notin Seen
  BY DEF Seen
<1>8. ASSUME NEW key, NEW m
      PROVE  Counted(key, m)' = {d \in Seen' : At(d, KeyAxes) = key /\ MeasureOf(d) = m}
  <2>1. Counted(key, m)' = {d \in Seen' : At(d, KeyAxes)' = key /\ MeasureOf(d)' = m}
    BY DEF Counted, Seen
  <2> QED BY <2>1, SameSeen
<1>9. Denied(c) => \A key, m : Counted(key, m)' = Counted(key, m)
  BY <1>5, <1>8, CountedAreSeen
<1>10. ASSUME ~Denied(c)
       PROVE  /\ Counted(At(c, KeyAxes), MeasureOf(c))' = Counted(At(c, KeyAxes), MeasureOf(c)) \cup {c}
              /\ \A key, m : key # At(c, KeyAxes) \/ m # MeasureOf(c) =>
                     Counted(key, m)' = Counted(key, m)
  <2>1. PICK k, n : k = At(c, KeyAxes) /\ n = MeasureOf(c)
    OBVIOUS
  <2>2. Counted(k, n)' = Counted(k, n) \cup {c}
    BY <1>6, <1>8, <1>10, <2>1, CountedAreSeen
  <2>3. \A key, m : key # k \/ m # n => Counted(key, m)' = Counted(key, m)
    BY <1>6, <1>8, <1>10, <2>1, CountedAreSeen
  <2>4. Counted(At(c, KeyAxes), MeasureOf(c))' = Counted(k, n)'
    BY <2>1, SameSeen DEF Counted
  <2> QED BY <2>1, <2>2, <2>3, <2>4
<1> QED BY <1>2, <1>5, <1>6, <1>7, <1>9, <1>10
LEMMA SeenIsNumbered ==
  ASSUME CellsTyped, ScopeTyped, CellsFinite
  PROVE  /\ \A c \in DOMAIN q.snapshot : InScope(c) => Numbered({c}, q.snapshot, Scaled)
         /\ \A key, m : /\ IsFiniteSet(Counted(key, m))
                        /\ Numbered(Counted(key, m), q.snapshot, Scaled)
<1>1. ASSUME NEW c \in DOMAIN q.snapshot, InScope(c) PROVE Numbered({c}, q.snapshot, Scaled)
  <2>1. q.snapshot[c] \in Amounts
    BY DEF CellsTyped
  <2>2. q.snapshot[c] \notin Texts => q.snapshot[c] \in Int
    BY <2>1 DEF Amounts
  <2>3. q.snapshot[c] \notin Texts => Weighted(c, q.snapshot[c]) \in Int
    BY <1>1, <2>2, WeightedIs
  <2>4. Scaled[c] = Weighted(c, q.snapshot[c])
    BY DEF Scaled
  <2> QED BY <2>1, <2>2, <2>3, <2>4 DEF Numbered
<1>2. ASSUME NEW key, NEW m
      PROVE  IsFiniteSet(Counted(key, m)) /\ Numbered(Counted(key, m), q.snapshot, Scaled)
  <2>1. Counted(key, m) \subseteq DOMAIN q.snapshot /\ \A c \in Counted(key, m) : InScope(c)
    BY DEF Counted
  <2>2. IsFiniteSet(Counted(key, m))
    BY <2>1, FS_Subset DEF CellsFinite
  <2>3. \A c \in Counted(key, m) : Numbered({c}, q.snapshot, Scaled)
    BY <1>1, <2>1
  <2> QED BY <2>2, <2>3 DEF Numbered
<1> QED BY <1>1, <1>2

LEMMA SameGroup ==
  ASSUME OrdersGrow, Steady, NEW key, GroupMeans(key), q'.groups[key] = q.groups[key],
         \A m : Counted(key, m)' = Counted(key, m)
  PROVE  GroupMeans(key)'
<1>1. /\ Scaled' = Scaled /\ q'.snapshot = q.snapshot
      /\ \A m : FoldOf(m)' = FoldOf(m)
  BY SameSeen
<1>2. \A m : m \in DOMAIN q'.groups[key] <=> Counted(key, m)' # {}
  BY DEF GroupMeans
<1>3. ASSUME NEW m \in DOMAIN q'.groups[key]
      PROVE  AccMeans(q'.groups[key][m], FoldOf(m)', Counted(key, m)', q'.snapshot, Scaled')
  BY <1>1 DEF GroupMeans
<1> QED BY <1>2, <1>3 DEF GroupMeans

LEMMA GroupFoldedMeans ==
  ASSUME OrdersGrow, CellsTyped, FoldsTyped, ScopeTyped, GroupsTyped, RowsInOrder, CellsFinite,
         KeysWhole, GroupsMean, Steady, NEW c \in q.left, Fold(c)
  PROVE  GroupsMean'
<1>0. PICK key, m : key = At(c, KeyAxes) /\ m = MeasureOf(c)
  OBVIOUS
<1>1. /\ Scaled' = Scaled /\ q'.snapshot = q.snapshot /\ \A x : FoldOf(x)' = FoldOf(x)
  BY SameSeen
<1>2. /\ c \notin Seen /\ c \in DOMAIN q.snapshot /\ InScope(c)
      /\ Denied(c) => \A k, x : Counted(k, x)' = Counted(k, x)
      /\ ~Denied(c) =>
             /\ Counted(key, m)' = Counted(key, m) \cup {c}
             /\ \A k, x : k # key \/ x # m => Counted(k, x)' = Counted(k, x)
  <2>1. Counted(key, m)' = Counted(At(c, KeyAxes), MeasureOf(c))'
    BY <1>0, SameSeen DEF Counted
  <2> QED BY <1>0, <2>1, SeenFolded
<1>3. CASE Denied(c)
  <2>1. q'.groups = q.groups
    BY <1>3, FoldGroups DEF Denied, OrdersGrow
  <2> QED BY <1>2, <1>3, <2>1, SameGroup DEF GroupsMean
<1>4. CASE ~Denied(c)
  <2>1. PICK accs, acc, w :
            /\ accs = IF key \in DOMAIN q.groups THEN q.groups[key] ELSE <<>>
            /\ acc = IF m \in DOMAIN accs THEN accs[m] ELSE NewAcc(FoldOf(m))
            /\ w = IF Read(c) \in Texts THEN Read(c) ELSE Weighted(c, Read(c))
            /\ q'.groups = With(q.groups, key, With(accs, m, Add(acc, Read(c), w)))
    BY <1>0, <1>4, FoldGroups DEF Denied, OrdersGrow
  <2>2. \A x : x \in DOMAIN accs <=> Counted(key, x) # {}
    <3>1. CASE key \in DOMAIN q.groups
      BY <2>1, <3>1 DEF GroupsMean, GroupMeans
    <3>2. CASE key \notin DOMAIN q.groups
      <4>1. q.pc = "fold" /\ q.rows = <<>>
        BY FoldMoves DEF OrdersGrow, RowsInOrder
      <4>2. ~SeenAt(key)
        BY <3>2, <4>1, NoneIs DEF KeysWhole
      <4>3. \A x : Counted(key, x) = {}
        BY <4>2, CountedAreSeen DEF SeenAt
      <4> QED BY <2>1, <3>2, <4>3, NoneIs
    <3> QED BY <3>1, <3>2
  <2>3. \A x \in DOMAIN accs : /\ AccMeans(accs[x], FoldOf(x), Counted(key, x), q.snapshot, Scaled)
                               /\ AccFits(accs[x], FoldOf(x))
    BY <2>1, NoneIs DEF GroupsMean, GroupMeans, GroupsTyped
  <2>4. PICK new : new = Add(acc, q.snapshot[c], w)
    OBVIOUS
  <2>5. AccMeans(new, FoldOf(m), Counted(key, m) \cup {c}, q.snapshot, Scaled)
    <3>1. c \notin Counted(key, m) /\ IsFiniteSet(Counted(key, m)) /\ FoldOf(m) \in Implemented
      BY <1>2, CountedAreSeen, SeenIsNumbered, FoldIsOne
    <3>2. Numbered(Counted(key, m) \cup {c}, q.snapshot, Scaled)
      <4>1. Numbered({c}, q.snapshot, Scaled) /\ Numbered(Counted(key, m), q.snapshot, Scaled)
        BY <1>2, SeenIsNumbered
      <4> QED BY <4>1 DEF Numbered
    <3>3. \/ Counted(key, m) = {} /\ acc = NewAcc(FoldOf(m))
          \/ /\ Counted(key, m) # {} /\ AccFits(acc, FoldOf(m))
             /\ AccMeans(acc, FoldOf(m), Counted(key, m), q.snapshot, Scaled)
      BY <2>1, <2>2, <2>3
    <3>4. w = IF q.snapshot[c] \in Texts THEN q.snapshot[c] ELSE Scaled[c]
      BY <1>2, <2>1 DEF Read, Scaled
    <3> QED BY <2>4, <3>1, <3>2, <3>3, <3>4, AddMeans
  <2>6. q'.groups = With(q.groups, key, With(accs, m, new))
    BY <2>1, <2>4 DEF Read
  <2>7. ASSUME NEW k \in DOMAIN q'.groups, k # key PROVE GroupMeans(k)'
    <3>1. k \in DOMAIN q.groups /\ q'.groups[k] = q.groups[k]
      BY <2>6, <2>7 DEF With
    <3>2. GroupMeans(k) /\ \A x : Counted(k, x)' = Counted(k, x)
      BY <1>2, <1>4, <2>7, <3>1 DEF GroupsMean
    <3> QED BY <3>1, <3>2, SameGroup
  <2>8. GroupMeans(key)'
    <3>1. q'.groups[key] = With(accs, m, new)
      BY <2>6 DEF With
    <3>2. \A x : x \in DOMAIN q'.groups[key] <=> Counted(key, x)' # {}
      BY <1>2, <1>4, <2>2, <3>1 DEF With
    <3>3. ASSUME NEW x \in DOMAIN q'.groups[key]
          PROVE  AccMeans(q'.groups[key][x], FoldOf(x)', Counted(key, x)', q'.snapshot, Scaled')
      <4>1. CASE x = m
        <5>1. q'.groups[key][m] = new
          BY <3>1 DEF With
        <5> QED BY <1>1, <1>2, <1>4, <2>5, <4>1, <5>1
      <4>2. CASE x # m
        <5>1. x \in DOMAIN accs /\ q'.groups[key][x] = accs[x]
          BY <3>1, <4>2 DEF With
        <5> QED BY <1>1, <1>2, <1>4, <2>3, <4>2, <5>1
      <4> QED BY <4>1, <4>2
    <3> QED BY <3>2, <3>3 DEF GroupMeans
  <2> QED BY <2>7, <2>8 DEF GroupsMean
<1> QED BY <1>3, <1>4

LEMMA GroupsMeanStep ==
  ASSUME OrdersGrow, CellsTyped, FoldsTyped, ScopeTyped, GroupsTyped, RowsInOrder, CellsFinite,
         KeysWhole, GroupsMean, [Next]_vars
  PROVE  GroupsMean'
<1>1. CASE \E r \in Requests : Ask(r)
  <2>1. q'.groups = <<>>
    BY <1>1, AskedNow
  <2> QED BY <2>1, NoneIs DEF GroupsMean
<1>2. CASE ~(\E r \in Requests : Ask(r)) /\ q.pc \in Early
  <2>1. Written
    BY <1>2, Writers DEF OrdersGrow
  <2>2. ~Folding /\ ~Emitting
    BY <1>2 DEF Folding, Fold, Emitting, Emit, Early
  <2>3. q'.groups = <<>>
    BY <1>2, <2>1, <2>2 DEF Written, RowsInOrder
  <2> QED BY <2>3, NoneIs DEF GroupsMean
<1>3. CASE ~(\E r \in Requests : Ask(r)) /\ q.pc \notin Early
  <2>1. Steady
    BY <1>3, FoldIsSteady
  <2>2. CASE Folding
    BY <2>1, <2>2, GroupFoldedMeans DEF Folding
  <2>3. CASE ~Folding
    <3>1. q'.left = q.left
      BY <2>1, <2>3 DEF Steady, Written
    <3>2. \A k, x : Counted(k, x)' = Counted(k, x)
      BY <2>1, <3>1, SameSeen
    <3>3. \A k \in DOMAIN q'.groups : k \in DOMAIN q.groups /\ q'.groups[k] = q.groups[k]
      <4>1. CASE Emitting
        <5>1. PICK key \in DOMAIN q.groups : Emit(key)
          BY <4>1 DEF Emitting
        <5>2. q'.groups = Restrict(q.groups, DOMAIN q.groups \ {key})
          BY <5>1, EmitMoves DEF OrdersGrow
        <5> QED BY <5>2 DEF Restrict
      <4>2. CASE ~Emitting
        BY <2>1, <2>3, <4>2 DEF Steady, Written
      <4> QED BY <4>1, <4>2
    <3> QED BY <2>1, <3>2, <3>3, SameGroup DEF GroupsMean
  <2> QED BY <2>2, <2>3
<1> QED BY <1>1, <1>2, <1>3
LEMMA KeysFolded ==
  ASSUME OrdersGrow, ScopeTyped, RowsInOrder, KeysWhole, Steady, NEW c \in q.left, Fold(c)
  PROVE  KeysWhole'
<1>0. PICK key : key = At(c, KeyAxes)
  OBVIOUS
<1>1. q.pc = "fold" /\ q'.rows = q.rows
  BY FoldMoves DEF OrdersGrow, Moves, Fields
<1>2. \A k : SeenAt(k)' <=> \E d \in Seen' : At(d, KeyAxes) = k
  BY SameSeen
<1>3. CASE Denied(c)
  <2>1. q'.groups = q.groups
    BY <1>3, FoldGroups DEF Denied, OrdersGrow
  <2>2. \A k : SeenAt(k)' <=> SeenAt(k)
    BY <1>2, <1>3, SeenFolded DEF SeenAt
  <2> QED BY <1>1, <2>1, <2>2 DEF KeysWhole
<1>4. CASE ~Denied(c)
  <2>1. DOMAIN q'.groups = DOMAIN q.groups \cup {key}
    <3>1. PICK v : q'.groups = With(q.groups, key, v)
      BY <1>0, <1>4, FoldGroups DEF Denied, OrdersGrow
    <3> QED BY <3>1 DEF With
  <2>2. \A k : SeenAt(k)' <=> SeenAt(k) \/ k = key
    BY <1>0, <1>2, <1>4, SeenFolded DEF SeenAt
  <2> QED BY <1>1, <2>1, <2>2 DEF KeysWhole
<1> QED BY <1>3, <1>4

LEMMA KeysStep ==
  ASSUME OrdersGrow, ScopeTyped, RowsInOrder, KeysWhole, [Next]_vars
  PROVE  KeysWhole'
<1>1. CASE \E r \in Requests : Ask(r)
  BY <1>1, AskedNow DEF KeysWhole
<1>2. CASE ~(\E r \in Requests : Ask(r)) /\ q.pc \in Early
  <2>1. Written /\ Led
    BY <1>2, Writers DEF OrdersGrow
  <2> SUFFICES ASSUME q'.pc \in {"fold", "join"}
               PROVE  \A k : SeenAt(k)' <=> (k \in DOMAIN q'.groups \/ \E i \in DOMAIN q'.rows : q'.rows[i].key = k)
    BY DEF KeysWhole
  <2>2. Scan
    BY <1>2, <2>1 DEF Led, Early, Calculate
  <2>3. /\ q'.snapshot = cells /\ q'.left = {c \in DOMAIN cells : InScope(c)} /\ q'.scope = q.scope
        /\ q'.groups = <<>> /\ q'.rows = <<>>
    BY <1>2, <2>2, ScanMoves DEF OrdersGrow, RowsInOrder, Moves, Fields
  <2>4. \A c : InScope(c)' <=> InScope(c)
    BY <2>3 DEF InScope
  <2>5. Seen' = {}
    <3>1. Seen' \subseteq {c \in DOMAIN q'.snapshot \ q'.left : InScope(c)'}
      BY DEF Seen
    <3> QED BY <2>3, <2>4, <3>1
  <2> QED BY <2>3, <2>5, NoneIs DEF SeenAt
<1>3. CASE ~(\E r \in Requests : Ask(r)) /\ q.pc \notin Early
  <2>1. Steady /\ Led
    BY <1>3, FoldIsSteady, Writers DEF OrdersGrow
  <2>2. CASE Folding
    BY <2>1, <2>2, KeysFolded DEF Folding
  <2>3. CASE ~Folding
    <3>1. q'.left = q.left
      BY <2>1, <2>3 DEF Steady, Written
    <3>2. \A k : SeenAt(k)' <=> SeenAt(k)
      BY <2>1, <3>1, SameSeen
    <3>3. q'.pc \in {"fold", "join"} => q.pc \in {"fold", "join"}
      BY <1>3, <2>1 DEF Led, Early, Calculate, Steady
    <3> SUFFICES ASSUME q'.pc \in {"fold", "join"}, NEW k
                 PROVE  (k \in DOMAIN q'.groups \/ \E i \in DOMAIN q'.rows : q'.rows[i].key = k) <=>
                        (k \in DOMAIN q.groups \/ \E i \in DOMAIN q.rows : q.rows[i].key = k)
      BY <3>2, <3>3 DEF KeysWhole
    <3>4. CASE Emitting
      <4>1. PICK key \in DOMAIN q.groups : Emit(key)
        BY <3>4 DEF Emitting
      <4>2. /\ q'.groups = Restrict(q.groups, DOMAIN q.groups \ {key})
            /\ q'.rows = Append(q.rows, Row(key))
        BY <4>1, EmitMoves DEF OrdersGrow
      <4>3. DOMAIN q'.groups = DOMAIN q.groups \ {key}
        BY <4>2 DEF Restrict
      <4>4. Row(key).key = key /\ q.rows \in Seq(Range(q.rows))
        BY DEF Row, RowsInOrder, IsList
      <4>5. PICK n \in Nat : n = Len(q.rows) /\ DOMAIN q.rows = 1..n
        BY <4>4, SeqIs
      <4>6. /\ DOMAIN q'.rows = 1..(n + 1) /\ q'.rows[n + 1] = Row(key)
            /\ \A i \in 1..n : q'.rows[i] = q.rows[i]
        BY <4>2, <4>4, <4>5
      <4>7. (\E i \in DOMAIN q'.rows : q'.rows[i].key = k) <=>
            (k = key \/ \E i \in DOMAIN q.rows : q.rows[i].key = k)
        BY <4>4, <4>5, <4>6
      <4> QED BY <4>1, <4>3, <4>7
    <3>5. CASE Calculate
      <4>1. q'.groups = q.groups /\ q'.pc = "join"
        BY <3>5, CalculateMoves DEF OrdersGrow, Moves, Fields
      <4>2. CASE q'.rows = q.rows
        BY <4>1, <4>2
      <4>3. CASE q'.rows = [i \in DOMAIN q.rows |-> [q.rows[i] EXCEPT !.values = Columns(q.rows[i])]]
        <5>1. DOMAIN q'.rows = DOMAIN q.rows
          BY <4>3
        <5>2. \A i \in DOMAIN q.rows : q'.rows[i].key = q.rows[i].key
          BY <4>3 DEF RowsInOrder
        <5> QED BY <4>1, <5>1, <5>2
      <4> QED BY <3>5, <4>1, <4>2, <4>3, CalculateMoves DEF OrdersGrow
    <3>6. CASE ~Emitting /\ ~Calculate
      <4>1. ~Join
        BY JoinMoves DEF OrdersGrow
      <4> QED BY <2>1, <2>3, <3>6, <4>1 DEF Steady, Written
    <3> QED BY <3>4, <3>5, <3>6
  <2> QED BY <2>2, <2>3
<1> QED BY <1>1, <1>2, <1>3
-------------------------------------------------------------------------------
(* The aggregation of a measure is the one that was asked for, and so are  *)
(* the columns: of a formula always, of a measure where no two columns     *)
(* have its name.                                                          *)
SumOr(fold) == IF fold = None THEN "SUM" ELSE fold

FoldIn(folds, m) == IF m \in DOMAIN folds THEN folds[m] ELSE "SUM"

OneName == \A e, f \in Range(Asked) : e.name = f.name => e = f

FoldsMean ==
    q.pc \in Built =>
        /\ \A n \in DOMAIN q.columns :
               IF q.columns[n] = None
                 THEN \E e \in Range(Asked) : /\ e.name = n /\ e.expr = None
                                              /\ OneName => FoldOf(n) = SumOr(e.fold)
                 ELSE \A s \in Range(Slots[q.columns[n]]) : FoldOf(s.name) = s.fold
        /\ \A e \in Range(q.request.measures) :
               IF IsAll(e) THEN Range(q.asked[cube.measureAxis]) \subseteq DOMAIN q.columns
               ELSE e.name \in DOMAIN q.columns
        /\ cube.measureAxis = 0 => q.measures \subseteq {Value}

LEMMA RecordedFolds ==
  ASSUME NEW es, es \in Seq(Range(es)),
         \A x \in Range(es) : DOMAIN x = {"name", "fold", "expr"} /\ x.fold \in Implemented \cup {None},
         NEW rs, rs = Recorded(es), ~FoldedTwice(rs),
         NEW folds, folds = [n \in Titles(rs) |-> LastOf(rs, n).fold],
         NEW x \in Range(es), Sql => \A y \in Range(es) : y.name = x.name => y = x
  PROVE  FoldIn(folds, x.name) = SumOr(x.fold)
<1>1. Len(es) \in Nat /\ DOMAIN es = 1..Len(es) /\ \A i \in 1..Len(es) : es[i] \in Range(es)
  BY SeqIs
<1>2. rs \in Seq(Range(rs))
  BY RecordedAre
<1>3. \A n \in Titles(rs) : LastOf(rs, n) \in Range(rs) /\ LastOf(rs, n).name = n
  BY <1>2, TitlesAre
<1>4. \A e \in Range(rs) : e.name \in Titles(rs)
  BY <1>2, TitlesAre
<1>5. CASE Sql
  <2>1. PICK I : I = {i \in DOMAIN es : es[i].fold # None} /\ rs = Only(es, I)
    BY <1>5 DEF Recorded
  <2>2. rs \in Seq(Range(es)) /\ \E f : Kept(rs, es, I, Len(es), f)
    <3>1. Only(es, I) \in Seq(Range(es)) /\ \E f : Kept(Only(es, I), es, I, Len(es), f)
      BY OnlyIs
    <3> QED BY <2>1, <3>1
  <2>3. PICK f : Kept(rs, es, I, Len(es), f)
    BY <2>2
  <2>4. CASE x.name \in Titles(rs)
    <3>1. PICK last \in Range(rs) : last = LastOf(rs, x.name) /\ last.name = x.name
      BY <1>3, <2>4
    <3>2. PICK i \in 1..Len(rs) : last = rs[i]
      <4>1. DOMAIN rs = 1..Len(rs)
        BY <1>2
      <4> QED BY <3>1, <4>1 DEF Range
    <3>3. PICK k \in (1..Len(es)) \cap I : last = es[k]
      BY <2>3, <3>2 DEF Kept
    <3>4. last \in Range(es) /\ last.fold # None
      BY <1>1, <2>1, <3>3
    <3>5. last = x
      BY <1>5, <3>1, <3>4
    <3> QED BY <2>4, <3>1, <3>4, <3>5 DEF FoldIn, SumOr
  <2>5. CASE x.name \notin Titles(rs)
    <3>1. x.fold = None
      <4>1. SUFFICES ASSUME x.fold # None PROVE FALSE
        OBVIOUS
      <4>2. PICK k \in 1..Len(es) : x = es[k]
        BY SeqIs
      <4>3. k \in (1..Len(es)) \cap I
        BY <1>1, <2>1, <4>1, <4>2
      <4>4. PICK i \in 1..Len(rs) : f[i] = k
        BY <2>3, <4>3 DEF Kept
      <4>5. rs[i] = x
        BY <2>3, <4>2, <4>4 DEF Kept
      <4>6. x \in Range(rs)
        BY <2>2, <4>5, SeqIs
      <4> QED BY <1>4, <2>5, <4>6
    <3> QED BY <2>5, <3>1 DEF FoldIn, SumOr
  <2> QED BY <2>4, <2>5
<1>6. CASE ~Sql
  <2>1. rs = [i \in DOMAIN es |-> [es[i] EXCEPT !.fold = IF @ = None THEN "SUM" ELSE @]]
    BY <1>6 DEF Recorded
  <2>2. PICK i \in DOMAIN es : x = es[i]
    BY <1>1, SeqIs
  <2>3. rs[i].name = x.name /\ rs[i].fold = SumOr(x.fold) /\ i \in DOMAIN rs
    <3>1. rs[i] = [x EXCEPT !.fold = IF @ = None THEN "SUM" ELSE @] /\ i \in DOMAIN rs
      BY <2>1, <2>2
    <3> QED BY <3>1 DEF SumOr
  <2>4. rs[i] \in Range(rs)
    BY <2>3 DEF Range
  <2>5. x.name \in Titles(rs)
    BY <1>4, <2>3, <2>4
  <2>6. PICK k \in DOMAIN rs : rs[k] = LastOf(rs, x.name) /\ rs[k].name = x.name
    BY <1>3, <2>5 DEF Range
  <2>7. rs[k].fold = rs[i].fold
    BY <1>6, <2>3, <2>6 DEF FoldedTwice
  <2> QED BY <2>3, <2>5, <2>6, <2>7 DEF FoldIn
<1> QED BY <1>5, <1>6

LEMMA FoldsTaken ==
  ASSUME OrdersGrow, RequestStands, TakeMeasures, q'.pc # "refused"
  PROVE  /\ \A n \in DOMAIN q'.columns :
                IF q'.columns[n] = None
                  THEN \E e \in Range(Asked) : /\ e.name = n /\ e.expr = None
                                               /\ OneName => FoldIn(q'.folds, n) = SumOr(e.fold)
                  ELSE \A s \in Range(Slots[q'.columns[n]]) : FoldIn(q'.folds, s.name) = s.fold
         /\ \A e \in Range(Asked) : e.name \in DOMAIN q'.columns
         /\ cube.measureAxis = 0 => q'.measures \subseteq {Value}
<1>1. PICK cs, es, rs : cs = Asked /\ es = Expanded /\ rs = Recorded(es)
  OBVIOUS
<1>2. q.pc \in Running /\ DOMAIN q = Fields
  BY DEF TakeMeasures, Running, OrdersGrow
<1>3. PICK cols, folds, ms : /\ cols = [n \in Titles(cs) |-> LastOf(cs, n).expr]
                             /\ folds = [n \in Titles(rs) |-> LastOf(rs, n).fold]
                             /\ ms = Titles(es)
  OBVIOUS
<1>4. /\ \A i \in DOMAIN es : IsMeasure(es[i].name)
      /\ ~FoldedTwice(rs)
      /\ q' = [q EXCEPT !.pc = "filters", !.measures = ms, !.columns = cols, !.folds = folds]
  <2>1. \/ q' = [q EXCEPT !.pc = "refused"]
        \/ /\ \A i \in DOMAIN es : IsMeasure(es[i].name)
           /\ ~FoldedTwice(rs)
           /\ q' = [q EXCEPT !.pc = "filters", !.measures = ms, !.columns = cols, !.folds = folds]
    BY <1>1, <1>3 DEF TakeMeasures, Refuse
  <2> QED BY <1>2, <2>1 DEF Fields
<1>5. q'.measures = ms /\ q'.columns = cols /\ q'.folds = folds
  BY <1>2, <1>4 DEF Fields
<1>6. cs \in Seq(Range(cs)) /\ \A e \in Range(cs) : EntryFits(e)
  BY <1>1, <1>2, AskedFit
<1>7. /\ es \in Seq(Range(es))
      /\ \A x : x \in Range(es) <=> \E e \in Range(cs) : x \in Range(SlotsOf(e))
      /\ \A x \in Range(es) : DOMAIN x = {"name", "fold", "expr"} /\ x.fold \in Implemented \cup {None}
  BY <1>1, <1>2, ExpandedAre
<1>8. \A x \in Range(es) : (Sql => \A y \in Range(es) : y.name = x.name => y = x) =>
          FoldIn(folds, x.name) = SumOr(x.fold)
  BY <1>1, <1>3, <1>4, <1>7, RecordedFolds
<1>9. ASSUME NEW n \in DOMAIN cols, cols[n] = None
      PROVE  \E e \in Range(cs) : /\ e.name = n /\ e.expr = None
                                  /\ OneName => FoldIn(folds, n) = SumOr(e.fold)
  <2>1. n \in Titles(cs) /\ cols[n] = LastOf(cs, n).expr
    BY <1>3, <1>9
  <2>2. PICK e \in Range(cs) : e = LastOf(cs, n) /\ e.name = n
    BY <1>6, <2>1, TitlesAre
  <2>3. e.expr = None
    BY <1>9, <2>1, <2>2
  <2>4. e \in Range(es)
    <3>1. SlotsOf(e) = <<e>> /\ Range(<<e>>) = {e}
      BY <2>3, OneIs DEF SlotsOf
    <3> QED BY <1>7, <3>1
  <2>5. ASSUME OneName, Sql, NEW y \in Range(es), y.name = e.name PROVE y = e
    <3>1. PICK f \in Range(cs) : y \in Range(SlotsOf(f))
      BY <1>7
    <3>2. f.expr = None
      BY <1>6, <2>5 DEF EntryFits, Sql
    <3>3. SlotsOf(f) = <<f>> /\ Range(<<f>>) = {f}
      BY <3>2, OneIs DEF SlotsOf
    <3>4. y \in Range(cs)
      BY <3>1, <3>3
    <3> QED BY <1>1, <2>5, <3>4 DEF OneName
  <2>6. OneName => FoldIn(folds, n) = SumOr(e.fold)
    BY <1>8, <2>2, <2>4, <2>5
  <2> QED BY <2>2, <2>3, <2>6
<1>10. ASSUME NEW n \in DOMAIN cols, cols[n] # None, NEW s \in Range(Slots[cols[n]])
       PROVE  FoldIn(folds, s.name) = s.fold
  <2>1. n \in Titles(cs) /\ cols[n] = LastOf(cs, n).expr
    BY <1>3, <1>10
  <2>2. PICK e \in Range(cs) : e = LastOf(cs, n) /\ e.name = n
    BY <1>6, <2>1, TitlesAre
  <2>3. /\ e.expr = cols[n] /\ e.expr # None /\ ~Sql /\ e.expr \in DOMAIN Formulas
    BY <1>6, <1>10, <2>1, <2>2 DEF EntryFits, Sql
  <2>4. s \in Range(es)
    BY <1>7, <1>10, <2>3 DEF SlotsOf
  <2>5. s.fold # None
    <3>1. Slots[e.expr] \in Seq(SlotRecords)
      BY <2>3, SlotsIs DEF SlotsFit
    <3>2. s \in SlotRecords
      BY <1>10, <2>3, <3>1, SeqIs
    <3>3. s.fold \in Implemented
      BY <3>2 DEF SlotRecords, SlotOf, Aggregates, Implemented
    <3> QED BY <3>3, NoneIsNoFold
  <2> QED BY <1>8, <2>3, <2>4, <2>5 DEF SumOr
<1>11. ASSUME NEW e \in Range(cs) PROVE e.name \in DOMAIN cols
  BY <1>3, <1>6, TitlesAre
<1>12. ASSUME cube.measureAxis = 0, NEW m \in ms PROVE m = Value
  <2>1. PICK i \in DOMAIN es : m = es[i].name
    BY <1>3, <1>12 DEF Titles
  <2> QED BY <1>4, <1>12, <2>1 DEF IsMeasure
<1> QED BY <1>1, <1>5, <1>9, <1>10, <1>11, <1>12

LEMMA FoldsMeanStep ==
  ASSUME OrdersGrow, LeavesKnown, RequestStands, FoldsMean, [Next]_vars, OrdersGrow'
  PROVE  FoldsMean'
<1>1. CASE \E r \in Requests : Ask(r)
  BY <1>1, AskedNow DEF FoldsMean, Built, Running
<1>2. CASE ~\E r \in Requests : Ask(r)
  <2> SUFFICES ASSUME q'.pc \in Built
               PROVE  /\ \A n \in DOMAIN q'.columns :
                             IF q'.columns[n] = None
                               THEN \E e \in Range(Asked') : /\ e.name = n /\ e.expr = None
                                                             /\ OneName' => FoldOf(n)' = SumOr(e.fold)
                               ELSE \A s \in Range(Slots[q'.columns[n]]) : FoldOf(s.name)' = s.fold
                      /\ \A e \in Range(q'.request.measures) :
                             IF IsAll(e)' THEN Range(q'.asked[cube'.measureAxis]) \subseteq DOMAIN q'.columns
                             ELSE e.name \in DOMAIN q'.columns
                      /\ cube'.measureAxis = 0 => q'.measures \subseteq {Value}
    BY DEF FoldsMean
  <2>1. /\ q'.request = q.request /\ q'.asked = q.asked /\ cube' = cube
        /\ q'.pc \in Running /\ q.pc \in Running
    BY <1>2, Writers DEF OrdersGrow, Written, Led, Built
  <2>2. IsList(q.request.measures)
    BY <2>1 DEF RequestStands, IsRequest
  <2>3. Range(Asked) \subseteq Range(Asked')
    BY <2>1, <2>2, AskedStays
  <2>4. OneName' => OneName
    BY <2>3 DEF OneName
  <2>5. \A m : FoldOf(m)' = FoldIn(q'.folds, m)
    BY DEF FoldOf, FoldIn
  <2>6. \A e : IsAll(e)' <=> IsAll(e)
    BY <2>1 DEF IsAll, Sql
  <2>7. CASE TakeMeasures
    <3>1. q'.pc # "refused"
      BY DEF Built, Running
    <3>2. /\ \A n \in DOMAIN q'.columns :
                 IF q'.columns[n] = None
                   THEN \E e \in Range(Asked) : /\ e.name = n /\ e.expr = None
                                                /\ OneName => FoldIn(q'.folds, n) = SumOr(e.fold)
                   ELSE \A s \in Range(Slots[q'.columns[n]]) : FoldIn(q'.folds, s.name) = s.fold
          /\ \A e \in Range(Asked) : e.name \in DOMAIN q'.columns
          /\ cube.measureAxis = 0 => q'.measures \subseteq {Value}
      BY <2>7, <3>1, FoldsTaken
    <3>3. ASSUME NEW e \in Range(q.request.measures)
          PROVE  IF IsAll(e) THEN Range(q.asked[cube.measureAxis]) \subseteq DOMAIN q'.columns
                 ELSE e.name \in DOMAIN q'.columns
      <4>1. \A x \in Range(ColumnsOf(e)) : x.name \in DOMAIN q'.columns
        BY <2>2, <3>2, AskedAre
      <4>2. CASE ~IsAll(e)
        BY <4>1, <4>2, ColumnsAre
      <4>3. CASE IsAll(e)
        <5>1. Range(q.asked[cube.measureAxis]) \subseteq Range(known[cube.measureAxis])
          BY <4>3, MeasureAxisIs, AskedAreKnown DEF IsAll
        <5>2. \A m \in Range(known[cube.measureAxis]) : [e EXCEPT !.name = m] \in Range(ColumnsOf(e))
          BY <4>3, ColumnsAre
        <5>3. \A m : [e EXCEPT !.name = m].name = m
          <6>1. DOMAIN e = {"name", "fold", "expr"}
            <7>1. e = [name |-> e.name, fold |-> e.fold, expr |-> e.expr]
              BY <2>1 DEF RequestStands, IsRequest
            <7> QED BY <7>1
          <6> QED BY <6>1
        <5> QED BY <4>1, <4>3, <5>1, <5>2, <5>3
      <4> QED BY <4>2, <4>3
    <3> QED BY <2>1, <2>3, <2>4, <2>5, <2>6, <3>2, <3>3
  <2>8. CASE ~TakeMeasures
    <3>1. q'.columns = q.columns /\ q'.folds = q.folds /\ q'.measures = q.measures /\ q.pc \in Built
      BY <1>2, <2>8, Writers DEF OrdersGrow, Written, Led
    <3>2. \A m : FoldOf(m)' = FoldOf(m)
      BY <3>1 DEF FoldOf
    <3>3. /\ \A n \in DOMAIN q.columns :
                 IF q.columns[n] = None
                   THEN \E e \in Range(Asked) : /\ e.name = n /\ e.expr = None
                                                /\ OneName => FoldOf(n) = SumOr(e.fold)
                   ELSE \A s \in Range(Slots[q.columns[n]]) : FoldOf(s.name) = s.fold
          /\ \A e \in Range(q.request.measures) :
                 IF IsAll(e) THEN Range(q.asked[cube.measureAxis]) \subseteq DOMAIN q.columns
                 ELSE e.name \in DOMAIN q.columns
          /\ cube.measureAxis = 0 => q.measures \subseteq {Value}
      BY <3>1 DEF FoldsMean
    <3> QED BY <2>1, <2>3, <2>4, <2>6, <3>1, <3>2, <3>3
  <2> QED BY <2>7, <2>8
<1> QED BY <1>1, <1>2
-------------------------------------------------------------------------------
(* What the values of a row mean, and which groups have one.               *)
MeasureMeans(v, key, m) == ValueMeans(v, FoldOf(m), Counted(key, m), q.snapshot, Scaled)

FormulaMeans(v, key, f) ==
    \E of : /\ \A m \in q.measures : MeasureMeans(of[m], key, m)
            /\ v = Amount(Evaluate(f, of))

ColumnMeans(v, key, n) ==
    IF q.columns[n] = None THEN MeasureMeans(v, key, n) ELSE FormulaMeans(v, key, q.columns[n])

Joined(key, a) ==
    IF <<KeyOf(key), a>> \in DOMAIN q.joined THEN q.joined[<<KeyOf(key), a>>] ELSE None

RowMeans(row) ==
    /\ q.pc = "fold" => \A m \in Outputs : MeasureMeans(row.values[m], row.key, m)
    /\ q.pc = "join" => \A n \in DOMAIN q.columns : ColumnMeans(row.values[n], row.key, n)
    /\ q.pc \in {"page", "done"} =>
           /\ \A n \in DOMAIN q.columns \ Wanted : ColumnMeans(row.values[n], row.key, n)
           /\ \A a \in Wanted : row.values[a] = Joined(row.key, a)

RowsMean == \A i \in DOMAIN q.rows : RowMeans(q.rows[i])

KeysMatched ==
    q.pc \in {"page", "done"} =>
        \A k : (\E i \in DOMAIN q.rows : q.rows[i].key = k) <=> SeenAt(k) /\ Matched(k)

LEMMA MeansStay ==
  ASSUME OrdersGrow, Steady, q'.left = q.left
  PROVE  /\ \A v, key, m : MeasureMeans(v, key, m)' <=> MeasureMeans(v, key, m)
         /\ \A v, key, n : ColumnMeans(v, key, n)' <=> ColumnMeans(v, key, n)
         /\ \A k : SeenAt(k)' <=> SeenAt(k)
         /\ \A key : KeyOf(key)' = KeyOf(key)
         /\ q'.joined = q.joined => /\ \A key, a : Joined(key, a)' = Joined(key, a)
                                    /\ \A key : Matched(key)' <=> Matched(key)
         /\ Outputs' = Outputs /\ Measured' = Measured /\ Wanted' = Wanted /\ q'.columns = q.columns
<1>1. /\ Scaled' = Scaled /\ q'.snapshot = q.snapshot
      /\ \A m : FoldOf(m)' = FoldOf(m)
      /\ \A key, m : Counted(key, m)' = Counted(key, m)
      /\ \A k : SeenAt(k)' <=> SeenAt(k)
  BY SameSeen
<1>2. /\ q'.measures = q.measures /\ q'.columns = q.columns /\ q'.request = q.request
      /\ q'.asked = q.asked /\ cube' = cube /\ Written
  BY DEF Steady, Written
<1>3. \A v, key, m : MeasureMeans(v, key, m)' <=> MeasureMeans(v, key, m)
  BY <1>1 DEF MeasureMeans
<1>4. \A v, key, f : FormulaMeans(v, key, f)' <=> FormulaMeans(v, key, f)
  BY <1>2, <1>3 DEF FormulaMeans
<1>5. \A v, key, n : ColumnMeans(v, key, n)' <=> ColumnMeans(v, key, n)
  BY <1>2, <1>3, <1>4 DEF ColumnMeans
<1>6. /\ Outputs' = Outputs /\ Measured' = Measured /\ Wanted' = Wanted
  BY <1>2, OutputsStay DEF Steady
<1>7. \A key : KeyOf(key)' = KeyOf(key)
  <2>1. RowAxes' = RowAxes
    BY <1>1, <1>2, SameKeys
  <2> QED BY <2>1 DEF KeyOf
<1>8. ASSUME q'.joined = q.joined
      PROVE  /\ \A key, a : Joined(key, a)' = Joined(key, a)
             /\ \A key : Matched(key)' <=> Matched(key)
  BY <1>2, <1>6, <1>7, <1>8 DEF Joined, Matched
<1> QED BY <1>1, <1>2, <1>3, <1>5, <1>6, <1>7, <1>8

LEMMA RowIsMeant ==
  ASSUME CellsTyped, ScopeTyped, CellsFinite, FoldsTyped, GroupsTyped, GroupsMean,
         NEW key \in DOMAIN q.groups
  PROVE  \A m \in Outputs : MeasureMeans(Row(key).values[m], key, m)
<1>1. PICK v : v = [m \in Outputs |-> IF m \in DOMAIN q.groups[key]
                                        THEN Finish(q.groups[key][m], FoldOf(m)) ELSE None]
  OBVIOUS
<1>2. Row(key).values = v
  BY <1>1 DEF Row
<1>3. ASSUME NEW m \in Outputs PROVE MeasureMeans(v[m], key, m)
  <2>1. /\ m \in DOMAIN q.groups[key] <=> Counted(key, m) # {}
        /\ m \in DOMAIN q.groups[key] =>
               AccMeans(q.groups[key][m], FoldOf(m), Counted(key, m), q.snapshot, Scaled)
    BY DEF GroupsMean, GroupMeans
  <2>2. CASE m \in DOMAIN q.groups[key]
    <3>1. AccFits(q.groups[key][m], FoldOf(m)) /\ FoldOf(m) \in Implemented
      BY <2>2, FoldIsOne DEF GroupsTyped
    <3>2. Numbered(Counted(key, m), q.snapshot, Scaled)
      BY SeenIsNumbered
    <3>3. PICK acc : acc = q.groups[key][m]
      OBVIOUS
    <3>4. ValueMeans(Finish(acc, FoldOf(m)), FoldOf(m), Counted(key, m), q.snapshot, Scaled)
      BY <2>1, <2>2, <3>1, <3>2, <3>3, FinishMeans
    <3> QED BY <1>1, <2>2, <3>3, <3>4 DEF MeasureMeans
  <2>3. CASE m \notin DOMAIN q.groups[key]
    BY <1>1, <2>1, <2>3 DEF MeasureMeans, ValueMeans
  <2> QED BY <2>2, <2>3
<1> QED BY <1>2, <1>3

LEMMA EmitMeans ==
  ASSUME OrdersGrow, RowsInOrder, CellsTyped, ScopeTyped, CellsFinite, FoldsTyped, GroupsTyped,
         GroupsMean, RowsMean, Steady, NEW key \in DOMAIN q.groups, Emit(key)
  PROVE  RowsMean'
<1>1. /\ q.pc = "fold" /\ q'.pc = "fold" /\ q'.left = q.left
      /\ q'.rows = Append(q.rows, Row(key))
  BY EmitMoves DEF OrdersGrow, Moves, Fields
<1>2. PICK row : row = Row(key)
  OBVIOUS
<1>3. RowMeans(row)
  <2>1. row.key = key
    BY <1>2 DEF Row
  <2> QED BY <1>1, <1>2, <2>1, RowIsMeant DEF RowMeans
<1>4. ASSUME NEW i \in DOMAIN q'.rows PROVE RowMeans(q'.rows[i])
  <2>1. PICK S : S = Range(q.rows) \cup {row}
    OBVIOUS
  <2>2. q.rows \in Seq(S)
    BY <2>1, SeqMonotonic DEF RowsInOrder, IsList
  <2>3. q'.rows[i] = row \/ (i \in DOMAIN q.rows /\ q'.rows[i] = q.rows[i])
    BY <1>1, <1>2, <1>4, <2>1, <2>2, AppendProperties, SeqIs
  <2> QED BY <1>3, <2>3 DEF RowsMean
<1>5. ASSUME NEW r, RowMeans(r) PROVE RowMeans(r)'
  BY <1>1, <1>5, MeansStay DEF RowMeans
<1>6. \A i \in DOMAIN q'.rows : \A r : r = q'.rows[i] => RowMeans(r)'
  BY <1>4, <1>5
<1> QED BY <1>6 DEF RowsMean, RowMeans

LEMMA CalculateMeans ==
  ASSUME OrdersGrow, RowsInOrder, ColumnsTyped, RowsMean, Steady, Calculate
  PROVE  RowsMean'
<1>1. /\ q.pc = "fold" /\ q'.pc \in {"join", "refused"} /\ q'.left = q.left
      /\ q'.pc = "refused" => q'.rows = q.rows
  BY CalculateMoves DEF OrdersGrow, Moves, Fields
<1>2. q.measures # {} => Outputs = q.measures
  BY DEF Outputs, Pivoted
<1>3. CASE q'.pc = "refused"
  BY <1>3 DEF RowsMean, RowMeans
<1>4. CASE q'.pc = "join"
  <2>1. \A i \in DOMAIN q'.rows :
            /\ i \in DOMAIN q.rows /\ q'.rows[i].key = q.rows[i].key
            /\ \/ q'.rows[i].values = q.rows[i].values /\ \A m \in DOMAIN q.columns : q.columns[m] = None
               \/ q'.rows[i].values = Columns(q.rows[i])
    <3>1. CASE q'.rows = q.rows /\ \A m \in DOMAIN q.columns : q.columns[m] = None
      BY <3>1
    <3>2. CASE q'.rows = [i \in DOMAIN q.rows |-> [q.rows[i] EXCEPT !.values = Columns(q.rows[i])]]
      <4>1. ASSUME NEW i \in DOMAIN q.rows, NEW row, row = q.rows[i]
            PROVE  q'.rows[i].key = row.key /\ q'.rows[i].values = Columns(row)
        <5>1. DOMAIN row = {"key", "values"}
          BY <4>1 DEF RowsInOrder
        <5>2. q'.rows[i] = [row EXCEPT !.values = Columns(row)]
          BY <3>2, <4>1
        <5> QED BY <5>1, <5>2
      <4> QED BY <3>2, <4>1
    <3> QED BY <1>4, <3>1, <3>2, CalculateMoves DEF OrdersGrow
  <2>2. ASSUME NEW i \in DOMAIN q'.rows, NEW new, new = q'.rows[i], NEW n \in DOMAIN q.columns
        PROVE  ColumnMeans(new.values[n], new.key, n)
    <3>1. PICK row : row = q.rows[i] /\ RowMeans(row)
      BY <2>1 DEF RowsMean
    <3>2. /\ new.key = row.key
          /\ \/ new.values = row.values /\ \A m \in DOMAIN q.columns : q.columns[m] = None
             \/ new.values = Columns(row)
      BY <2>1, <2>2, <3>1
    <3>3. \A m \in Outputs : MeasureMeans(row.values[m], row.key, m)
      BY <1>1, <3>1 DEF RowMeans
    <3>4. ColumnFits(n)
      BY DEF ColumnsTyped
    <3>5. CASE q.columns[n] = None
      <4>1. n \in Outputs
        BY <1>2, <3>4, <3>5 DEF ColumnFits
      <4>2. new.values[n] = row.values[n]
        BY <3>2, <3>5 DEF Columns
      <4> QED BY <3>2, <3>3, <3>5, <4>1, <4>2 DEF ColumnMeans
    <3>6. CASE q.columns[n] # None
      <4>1. new.values = Columns(row)
        BY <3>2, <3>6
      <4>2. new.values[n] = Amount(Evaluate(q.columns[n], row.values))
        BY <3>6, <4>1 DEF Columns
      <4>3. \A m \in q.measures : MeasureMeans(row.values[m], row.key, m)
        BY <1>2, <3>3
      <4> QED BY <3>2, <3>6, <4>2, <4>3 DEF ColumnMeans, FormulaMeans
    <3> QED BY <3>5, <3>6
  <2>3. \A i \in DOMAIN q'.rows : \A new : new = q'.rows[i] =>
            \A n \in DOMAIN q'.columns : ColumnMeans(new.values[n], new.key, n)'
    BY <1>1, <2>2, MeansStay
  <2> QED BY <1>4, <2>3 DEF RowsMean, RowMeans, ColumnMeans
<1> QED BY <1>1, <1>3, <1>4
LEMMA AttachMeans ==
  ASSUME NEW row, NEW j, DOMAIN row = {"key", "values"}
  PROVE  \A n \in j.attributes : Attach(row, j).values[n] = TagOf(KeyOf(row.key), n)
<1>1. PICK v : v = [a \in j.attributes \cup DOMAIN row.values |->
                       IF a \in j.attributes THEN TagOf(KeyOf(row.key), a) ELSE row.values[a]]
  OBVIOUS
<1>2. Attach(row, j) = [row EXCEPT !.values = v]
  BY <1>1 DEF Attach
<1> QED BY <1>1, <1>2

LEMMA TagIsJoined ==
  ASSUME CellsTyped, NEW key, NEW a
  PROVE  /\ TagOf(key, a) # None <=> <<key, a>> \in DOMAIN tags
         /\ TagOf(key, a) = IF <<key, a>> \in DOMAIN tags THEN tags[<<key, a>>] ELSE None
BY NoneIsNothing DEF TagOf, CellsTyped

LEMMA JoinMeans ==
  ASSUME OrdersGrow, RowsInOrder, CellsTyped, ColumnsTyped, RowsTyped, NothingIsLeft,
         KeysWhole, RowsMean, Steady, Join
  PROVE  (RowsMean /\ KeysMatched)'
<1>1. /\ q.pc = "join" /\ q'.pc \in {"page", "refused"} /\ q'.left = q.left /\ q'.request = q.request
      /\ q'.pc = "refused" => q'.rows = q.rows
      /\ q.groups = <<>> /\ DOMAIN <<>> = {}
  BY JoinMoves, NoneIs DEF OrdersGrow, Moves, Fields, NothingIsLeft
<1>2. CASE q'.pc = "refused"
  BY <1>2 DEF RowsMean, RowMeans, KeysMatched
<1>3. /\ \A v, key, n : ColumnMeans(v, key, n)' <=> ColumnMeans(v, key, n)
      /\ \A k : SeenAt(k)' <=> SeenAt(k)
      /\ \A key : KeyOf(key)' = KeyOf(key)
      /\ Wanted' = Wanted /\ q'.columns = q.columns
  BY <1>1, MeansStay
<1>4. \A k : SeenAt(k) <=> \E i \in DOMAIN q.rows : q.rows[i].key = k
  BY <1>1 DEF KeysWhole
<1>5. \A i \in DOMAIN q.rows : /\ DOMAIN q.rows[i] = {"key", "values"}
                               /\ \A n \in DOMAIN q.columns :
                                      ColumnMeans(q.rows[i].values[n], q.rows[i].key, n)
  BY <1>1 DEF RowsInOrder, RowsMean, RowMeans
<1>8. \A i \in DOMAIN q.rows : DOMAIN q.columns \subseteq DOMAIN q.rows[i].values
  <2>1. DOMAIN q.columns \subseteq Measured
    <3>1. \A n \in DOMAIN q.columns : q.columns[n] = None => n \in q.measures
      BY DEF ColumnsTyped, ColumnFits
    <3>2. q.measures # {} => Outputs = q.measures
      BY DEF Outputs, Pivoted
    <3> QED BY <3>1, <3>2 DEF Measured, Calculated
  <2> QED BY <1>1, <2>1 DEF RowsTyped, RowFits
<1>6. CASE q'.pc = "page" /\ q'.rows = q.rows /\ Wanted = {}
  <2>1. \A key : Matched(key)'
    BY <1>3, <1>6 DEF Matched
  <2>2. KeysMatched'
    BY <1>3, <1>4, <1>6, <2>1 DEF KeysMatched
  <2>3. \A i \in DOMAIN q'.rows : \A r : r = q'.rows[i] => RowMeans(r)'
    BY <1>3, <1>5, <1>6 DEF RowMeans
  <2> QED BY <2>2, <2>3 DEF RowsMean, RowMeans
<1>7. CASE q'.pc = "page" /\ ~(q'.rows = q.rows /\ Wanted = {})
  <2>1. /\ q.request.join # None /\ q'.joined = tags
        /\ \E kept : /\ kept = Only(q.rows, {i \in DOMAIN q.rows : Survives(q.rows[i], q.request.join)})
                     /\ q'.rows = [i \in DOMAIN kept |-> Attach(kept[i], q.request.join)]
        /\ q.request.join.attributes # {}
    <3>1. DOMAIN q = Fields
      BY DEF OrdersGrow
    <3> QED BY <1>7, <3>1, JoinMoves
  <2>2. PICK j, I : j = q.request.join /\ I = {i \in DOMAIN q.rows : Survives(q.rows[i], q.request.join)}
    OBVIOUS
  <2>3. PICK kept : /\ kept = Only(q.rows, I)
                    /\ q'.rows = [i \in DOMAIN kept |-> Attach(kept[i], j)]
    BY <2>1, <2>2
  <2>4. Wanted = j.attributes /\ Wanted # {}
    BY <2>1, <2>2 DEF Wanted
  <2>5. PICK f : /\ \A i \in DOMAIN kept : f[i] \in I /\ f[i] \in DOMAIN q.rows /\ kept[i] = q.rows[f[i]]
                 /\ \A k \in I : \E i \in DOMAIN kept : f[i] = k
    <3>1. q.rows \in Seq(Range(q.rows)) /\ DOMAIN q.rows = 1..Len(q.rows)
      BY SeqIs DEF RowsInOrder, IsList
    <3>2. kept \in Seq(Range(q.rows)) /\ \E f : Kept(kept, q.rows, I, Len(q.rows), f)
      BY <2>3, <3>1, OnlyIs
    <3>3. PICK f : Kept(kept, q.rows, I, Len(q.rows), f)
      BY <3>2
    <3>4. DOMAIN kept = 1..Len(kept)
      BY <3>2, SeqIs
    <3>5. I \subseteq 1..Len(q.rows)
      BY <2>2, <3>1
    <3>6. ASSUME NEW i \in DOMAIN kept
          PROVE  f[i] \in I /\ f[i] \in DOMAIN q.rows /\ kept[i] = q.rows[f[i]]
      BY <3>1, <3>3, <3>4 DEF Kept
    <3>7. ASSUME NEW k \in I PROVE \E i \in DOMAIN kept : f[i] = k
      BY <3>3, <3>4, <3>5 DEF Kept
    <3> QED BY <3>6, <3>7
  <2>6. ASSUME NEW key
        PROVE  /\ \A a : Joined(key, a)' = TagOf(KeyOf(key), a)
               /\ \A row : row.key = key => (Survives(row, j) <=> Matched(key)')
    <3>1. \A a : Joined(key, a)' = TagOf(KeyOf(key), a)
      <4>1. \A a : Joined(key, a)' = IF <<KeyOf(key), a>> \in DOMAIN tags THEN tags[<<KeyOf(key), a>>] ELSE None
        BY <1>3, <2>1 DEF Joined
      <4> QED BY <4>1 DEF TagOf
    <3>2. Matched(key)' <=> (j.mode = "inner" => \E a \in j.attributes : <<KeyOf(key), a>> \in DOMAIN tags)
      BY <1>1, <1>3, <2>1, <2>2, <2>4 DEF Matched
    <3>3. ASSUME NEW row, row.key = key
          PROVE  Survives(row, j) <=> (j.mode = "inner" => \E a \in j.attributes : <<KeyOf(key), a>> \in DOMAIN tags)
      <4>1. \A a : TagOf(KeyOf(key), a) # None <=> <<KeyOf(key), a>> \in DOMAIN tags
        BY TagIsJoined
      <4> QED BY <3>3, <4>1 DEF Survives
    <3> QED BY <3>1, <3>2, <3>3
  <2>7. ASSUME NEW i \in DOMAIN q'.rows, NEW new, new = q'.rows[i]
        PROVE  /\ new.key = q.rows[f[i]].key
               /\ \A n \in DOMAIN q.columns \ Wanted : ColumnMeans(new.values[n], new.key, n)
               /\ \A a \in Wanted : new.values[a] = Joined(new.key, a)'
    <3>1. PICK row : row = q.rows[f[i]] /\ new = Attach(row, j) /\ f[i] \in DOMAIN q.rows
      BY <2>3, <2>5, <2>7
    <3>2. DOMAIN row = {"key", "values"} /\ \A n \in DOMAIN q.columns : ColumnMeans(row.values[n], row.key, n)
      BY <1>5, <3>1
    <3>3. new.key = row.key /\ DOMAIN new.values = j.attributes \cup DOMAIN row.values
      BY <3>1, <3>2, AttachIs
    <3>4. ASSUME NEW n \in DOMAIN q.columns \ Wanted PROVE ColumnMeans(new.values[n], new.key, n)
      <4>1. n \in DOMAIN row.values
        BY <1>8, <3>1
      <4>2. \A x \in DOMAIN row.values \ j.attributes : Attach(row, j).values[x] = row.values[x]
        BY <3>2, AttachIs
      <4>3. new.values[n] = row.values[n]
        BY <2>4, <3>1, <3>4, <4>1, <4>2
      <4> QED BY <3>2, <3>3, <4>3
    <3>5. \A a \in Wanted : new.values[a] = TagOf(KeyOf(row.key), a)
      BY <2>4, <3>1, <3>2, AttachMeans
    <3> QED BY <2>6, <3>1, <3>3, <3>4, <3>5
  <2>8. RowsMean'
    <3>1. \A i \in DOMAIN q'.rows : \A r : r = q'.rows[i] => RowMeans(r)'
      BY <1>3, <1>7, <2>7 DEF RowMeans
    <3> QED BY <3>1 DEF RowsMean, RowMeans
  <2>9. KeysMatched'
    <3> SUFFICES ASSUME NEW k
                 PROVE  (\E i \in DOMAIN q'.rows : q'.rows[i].key = k) <=> SeenAt(k)' /\ Matched(k)'
      BY DEF KeysMatched
    <3>1. ASSUME NEW i \in DOMAIN q'.rows, q'.rows[i].key = k PROVE SeenAt(k)' /\ Matched(k)'
      <4>1. f[i] \in I /\ f[i] \in DOMAIN q.rows /\ q.rows[f[i]].key = k
        BY <2>3, <2>5, <2>7, <3>1
      <4>2. Survives(q.rows[f[i]], j)
        BY <2>2, <4>1
      <4> QED BY <1>3, <1>4, <2>6, <4>1, <4>2
    <3>2. ASSUME SeenAt(k)', Matched(k)' PROVE \E i \in DOMAIN q'.rows : q'.rows[i].key = k
      <4>1. PICK x \in DOMAIN q.rows : q.rows[x].key = k
        BY <1>3, <1>4, <3>2
      <4>2. x \in I
        BY <2>2, <2>6, <3>2, <4>1
      <4>3. PICK i \in DOMAIN kept : f[i] = x
        BY <2>5, <4>2
      <4>4. i \in DOMAIN q'.rows /\ q'.rows[i].key = q.rows[f[i]].key
        BY <2>3, <2>7, <4>3
      <4> QED BY <4>1, <4>3, <4>4
    <3> QED BY <3>1, <3>2
  <2> QED BY <2>8, <2>9
<1> QED BY <1>1, <1>2, <1>6, <1>7
LEMMA RowsMeanStep ==
  ASSUME OrdersGrow, RowsInOrder, AllTyped, NothingIsLeft, CellsFinite, GroupsMean, KeysWhole,
         RowsMean, KeysMatched, [Next]_vars
  PROVE  (RowsMean /\ KeysMatched)'
<1>0. /\ CellsTyped /\ ScopeTyped /\ FoldsTyped /\ GroupsTyped /\ ColumnsTyped /\ RowsTyped
      /\ DOMAIN q = Fields /\ DOMAIN <<>> = {}
  BY NoneIs DEF AllTyped, OrdersGrow
<1>1. ASSUME q'.rows = <<>>, q'.pc \notin {"page", "done"} PROVE (RowsMean /\ KeysMatched)'
  BY <1>0, <1>1 DEF RowsMean, KeysMatched
<1>2. CASE \E r \in Requests : Ask(r)
  BY <1>1, <1>2, AskedNow
<1>3. CASE ~(\E r \in Requests : Ask(r)) /\ q.pc \in Early
  <2>1. Written /\ Led
    BY <1>0, <1>3, Writers
  <2>2. q.rows = <<>> /\ ~Emitting /\ ~Calculate /\ ~Join /\ ~OrderAndLimit
    BY <1>3 DEF RowsInOrder, Emitting, Emit, Calculate, Join, OrderAndLimit, Early
  <2>3. q'.rows = <<>> /\ q'.pc \notin {"page", "done"}
    BY <1>3, <2>1, <2>2 DEF Written, Led, Early
  <2> QED BY <1>1, <2>3
<1>4. CASE ~(\E r \in Requests : Ask(r)) /\ q.pc \notin Early
  <2>1. Steady /\ Written /\ Led
    BY <1>4, FoldIsSteady, Writers DEF OrdersGrow
  <2>2. CASE Folding
    <3>1. PICK c \in q.left : Fold(c)
      BY <2>2 DEF Folding
    <3>2. q.rows = <<>>
      BY <3>1 DEF RowsInOrder
    <3>3. q'.rows = <<>> /\ q'.pc = "fold"
      BY <1>0, <3>1, <3>2, FoldMoves DEF Moves, Fields
    <3> QED BY <1>1, <3>3
  <2>3. CASE Emitting
    <3>1. PICK key \in DOMAIN q.groups : Emit(key)
      BY <2>3 DEF Emitting
    <3>2. q'.pc = "fold"
      BY <1>0, <3>1, EmitMoves
    <3>3. RowsMean'
      BY <1>0, <2>1, <3>1, EmitMeans
    <3> QED BY <3>2, <3>3 DEF KeysMatched
  <2>4. CASE Calculate
    <3>1. q'.pc \in {"join", "refused"}
      BY <1>0, <2>4, CalculateMoves
    <3>2. RowsMean'
      BY <1>0, <2>1, <2>4, CalculateMeans
    <3> QED BY <3>1, <3>2 DEF KeysMatched
  <2>5. CASE Join
    BY <1>0, <2>1, <2>5, JoinMeans
  <2>6. CASE ~Folding /\ ~Emitting /\ ~Calculate /\ ~Join
    <3>1. q'.rows = q.rows /\ q'.left = q.left /\ q'.joined = q.joined
      BY <2>1, <2>6 DEF Steady, Written
    <3>2. /\ q'.pc = "fold" => q.pc = "fold"
          /\ q'.pc = "join" => q.pc = "join"
          /\ q'.pc \in {"page", "done"} => q.pc \in {"page", "done"}
      BY <2>1, <2>6 DEF Led, Steady, OrderAndLimit
    <3>3. /\ \A v, key, m : MeasureMeans(v, key, m)' <=> MeasureMeans(v, key, m)
          /\ \A v, key, n : ColumnMeans(v, key, n)' <=> ColumnMeans(v, key, n)
          /\ \A k : SeenAt(k)' <=> SeenAt(k)
          /\ \A key, a : Joined(key, a)' = Joined(key, a)
          /\ \A key : Matched(key)' <=> Matched(key)
          /\ Outputs' = Outputs /\ Wanted' = Wanted /\ q'.columns = q.columns
      BY <2>1, <3>1, MeansStay
    <3>4. KeysMatched'
      BY <3>1, <3>2, <3>3 DEF KeysMatched
    <3>5. ASSUME NEW row, RowMeans(row) PROVE RowMeans(row)'
      BY <3>2, <3>3, <3>5 DEF RowMeans
    <3>6. \A i \in DOMAIN q'.rows : RowMeans(q.rows[i])'
      BY <3>1, <3>5 DEF RowsMean
    <3> QED BY <3>1, <3>4, <3>6 DEF RowsMean, RowMeans
  <2> QED BY <2>2, <2>3, <2>4, <2>5, <2>6
<1> QED BY <1>2, <1>3, <1>4

-------------------------------------------------------------------------------
(* What an answer is made of, from the request to its rows.                *)
Answering ==
    CellsFinite /\ GroupsMean /\ KeysWhole /\ FoldsMean /\ RowsMean /\ KeysMatched

LEMMA InitAnswering == Init => Answering
<1> SUFFICES ASSUME Init PROVE Answering
  OBVIOUS
<1>1. /\ q.pc = "idle" /\ q.groups = <<>> /\ q.rows = <<>> /\ q.snapshot = <<>>
      /\ cells \in Starts /\ DOMAIN <<>> = {}
  BY NoneIs DEF Init, Idle
<1>2. CellsFinite
  BY <1>1, CellsAreAtLeaves, FS_EmptySet DEF CellsFinite
<1> QED BY <1>1, <1>2 DEF Answering, GroupsMean, KeysWhole, FoldsMean, RowsMean, KeysMatched, Built, Running

LEMMA StepAnswering ==
  ASSUME OrdersGrow, RowsInOrder, NothingIsLeft, LeavesKnown, AllTyped, AllMeant, Answering,
         [Next]_vars, OrdersGrow'
  PROVE  Answering'
<1>1. /\ CellsFinite /\ GroupsMean /\ KeysWhole /\ FoldsMean /\ RowsMean /\ KeysMatched
      /\ RequestStands /\ CellsTyped /\ FoldsTyped /\ ScopeTyped /\ GroupsTyped
  BY DEF Answering, AllTyped
<1>2. CellsFinite'
  BY <1>1, FiniteStep
<1>3. GroupsMean'
  BY <1>1, GroupsMeanStep
<1>4. KeysWhole'
  BY <1>1, KeysStep
<1>5. FoldsMean'
  BY <1>1, FoldsMeanStep
<1>6. (RowsMean /\ KeysMatched)'
  BY <1>1, RowsMeanStep
<1> QED BY <1>2, <1>3, <1>4, <1>5, <1>6 DEF Answering
(* The meaning of a request, in the same terms.                            *)
LEMMA MeaningIs ==
  ASSUME OrdersGrow, LeavesKnown, AllTyped, AllMeant, CellsFinite, q.pc = "done", Plain,
         NEW key, NEW m, NEW C, C = Counted(key, m), C # {}, NEW fold \in Implemented \cup {None},
         fold = "COUNTD" \/ \A c \in C : q.snapshot[c] \notin Texts
  PROVE  MeaningOf(C, fold) = Denoted(SumOr(fold), C, q.snapshot, Scaled)
<1>1. IsFiniteSet(C) /\ Numbered(C, q.snapshot, Scaled)
  BY SeenIsNumbered DEF AllTyped
<1>2. {q.snapshot[c] : c \in C} = Worths1(C, q.snapshot)
  BY DEF Worths1
<1>3. CASE fold = "COUNTD"
  BY <1>2, <1>3, NoneIsNoFold DEF MeaningOf, Denoted, SumOr, Implemented
<1>4. CASE fold # "COUNTD"
  <2>1. \A c \in C : q.snapshot[c] \in Int /\ Scaled[c] \in Int /\ InScope(c) /\ c \in DOMAIN q.snapshot
    BY <1>1, <1>4 DEF Numbered, Counted
  <2>2. \A c \in C : Scaled[c] = WeightOf(c) * q.snapshot[c]
    BY <2>1, WeightsAgree DEF Scaled
  <2>3. MapThenSumSet(LAMBDA c : WeightOf(c) * q.snapshot[c], C) = SumOf(Scaled, C)
    <3>1. PICK v : v = Scaled
      OBVIOUS
    <3>2. \A c \in C : v[c] = WeightOf(c) * q.snapshot[c] /\ v[c] \in Int
      BY <2>1, <2>2, <3>1
    <3> QED BY <1>1, <3>1, <3>2, WeightedSumIs
  <2>4. MapThenSumSet(LAMBDA c : q.snapshot[c], C) = SumOf(q.snapshot, C)
    <3>1. PICK v : v = q.snapshot
      OBVIOUS
    <3>2. \A c \in C : v[c] = q.snapshot[c] /\ v[c] \in Int
      BY <2>1, <3>1
    <3> QED BY <1>1, <3>1, <3>2, RawSumIs
  <2>5. CASE fold \in {"SUM", None}
    <3>1. MeaningOf(C, fold) = <<MapThenSumSet(LAMBDA c : WeightOf(c) * q.snapshot[c], C), 1>>
      <4>1. fold \notin {"AVG", "COUNT", "COUNTD", "MIN", "MAX"}
        BY <2>5, NoneIsNoFold DEF Implemented
      <4> QED BY <2>5, <4>1, Zenon DEF MeaningOf
    <3>2. SumOr(fold) = "SUM"
      BY <2>5 DEF SumOr
    <3>3. Denoted("SUM", C, q.snapshot, Scaled) = <<SumOf(Scaled, C), 1>>
      BY DEF Denoted
    <3> QED BY <2>3, <3>1, <3>2, <3>3
  <2>6. CASE fold = "AVG"
    BY <2>4, <2>6, NoneIsNoFold DEF MeaningOf, Denoted, SumOr, Implemented
  <2>7. CASE fold \in {"COUNT", "MIN", "MAX"}
    BY <1>2, <2>7, NoneIsNoFold DEF MeaningOf, Denoted, SumOr, Implemented
  <2> QED BY <1>4, <2>5, <2>6, <2>7 DEF Implemented
<1> QED BY <1>3, <1>4

LEMMA MeasureIsMeant ==
  ASSUME OrdersGrow, LeavesKnown, NothingIsLeft, AllTyped, AllMeant, Answering, q.pc = "done", Plain,
         NEW key, NEW m \in q.measures, NEW v, MeasureMeans(v, key, m),
         NEW fold \in Implemented \cup {None}, FoldOf(m) = SumOr(fold),
         fold = "COUNTD" \/ \A c \in CellsOf(key, m) : q.snapshot[c] \notin Texts
  PROVE  v = MeaningOf(CellsOf(key, m), fold)
<1>1. PICK C : C = Counted(key, m)
  OBVIOUS
<1>2. CellsOf(key, m) = C
  <2>1. cube.measureAxis = 0 => m = Value
    BY DEF Answering, FoldsMean, Built, Running
  <2> QED BY <1>1, <2>1, CountedAreCells
<1>3. ValueMeans(v, SumOr(fold), C, q.snapshot, Scaled)
  BY <1>1 DEF MeasureMeans
<1>4. CASE C = {}
  BY <1>2, <1>3, <1>4 DEF ValueMeans, MeaningOf
<1>5. CASE C # {}
  <2>1. SumOr(fold) = "COUNTD" \/ \A c \in C : q.snapshot[c] \notin Texts
    BY <1>2, NoneIsNoFold DEF SumOr, Implemented
  <2>2. v = Denoted(SumOr(fold), C, q.snapshot, Scaled)
    BY <1>3, <1>5, <2>1 DEF ValueMeans
  <2>3. MeaningOf(C, fold) = Denoted(SumOr(fold), C, q.snapshot, Scaled)
    BY <1>1, <1>2, <1>5, MeaningIs DEF Answering
  <2> QED BY <1>2, <2>2, <2>3
<1> QED BY <1>4, <1>5

(* A measure that was asked for and was there has its column.              *)
LEMMA MeasureColumn ==
  ASSUME OrdersGrow, AllTyped, AllMeant, Answering, q.pc = "done", Plain,
         NEW e \in Range(Asked), e.expr = None, Own(e)
  PROVE  /\ e.name \in DOMAIN q.columns \ Wanted /\ q.columns[e.name] = None
         /\ e.name \in q.measures /\ FoldOf(e.name) = SumOr(e.fold)
<1>1. /\ RequestStands /\ ColumnsTyped /\ ColumnsMean /\ FoldsMean
      /\ q.pc \in Running /\ q.pc \in Built
  BY DEF AllTyped, AllMeant, Answering, Running, Built
<1>2. OneName
  BY DEF Plain, OneName
<1>3. e.name \in DOMAIN q.columns
  <2>1. IsList(q.request.measures)
    BY <1>1 DEF RequestStands, IsRequest
  <2>2. PICK f \in Range(q.request.measures) : e \in Range(ColumnsOf(f))
    BY <2>1, AskedAre
  <2>3. CASE ~IsAll(f)
    <3>1. e = f
      BY <2>2, <2>3, ColumnsAre
    <3> QED BY <1>1, <2>3, <3>1 DEF FoldsMean
  <2>4. CASE IsAll(f)
    <3>1. Range(q.asked[cube.measureAxis]) \subseteq DOMAIN q.columns
      BY <1>1, <2>4 DEF FoldsMean
    <3>2. cube.measureAxis # 0
      BY <2>4 DEF IsAll
    <3> QED BY <3>1, <3>2 DEF Own
  <2> QED BY <2>3, <2>4
<1>4. PICK x \in Range(Asked) : x.name = e.name /\ x.expr = q.columns[e.name]
  BY <1>1, <1>3 DEF ColumnsMean
<1>5. q.columns[e.name] = None
  BY <1>2, <1>4 DEF OneName
<1>6. PICK y \in Range(Asked) : y.name = e.name /\ FoldOf(e.name) = SumOr(y.fold)
  BY <1>1, <1>2, <1>3, <1>5 DEF FoldsMean
<1>7. y = e
  BY <1>2, <1>6 DEF OneName
<1>8. e.name \in q.measures
  BY <1>1, <1>3, <1>5 DEF ColumnsTyped, ColumnFits
<1> QED BY <1>3, <1>5, <1>6, <1>7, <1>8 DEF Own

LEMMA ValueIsMeant ==
  ASSUME OrdersGrow, LeavesKnown, NothingIsLeft, AllTyped, AllMeant, Answering, q.pc = "done", Plain,
         NEW row, RowMeans(row), NEW e \in Range(Asked), Own(e), Numeric(row.key, e)
  PROVE  row.values[e.name] = IF e.expr = None THEN MeaningOf(CellsOf(row.key, e.name), e.fold)
                              ELSE Amount(Evaluate(e.expr, Meanings(row.key, e)))
<1>0. /\ RequestStands /\ ColumnsTyped /\ ColumnsMean /\ FoldsMean /\ FoldsTyped
      /\ q.pc \in Running /\ q.pc \in Built
  BY DEF AllTyped, AllMeant, Answering, Running, Built
<1>1. EntryFits(e)
  BY <1>0, AskedFit
<1>2. \A n \in DOMAIN q.columns \ Wanted : ColumnMeans(row.values[n], row.key, n)
  BY DEF RowMeans
<1>3. CASE e.expr = None
  <2>1. /\ e.name \in DOMAIN q.columns \ Wanted /\ q.columns[e.name] = None
        /\ e.name \in q.measures /\ FoldOf(e.name) = SumOr(e.fold)
    BY <1>3, MeasureColumn
  <2>2. MeasureMeans(row.values[e.name], row.key, e.name)
    BY <1>2, <2>1 DEF ColumnMeans
  <2>3. e.fold \in Implemented \cup {None}
    BY <1>1, <1>3 DEF EntryFits, Folded
  <2>4. e.fold = "COUNTD" \/ \A c \in CellsOf(row.key, e.name) : q.snapshot[c] \notin Texts
    BY <1>3 DEF Numeric, Measures
  <2>5. row.values[e.name] = MeaningOf(CellsOf(row.key, e.name), e.fold)
    BY <2>1, <2>2, <2>3, <2>4, MeasureIsMeant
  <2> QED BY <1>3, <2>5
<1>4. CASE e.expr # None
  <2>1. PICK f \in DOMAIN Formulas : f = e.expr
    BY <1>1, <1>4 DEF EntryFits
  <2>2. e.name \in DOMAIN q.columns \ Wanted /\ q.columns[e.name] = f
    BY <1>4, <2>1, FormulaColumn DEF Own
  <2>3. FormulaMeans(row.values[e.name], row.key, f)
    BY <1>2, <1>4, <2>1, <2>2 DEF ColumnMeans
  <2>4. PICK of : /\ \A m \in q.measures : MeasureMeans(of[m], row.key, m)
                  /\ row.values[e.name] = Amount(Evaluate(f, of))
    BY <2>3 DEF FormulaMeans
  <2>5. /\ \A s \in Range(Slots[f]) : s.name \in q.measures
        /\ \A s \in Range(Slots[f]) : FoldOf(s.name) = s.fold
    BY <1>0, <1>4, <2>1, <2>2 DEF ColumnsTyped, ColumnFits, FoldsMean
  <2>6. \A s \in Range(Slots[f]) : \A c \in CellsOf(row.key, s.name) : q.snapshot[c] \notin Texts
    <3>1. e.fold # "COUNTD"
      BY <1>1, <1>4, NoneIsNoFold DEF EntryFits, Folded, Implemented
    <3>2. Measures(e) = {s.name : s \in Range(Slots[f])}
      BY <1>4, <2>1 DEF Measures
    <3> QED BY <3>1, <3>2 DEF Numeric
  <2>7. ASSUME NEW s \in Range(Slots[f]) PROVE of[s.name] = Meanings(row.key, e)[s.name]
    <3>1. PICK t : t = CHOOSE x \in Range(Slots[f]) : x.name = s.name
      OBVIOUS
    <3>2. t \in Range(Slots[f]) /\ t.name = s.name
      BY <3>1
    <3>3. FoldOf(s.name) = t.fold /\ t.fold \in Implemented /\ SumOr(t.fold) = t.fold
      <4>1. FoldOf(t.name) = t.fold
        BY <2>5, <3>2
      <4> QED BY <1>0, <3>2, <4>1, FoldIsOne, NoneIsNoFold DEF SumOr
    <3>4. of[s.name] = MeaningOf(CellsOf(row.key, s.name), t.fold)
      BY <2>4, <2>5, <2>6, <3>3, MeasureIsMeant
    <3>5. Meanings(row.key, e)[s.name] = MeaningOf(CellsOf(row.key, s.name), t.fold)
      <4>1. s.name \in Measures(e)
        BY <1>4, <2>1 DEF Measures
      <4>2. Meanings(row.key, e)[s.name] =
                MeaningOf(CellsOf(row.key, s.name), (CHOOSE x \in Range(Slots[f]) : x.name = s.name).fold)
        BY <2>1, <4>1 DEF Meanings
      <4> QED BY <3>1, <4>2
    <3> QED BY <3>4, <3>5
  <2>8. PICK ov : ov = Meanings(row.key, e)
    OBVIOUS
  <2>9. Evaluate(f, of) = Evaluate(f, ov)
    BY <2>7, <2>8, EvaluateAgrees
  <2> QED BY <1>4, <2>1, <2>4, <2>8, <2>9
<1> QED BY <1>3, <1>4

LEMMA KeysAreOnce ==
  ASSUME OrdersGrow, RowsInOrder, Sane, NEW i \in DOMAIN q.rows, NEW j \in DOMAIN q.rows,
         q.rows[i].key = q.rows[j].key
  PROVE  i = j
<1>1. q.rows \in Seq(Range(q.rows)) /\ DOMAIN q.rows = 1..Len(q.rows)
  BY SeqIs DEF RowsInOrder, IsList
<1>2. PICK k : k = q.rows[i].key /\ k \in Keys
  BY DEF RowsInOrder
<1>3. ~Follows(q.asked, KeyAxes, k, k)
  <2> SUFFICES ASSUME NEW s \in DOMAIN KeyAxes,
                      Place(q.asked[KeyAxes[s]], k[s]) < Place(q.asked[KeyAxes[s]], k[s])
               PROVE  FALSE
    BY DEF Follows
  <2>1. PICK c \in DOMAIN q.snapshot : k = At(c, KeyAxes)
    BY <1>2 DEF Keys
  <2>2. PICK a \in Axis : a = KeyAxes[s]
    BY KeyAxesAre, SeqIs
  <2>3. k[s] = c[a] /\ c[a] \in Range(q.asked[a])
    BY <2>1, <2>2 DEF At, Sane
  <2>4. /\ q.asked[a] \in Seq(Members) /\ known[a] \in Seq(Members)
        /\ Begins(q.asked[a], known[a]) /\ IsInjective(known[a])
    BY DEF OrdersGrow, Orders
  <2>5. Place(q.asked[a], k[s]) \in 1..Len(q.asked[a])
    BY <2>3, <2>4, PlaceIs
  <2>6. Place(q.asked[a], k[s]) \in Int
    BY <2>4, <2>5
  <2> QED BY <2>2, <2>6
<1>4. \A x, y \in DOMAIN q.rows : x < y => Follows(q.asked, KeyAxes, q.rows[x].key, q.rows[y].key)
  BY DEF RowsInOrder
<1>5. ~(i < j) /\ ~(j < i)
  BY <1>2, <1>3, <1>4
<1> QED BY <1>1, <1>5

LEMMA AnswerIsMeant ==
  ASSUME OrdersGrow, RowsInOrder, NothingIsLeft, LeavesKnown, AllTyped, AllMeant, Answering
  PROVE  AnswersMeanTheirRequest
<1> SUFFICES ASSUME q.pc = "done", Plain
             PROVE  /\ {q.rows[i].key : i \in DOMAIN q.rows} = {k \in {At(c, RowAxes) : c \in Visible} : Matched(k)}
                    /\ \A i, j \in DOMAIN q.rows : q.rows[i].key = q.rows[j].key => i = j
                    /\ \A i \in DOMAIN q.rows :
                           /\ \A e \in Range(Asked) : Own(e) /\ Numeric(q.rows[i].key, e) =>
                                  q.rows[i].values[e.name] =
                                      (IF e.expr = None THEN MeaningOf(CellsOf(q.rows[i].key, e.name), e.fold)
                                       ELSE Amount(Evaluate(e.expr, Meanings(q.rows[i].key, e))))
                           /\ \A a \in Wanted : q.rows[i].values[a] =
                                  IF <<KeyOf(q.rows[i].key), a>> \in DOMAIN q.joined
                                    THEN q.joined[<<KeyOf(q.rows[i].key), a>>] ELSE None
  BY DEF AnswersMeanTheirRequest
<1>1. RowAxes = KeyAxes /\ Seen = Visible /\ Sane
  BY KeyAxesAre, SeenIsVisible DEF Plain, Sane
<1>2. {q.rows[i].key : i \in DOMAIN q.rows} = {k \in {At(c, RowAxes) : c \in Visible} : Matched(k)}
  <2>1. \A k : (\E i \in DOMAIN q.rows : q.rows[i].key = k) <=> SeenAt(k) /\ Matched(k)
    BY DEF Answering, KeysMatched
  <2>2. \A k : SeenAt(k) <=> \E c \in Visible : At(c, RowAxes) = k
    BY <1>1 DEF SeenAt
  <2> QED BY <2>1, <2>2
<1>3. \A i, j \in DOMAIN q.rows : q.rows[i].key = q.rows[j].key => i = j
  BY <1>1, KeysAreOnce
<1>4. ASSUME NEW i \in DOMAIN q.rows
      PROVE  /\ \A e \in Range(Asked) : Own(e) /\ Numeric(q.rows[i].key, e) =>
                    q.rows[i].values[e.name] =
                        (IF e.expr = None THEN MeaningOf(CellsOf(q.rows[i].key, e.name), e.fold)
                         ELSE Amount(Evaluate(e.expr, Meanings(q.rows[i].key, e))))
             /\ \A a \in Wanted : q.rows[i].values[a] =
                    IF <<KeyOf(q.rows[i].key), a>> \in DOMAIN q.joined
                      THEN q.joined[<<KeyOf(q.rows[i].key), a>>] ELSE None
  <2>1. PICK row : row = q.rows[i] /\ RowMeans(row)
    BY DEF Answering, RowsMean
  <2>2. \A e \in Range(Asked) : Own(e) /\ Numeric(row.key, e) =>
            row.values[e.name] = (IF e.expr = None THEN MeaningOf(CellsOf(row.key, e.name), e.fold)
                                  ELSE Amount(Evaluate(e.expr, Meanings(row.key, e))))
    BY <2>1, ValueIsMeant
  <2>3. \A a \in Wanted : row.values[a] = Joined(row.key, a)
    BY <2>1 DEF RowMeans
  <2> QED BY <2>1, <2>2, <2>3 DEF Joined
<1> QED BY <1>2, <1>3, <1>4

(* For every cube and every request with one meaning, whatever is written  *)
(* meanwhile, an answer has a row for every group with a visible cell,     *)
(* once, and in it every column has the value that the request denotes on  *)
(* the cells that were scanned.  An inner join leaves out the groups whose *)
(* key has none of the attributes asked for, and none if it asks for none  *)
(* (attribute_join.rs:173; :159 says otherwise).                           *)
THEOREM AnswersAreMeant == Spec => []AnswersMeanTheirRequest
<1> DEFINE IInv == /\ OrdersGrow /\ RowsInOrder /\ NothingIsLeft /\ LeavesKnown /\ AllTyped /\ AllMeant
                   /\ Answering
<1>1. Init => IInv
  BY InitOrders, InitTyped, InitAnswering DEF Init, Idle, NothingIsLeft
<1>2. IInv /\ [Next]_vars => IInv'
  BY StepOrders, StepRows, StepLeft, StepTyped, StepAnswering
<1>3. IInv => AnswersMeanTheirRequest
  BY AnswerIsMeant
<1> QED BY <1>1, <1>2, <1>3, PTL DEF Spec
===============================================================================
