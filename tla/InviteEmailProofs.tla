------------------------- MODULE InviteEmailProofs ------------------------
(***************************************************************************)
(* The e-mail of an invite, for every cap, every payload and every set of  *)
(* templates that fail.                                                    *)
(*                                                                         *)
(* Sanitizing a line is a concatenation over its bytes, and so is what a   *)
(* body says over its items: FlattenSeq, a recursive function.  What it    *)
(* computes is shown by the least counterexample, for the naturals are     *)
(* well-founded: no theorem that takes a predicate is needed.              *)
(***************************************************************************)
EXTENDS InviteEmail, TLAPS, WellFoundedInduction, SequenceTheorems

-----------------------------------------------------------------------------
(* Concatenations                                                          *)

(* A set of numbers that is not empty has a least element.                 *)
LEMMA Least ==
    ASSUME NEW S \in SUBSET Nat, S # {}
    PROVE  \E n \in S : \A m \in S : n <= m
<1> DEFINE R == OpToRel(<, Nat)
<1>1. IsWellFoundedOn(R, Nat)
  BY NatLessThanWellFounded
<1>2. \A a, b \in Nat : a < b => <<a, b>> \in R
  BY DEF OpToRel
<1> HIDE DEF R
<1>3. PICK n \in S : \A m \in S : <<m, n>> \notin R
  BY <1>1, WFMin
<1>4. \A m \in S : ~(m < n)
  BY <1>2, <1>3
<1> QED
  BY <1>4

(* So what holds of 0, and of n + 1 whenever it holds of n, holds of all:  *)
(* the form in which the proofs below use it.                              *)
LEMMA Induction ==
    ASSUME NEW T \in SUBSET Nat, 0 \in T, \A n \in T : n + 1 \in T
    PROVE  T = Nat
<1> SUFFICES ASSUME Nat \ T # {} PROVE FALSE
  OBVIOUS
<1>1. PICK n \in Nat \ T : \A m \in Nat \ T : n <= m
  BY Least
<1>2. n # 0 /\ n - 1 \in Nat /\ n - 1 \notin Nat \ T
  BY <1>1
<1> QED
  BY <1>1, <1>2

(* The function that FlattenSeq is defined by, for the first n of seqs.    *)
Flattens(f, seqs, n) ==
    f = [ i \in 1..n |-> IF i = 1 THEN seqs[i] ELSE f[i-1] \o seqs[i] ]

(* A turn of the recursion behind FlattenSeq.                              *)
LEMMA FlattenTurn ==
    ASSUME NEW f, NEW seqs, NEW n \in Nat, Flattens(f, seqs, n), NEW i \in 1..n
    PROVE  f[i] = IF i = 1 THEN seqs[i] ELSE f[i-1] \o seqs[i]
<1> DEFINE g == [ j \in 1..n |-> IF j = 1 THEN seqs[j] ELSE f[j-1] \o seqs[j] ]
<1>1. f = g
  BY DEF Flattens
<1>2. g[i] = IF i = 1 THEN seqs[i] ELSE f[i-1] \o seqs[i]
  OBVIOUS
<1> HIDE DEF g
<1> QED
  BY <1>1, <1>2

(* The recursion has a solution for every prefix of the sequence.          *)
LEMMA FlattenExists ==
    ASSUME NEW S, NEW seqs \in Seq(Seq(S))
    PROVE  \A n \in 0..Len(seqs) : \E f : Flattens(f, seqs, n) /\ f \in [1..n -> Seq(S)]
<1> DEFINE T == { n \in Nat : n <= Len(seqs) =>
                     \E f : Flattens(f, seqs, n) /\ f \in [1..n -> Seq(S)] }
<1>1. 0 \in T
  <2> DEFINE f == [ i \in 1..0 |-> <<>> ]
  <2>1. Flattens(f, seqs, 0) /\ f \in [1..0 -> Seq(S)]
    BY DEF Flattens
  <2> QED
    BY <2>1
<1>2. ASSUME NEW n \in T, n + 1 <= Len(seqs)
      PROVE  \E g : Flattens(g, seqs, n + 1) /\ g \in [1..(n+1) -> Seq(S)]
  <2>0. n \in Nat
    OBVIOUS
  <2>1. PICK f : Flattens(f, seqs, n) /\ f \in [1..n -> Seq(S)]
    BY <1>2, LenProperties
  <2> DEFINE g == [ i \in 1..(n+1) |->
                       IF i <= n THEN f[i] ELSE IF i = 1 THEN seqs[i] ELSE f[n] \o seqs[i] ]
  <2>2. g \in [1..(n+1) -> Seq(S)]
    BY <1>2, <2>1
  <2>3. ASSUME NEW i \in 1..(n+1)
        PROVE  g[i] = IF i = 1 THEN seqs[i] ELSE g[i-1] \o seqs[i]
    <3>1. CASE i <= n
      <4>1. f[i] = IF i = 1 THEN seqs[i] ELSE f[i-1] \o seqs[i]
        <5>1. i \in 1..n
          BY <2>0, <3>1
        <5>2. Flattens(f, seqs, n)
          BY <2>1
        <5> HIDE DEF g, T
        <5> QED
          BY <2>0, <5>1, <5>2, FlattenTurn
      <4> QED
        BY <1>2, <3>1, <4>1
    <3>2. CASE i = n + 1
      BY <1>2, <3>2
    <3> QED
      BY <1>2, <3>1, <3>2
  <2>4. Flattens(g, seqs, n + 1)
    BY <2>3 DEF Flattens
  <2> QED
    BY <2>2, <2>4
<1>3. \A n \in T : n + 1 \in T
  BY <1>2
<1> HIDE DEF T
<1>4. T = Nat
  BY <1>1, <1>3, Induction DEF T
<1>5. \A n \in Nat : n \in T
  BY <1>4
<1>6. \A n \in 0..Len(seqs) : n \in Nat /\ n <= Len(seqs)
  BY LenProperties
<1> QED
  BY <1>5, <1>6 DEF T

(* Two solutions agree where their sequences do.                           *)
LEMMA FlattenUnique ==
    ASSUME NEW S, NEW s \in Seq(Seq(S)), NEW t \in Seq(Seq(S)), NEW n \in Nat, NEW m \in Nat,
           \A i \in 1..n : s[i] = t[i], n <= m,
           NEW f, Flattens(f, s, n), NEW g, Flattens(g, t, m)
    PROVE  \A i \in 1..n : f[i] = g[i]
<1> DEFINE T == { k \in Nat : k \in 1..n => f[k] = g[k] }
<1>1. 0 \in T
  OBVIOUS
<1>2. ASSUME NEW k \in T, k + 1 \in 1..n
      PROVE  f[k+1] = g[k+1]
  <2>1. /\ f[k+1] = IF k + 1 = 1 THEN s[k+1] ELSE f[k] \o s[k+1]
        /\ g[k+1] = IF k + 1 = 1 THEN t[k+1] ELSE g[k] \o t[k+1]
    BY <1>2, FlattenTurn
  <2> QED
    BY <1>2, <2>1
<1>3. ASSUME NEW k \in T
      PROVE  k + 1 \in T
  <2>1. k + 1 \in Nat
    OBVIOUS
  <2>2. k + 1 \in 1..n => f[k+1] = g[k+1]
    BY <1>2
  <2> QED
    BY <2>1, <2>2
<1> HIDE DEF T
<1>4. T = Nat
  BY <1>1, <1>3, Induction DEF T
<1>5. \A k \in Nat : k \in T
  BY <1>4
<1>6. \A k \in 1..n : k \in Nat
  OBVIOUS
<1> QED
  BY <1>5, <1>6 DEF T

(* FlattenSeq concatenates.                                                *)
LEMMA FlattenProperties ==
    ASSUME NEW S, NEW seqs \in Seq(Seq(S))
    PROVE  /\ FlattenSeq(seqs) \in Seq(S)
           /\ seqs = <<>> => FlattenSeq(seqs) = <<>>
           /\ \A f : Len(seqs) > 0 /\ Flattens(f, seqs, Len(seqs)) =>
                 FlattenSeq(seqs) = f[Len(seqs)]
<1> DEFINE flatten == CHOOSE f : Flattens(f, seqs, Len(seqs))
<1>1. CASE Len(seqs) = 0
  BY <1>1 DEF FlattenSeq
<1>2. CASE Len(seqs) > 0
  <2>1. FlattenSeq(seqs) = flatten[Len(seqs)]
    BY <1>2 DEF FlattenSeq, Flattens
  <2>2. PICK f : Flattens(f, seqs, Len(seqs)) /\ f \in [1..Len(seqs) -> Seq(S)]
    BY FlattenExists
  <2>3. Flattens(flatten, seqs, Len(seqs))
    BY <2>2
  <2> HIDE DEF flatten
  <2>4. \A g : Flattens(g, seqs, Len(seqs)) => g[Len(seqs)] = flatten[Len(seqs)]
    BY <1>2, <2>3, FlattenUnique
  <2>5. Len(seqs) \in 1..Len(seqs) /\ seqs # <<>>
    BY <1>2, LenProperties
  <2>6. FlattenSeq(seqs) \in Seq(S)
    BY <2>1, <2>2, <2>4, <2>5
  <2> QED
    BY <2>1, <2>4, <2>5, <2>6
<1>3. Len(seqs) = 0 \/ Len(seqs) > 0
  BY LenProperties
<1> HIDE DEF flatten
<1> QED
  BY <1>1, <1>2, <1>3

(* FlattenSeq appends what is appended.                                    *)
LEMMA FlattenAppend ==
    ASSUME NEW S, NEW seqs \in Seq(Seq(S)), NEW x \in Seq(S)
    PROVE  FlattenSeq(Append(seqs, x)) = FlattenSeq(seqs) \o x
<1> DEFINE longer == Append(seqs, x)
           n == Len(seqs)
<1>1. /\ longer \in Seq(Seq(S)) /\ n \in Nat /\ Len(longer) = n + 1
      /\ longer[n+1] = x /\ \A i \in 1..n : longer[i] = seqs[i]
  BY AppendProperties, LenProperties
<1>2. PICK f : Flattens(f, seqs, n)
  BY <1>1, FlattenExists
<1>3. PICK g : Flattens(g, longer, n + 1) /\ g \in [1..(n+1) -> Seq(S)]
  <2> HIDE DEF longer
  <2>1. n + 1 \in 0..Len(longer)
    BY <1>1
  <2> QED
    BY <1>1, <2>1, FlattenExists
<1> HIDE DEF longer
<1>4. FlattenSeq(longer) = g[n+1]
  <2>1. Flattens(g, longer, Len(longer)) /\ Len(longer) > 0
    BY <1>1, <1>3
  <2>2. FlattenSeq(longer) = g[Len(longer)]
    BY <1>1, <2>1, FlattenProperties
  <2> QED
    BY <1>1, <2>2
<1>5. g[n+1] = IF n + 1 = 1 THEN x ELSE g[n] \o x
  <2> HIDE DEF n
  <2>1. n + 1 \in Nat /\ n + 1 \in 1..(n+1) /\ (n + 1) - 1 = n
    BY <1>1
  <2>2. g[n+1] = IF n + 1 = 1 THEN longer[n+1] ELSE g[(n+1)-1] \o longer[n+1]
    <3>1. \A k \in Nat : Flattens(g, longer, k) =>
             \A i \in 1..k : g[i] = IF i = 1 THEN longer[i] ELSE g[i-1] \o longer[i]
      BY FlattenTurn
    <3> QED
      BY ONLY <1>3, <2>1, <3>1
  <2> QED
    BY <1>1, <2>1, <2>2
<1>6. CASE n = 0
  <2>0. seqs = <<>>
    BY <1>6
  <2>1. FlattenSeq(seqs) = <<>>
    BY <2>0, FlattenProperties
  <2> QED
    BY <1>4, <1>5, <1>6, <2>1 DEF longer
<1>7. CASE n > 0
  <2>1. g[n] = f[n]
    <3> HIDE DEF n
    <3>1. \A i \in 1..n : seqs[i] = longer[i]
      BY <1>1
    <3>2. n \in 1..n /\ n <= n + 1
      BY <1>1, <1>7
    <3>3. n \in Nat /\ n + 1 \in Nat /\ longer \in Seq(Seq(S))
      BY <1>1
    <3>4. Flattens(f, seqs, n) /\ Flattens(g, longer, n + 1)
      BY <1>2, <1>3
    <3>5. \A i \in 1..n : f[i] = g[i]
      BY ONLY <3>1, <3>2, <3>3, <3>4, seqs \in Seq(Seq(S)), FlattenUnique
    <3> QED
      BY <3>2, <3>5
  <2>2. FlattenSeq(seqs) = f[n]
    BY <1>2, <1>7, FlattenProperties
  <2>3. g[n+1] = g[n] \o x
    BY <1>1, <1>5, <1>7
  <2> QED
    BY <1>4, <2>1, <2>2, <2>3 DEF longer
<1> HIDE DEF n
<1>8. n = 0 \/ n > 0
  BY <1>1
<1> QED
  BY <1>6, <1>7, <1>8 DEF longer

(* Concatenation is associative and stays among the sequences of a set.    *)
LEMMA Associates ==
    ASSUME NEW S
    PROVE  \A a, b, c \in Seq(S) :
              (a \o b) \o c = a \o (b \o c) /\ (a \o b) \o c \in Seq(S)
<1>1. ASSUME NEW a \in Seq(S), NEW b \in Seq(S), NEW c \in Seq(S)
      PROVE  (a \o b) \o c = a \o (b \o c)
  BY ConcatAssociative
<1>2. ASSUME NEW a \in Seq(S), NEW b \in Seq(S)
      PROVE  a \o b \in Seq(S)
  BY ConcatProperties
<1> QED
  BY <1>1, <1>2

(* To concatenate two sequences of sequences is to concatenate what each   *)
(* of them concatenates to.                                                *)
LEMMA FlattenConcat ==
    ASSUME NEW S, NEW s \in Seq(Seq(S)), NEW t \in Seq(Seq(S))
    PROVE  FlattenSeq(s \o t) = FlattenSeq(s) \o FlattenSeq(t)
<1> DEFINE Splits(u) == FlattenSeq(s \o u) = FlattenSeq(s) \o FlattenSeq(u)
           T == { n \in Nat : \A u \in Seq(Seq(S)) : Len(u) = n => Splits(u) }
<1>1. 0 \in T
  <2>1. ASSUME NEW u \in Seq(Seq(S)), Len(u) = 0
        PROVE  Splits(u)
    <3>1. u = <<>> /\ s \o u = s
      BY <2>1, ConcatEmptySeq
    <3>2. FlattenSeq(s) \in Seq(S) /\ FlattenSeq(u) = <<>>
      BY <3>1, FlattenProperties
    <3>3. FlattenSeq(s) \o <<>> = FlattenSeq(s)
      BY ONLY <3>2, ConcatEmptySeq
    <3> QED
      BY <3>1, <3>2, <3>3
  <2> QED
    BY <2>1
<1>2. ASSUME NEW n \in Nat, \A w \in Seq(Seq(S)) : Len(w) = n => Splits(w),
             NEW u \in Seq(Seq(S)), Len(u) = n + 1
      PROVE  Splits(u)
  <2>1. n \in Nat /\ u # <<>>
    BY <1>2
  <2>2. PICK v \in Seq(Seq(S)), x \in Seq(S) : u = Append(v, x)
    BY <2>1, SequenceEmptyOrAppend
  <2>3. Len(v) = n
    BY <1>2, <2>1, <2>2
  <2>4. Splits(v)
    BY <1>2, <2>3
  <2>5. s \o u = Append(s \o v, x) /\ s \o v \in Seq(Seq(S))
    BY <2>2
  <2>6. FlattenSeq(s \o u) = FlattenSeq(s \o v) \o x /\ FlattenSeq(u) = FlattenSeq(v) \o x
    BY <2>2, <2>5, FlattenAppend
  <2>7. FlattenSeq(s) \in Seq(S) /\ FlattenSeq(v) \in Seq(S)
    BY FlattenProperties
  <2>8. (FlattenSeq(s) \o FlattenSeq(v)) \o x = FlattenSeq(s) \o (FlattenSeq(v) \o x)
    <3> DEFINE a == FlattenSeq(s)
               b == FlattenSeq(v)
    <3>2. a \in Seq(S) /\ b \in Seq(S)
      BY <2>7
    <3> HIDE DEF a, b
    <3>3. (a \o b) \o x = a \o (b \o x)
      BY ONLY <3>2, x \in Seq(S), Associates
    <3> QED
      BY <3>3 DEF a, b
  <2> QED
    BY <2>4, <2>6, <2>8
<1>3. ASSUME NEW n \in T
      PROVE  n + 1 \in T
  <2>1. \A u \in Seq(Seq(S)) : Len(u) = n + 1 => Splits(u)
    BY <1>2, <1>3
  <2>2. n + 1 \in Nat
    BY <1>3
  <2> HIDE DEF Splits
  <2> QED
    BY <2>1, <2>2
<1> HIDE DEF T
<1>4. T = Nat
  BY <1>1, <1>3, Induction DEF T
<1>5. Len(t) \in T
  BY <1>4, LenProperties
<1> QED
  BY <1>5 DEF T

(* FlattenSeq of one sequence.                                             *)
LEMMA FlattenOne ==
    ASSUME NEW S, NEW x \in Seq(S)
    PROVE  FlattenSeq(<<x>>) = x
<1>1. <<>> \in Seq(Seq(S)) /\ Append(<<>>, x) = <<x>>
  OBVIOUS
<1>2. FlattenSeq(<<>>) = <<>>
  BY <1>1, FlattenProperties
<1>3. FlattenSeq(Append(<<>>, x)) = FlattenSeq(<<>>) \o x
  BY <1>1, FlattenAppend
<1> QED
  BY <1>1, <1>2, <1>3, ConcatEmptySeq

(* A function applied to each element of a sequence.                       *)
Each(g, s) == [ i \in DOMAIN s |-> g[s[i]] ]
Takes(g, S, T) == g \in [S -> T]

(* What Each returns.                                                      *)
LEMMA EachProperties ==
    ASSUME NEW S, NEW T, NEW g, Takes(g, S, T), NEW s \in Seq(S)
    PROVE  /\ Each(g, s) \in Seq(T) /\ Len(Each(g, s)) = Len(s)
           /\ \A i \in 1..Len(s) : Each(g, s)[i] = g[s[i]]
<1>1. \A i \in 1..Len(s) : g[s[i]] \in T
  BY ElementOfSeq DEF Takes
<1>2. Each(g, s) = [ i \in 1..Len(s) |-> g[s[i]] ]
  BY LenProperties DEF Each
<1> QED
  BY <1>1, <1>2

(* To map a concatenation is to concatenate the maps.                      *)
LEMMA EachConcat ==
    ASSUME NEW S, NEW T, NEW g, Takes(g, S, T), NEW s \in Seq(S), NEW t \in Seq(S)
    PROVE  Each(g, s \o t) = Each(g, s) \o Each(g, t)
<1>1. \A u \in Seq(S) : /\ Each(g, u) \in Seq(T) /\ Len(Each(g, u)) = Len(u)
                        /\ \A i \in 1..Len(u) : Each(g, u)[i] = g[u[i]]
  BY EachProperties
<1>2. /\ s \o t \in Seq(S) /\ Len(s \o t) = Len(s) + Len(t)
      /\ \A i \in 1..(Len(s) + Len(t)) :
            (s \o t)[i] = IF i <= Len(s) THEN s[i] ELSE t[i - Len(s)]
  BY ConcatProperties
<1> DEFINE a == Each(g, s)
           b == Each(g, t)
           c == Each(g, s \o t)
<1>3. /\ a \in Seq(T) /\ Len(a) = Len(s) /\ \A i \in 1..Len(s) : a[i] = g[s[i]]
      /\ b \in Seq(T) /\ Len(b) = Len(t) /\ \A i \in 1..Len(t) : b[i] = g[t[i]]
  BY <1>1
<1>4. /\ c \in Seq(T) /\ Len(c) = Len(s) + Len(t)
      /\ \A i \in 1..(Len(s) + Len(t)) : c[i] = g[(s \o t)[i]]
  <2>1. /\ Each(g, s \o t) \in Seq(T) /\ Len(Each(g, s \o t)) = Len(s \o t)
        /\ \A i \in 1..Len(s \o t) : Each(g, s \o t)[i] = g[(s \o t)[i]]
    BY ONLY <1>1, <1>2
  <2> QED
    BY <1>2, <2>1
<1> HIDE DEF a, b, c
<1>5. /\ a \o b \in Seq(T) /\ Len(a \o b) = Len(s) + Len(t)
      /\ \A i \in 1..(Len(s) + Len(t)) :
            (a \o b)[i] = IF i <= Len(s) THEN a[i] ELSE b[i - Len(s)]
  <2>1. a \in Seq(T) /\ b \in Seq(T)
    BY <1>3
  <2>2. /\ a \o b \in Seq(T) /\ Len(a \o b) = Len(a) + Len(b)
        /\ \A i \in 1..(Len(a) + Len(b)) :
              (a \o b)[i] = IF i <= Len(a) THEN a[i] ELSE b[i - Len(a)]
    BY ONLY <2>1, ConcatProperties
  <2> QED
    BY <1>3, <2>2
<1>6. ASSUME NEW i \in 1..(Len(s) + Len(t))
      PROVE  c[i] = (a \o b)[i]
  <2>1. i <= Len(s) => i \in 1..Len(s)
    BY LenProperties
  <2>2. ~(i <= Len(s)) => i - Len(s) \in 1..Len(t)
    BY LenProperties
  <2>3. c[i] = g[(s \o t)[i]]
    BY <1>4
  <2>4. CASE i <= Len(s)
    <3>1. (s \o t)[i] = s[i] /\ (a \o b)[i] = a[i]
      BY <1>2, <1>5, <2>4
    <3>2. a[i] = g[s[i]]
      BY <1>3, <2>1, <2>4
    <3> QED
      BY <2>3, <3>1, <3>2
  <2>5. CASE ~(i <= Len(s))
    <3>1. (s \o t)[i] = t[i - Len(s)] /\ (a \o b)[i] = b[i - Len(s)]
      BY <1>2, <1>5, <2>5
    <3>2. b[i - Len(s)] = g[t[i - Len(s)]]
      BY <1>3, <2>2, <2>5
    <3> QED
      BY <2>3, <3>1, <3>2
  <2> QED
    BY <2>4, <2>5
<1> QED
  BY <1>4, <1>5, <1>6, SeqEqual DEF a, b, c

(* A sequence of one element.                                              *)
LEMMA OneElement ==
    ASSUME NEW S, NEW s \in Seq(S), Len(s) = 1
    PROVE  s = << s[1] >>
<1>1. /\ s[1] \in S /\ << s[1] >> \in Seq(S) /\ Len(<< s[1] >>) = 1
      /\ << s[1] >>[1] = s[1]
  OBVIOUS
<1>2. \A i \in 1..1 : s[i] = << s[1] >>[i]
  BY <1>1
<1> QED
  BY <1>1, <1>2, SeqEqual

-----------------------------------------------------------------------------
(* Lines                                                                   *)

Clean == Byte \ {CR, LF, NUL}

(* The letters are clean bytes, and so are the bytes that stand for more.  *)
LEMMA Bytes ==
    /\ Letter \subseteq Clean /\ Clean \subseteq Byte
    /\ {SP, "<", "&lt;", "lead", "cont", "U+FFFD", "wording"} \subseteq Clean
BY EmailAssumption DEF Clean, Byte, Special, SP, CR, LF, NUL

(* Texts of letters, of clean bytes and of bytes.                          *)
LEMMA Texts ==
    /\ <<SP>> \in Seq(Byte) /\ <<"wording">> \in Seq(Byte) /\ <<>> \in Seq(Byte)
    /\ \A s \in Seq(Letter) : s \in Seq(Clean)
    /\ \A s \in Seq(Clean) : s \in Seq(Byte)
<1>1. SP \in Byte /\ "wording" \in Byte
  BY Bytes
<1>2. /\ \A s \in Seq(Letter) : s \in Seq(Clean)
      /\ \A s \in Seq(Clean) : s \in Seq(Byte)
  BY Bytes, SeqMonotonic
<1> QED
  BY <1>1, <1>2

Piece(b) == CASE b \in {CR, LF} -> <<SP>> [] b = NUL -> <<>> [] OTHER -> <<b>>
Pieces(s) == Each([ b \in Byte |-> Piece(b) ], s)

(* What a byte is replaced by is clean, and a clean byte stays.            *)
LEMMA PieceType ==
    ASSUME NEW b \in Byte
    PROVE  Piece(b) \in Seq(Clean) /\ (b \in Clean => Piece(b) = <<b>>)
<1>1. CASE b \in {CR, LF}
  <2>1. Piece(b) = <<SP>>
    BY <1>1 DEF Piece, CR, LF, NUL
  <2>2. SP \in Clean /\ b \notin Clean
    BY <1>1, Bytes DEF Clean
  <2> QED
    BY <2>1, <2>2
<1>2. CASE b = NUL
  <2>1. Piece(b) = <<>>
    BY <1>2 DEF Piece, CR, LF, NUL
  <2> QED
    BY <1>2, <2>1 DEF Clean
<1>3. CASE b \in Clean
  <2>1. Piece(b) = <<b>>
    BY <1>3 DEF Piece, Clean
  <2> QED
    BY <1>3, <2>1
<1> QED
  BY <1>1, <1>2, <1>3 DEF Clean

(* What each byte of a line is replaced by.                                *)
LEMMA PiecesType ==
    /\ Takes([ b \in Byte |-> Piece(b) ], Byte, Seq(Clean))
    /\ \A s \in Seq(Byte) : /\ Pieces(s) \in Seq(Seq(Clean)) /\ Len(Pieces(s)) = Len(s)
                            /\ \A i \in 1..Len(s) : Pieces(s)[i] = Piece(s[i])
<1> DEFINE g == [ b \in Byte |-> Piece(b) ]
<1>1. Takes(g, Byte, Seq(Clean)) /\ \A b \in Byte : g[b] = Piece(b)
  BY PieceType DEF Takes
<1> HIDE DEF g
<1>2. ASSUME NEW s \in Seq(Byte)
      PROVE  /\ Each(g, s) \in Seq(Seq(Clean)) /\ Len(Each(g, s)) = Len(s)
             /\ \A i \in 1..Len(s) : Each(g, s)[i] = Piece(s[i])
  BY <1>1, EachProperties, ElementOfSeq
<1> QED
  BY <1>1, <1>2 DEF Pieces, g

(* A line whose bytes are replaced is clean.                               *)
LEMMA ReplacedType ==
    ASSUME NEW s \in Seq(Byte)
    PROVE  Replaced(s) \in Seq(Clean) /\ Replaced(s) = FlattenSeq(Pieces(s))
<1>1. Pieces(s) = [ i \in DOMAIN s |-> Piece(s[i]) ]
  BY ElementOfSeq, LenProperties DEF Pieces, Each
<1>2. Replaced(s) = FlattenSeq(Pieces(s))
  BY <1>1 DEF Replaced, Piece
<1> QED
  BY <1>2, PiecesType, FlattenProperties

(* Replacing the bytes of a line replaces those of each part of it.        *)
LEMMA ReplacedConcat ==
    ASSUME NEW s \in Seq(Byte), NEW t \in Seq(Byte)
    PROVE  Replaced(s \o t) = Replaced(s) \o Replaced(t)
<1>1. s \o t \in Seq(Byte)
  BY ConcatProperties
<1>2. Pieces(s \o t) = Pieces(s) \o Pieces(t)
  <2> DEFINE g == [ b \in Byte |-> Piece(b) ]
  <2>1. Takes(g, Byte, Seq(Clean))
    BY PiecesType
  <2> HIDE DEF g
  <2>2. Each(g, s \o t) = Each(g, s) \o Each(g, t)
    BY <2>1, EachConcat
  <2> QED
    BY <2>2 DEF Pieces, g
<1>3. FlattenSeq(Pieces(s) \o Pieces(t)) = FlattenSeq(Pieces(s)) \o FlattenSeq(Pieces(t))
  BY PiecesType, FlattenConcat
<1> QED
  BY <1>1, <1>2, <1>3, ReplacedType

(* A line that has nothing to replace stays as it is.                      *)
LEMMA ReplacedClean ==
    ASSUME NEW s \in Seq(Clean)
    PROVE  Replaced(s) = s
<1> DEFINE T == { n \in Nat : \A t \in Seq(Clean) : Len(t) = n => Replaced(t) = t }
<1>0. \A t \in Seq(Clean) : t \in Seq(Byte)
  BY Bytes, SeqMonotonic
<1>1. 0 \in T
  <2>1. ASSUME NEW t \in Seq(Clean), Len(t) = 0
        PROVE  Replaced(t) = t
    <3>0. t = <<>> /\ t \in Seq(Byte)
      BY <1>0, <2>1
    <3>1. t = <<>> /\ Pieces(t) \in Seq(Seq(Clean)) /\ Len(Pieces(t)) = 0
      BY <2>1, <3>0, PiecesType
    <3>2. Pieces(t) = <<>>
      BY <3>1
    <3>3. FlattenSeq(Pieces(t)) = <<>>
      BY <3>1, <3>2, FlattenProperties
    <3> QED
      BY <1>0, <3>1, <3>3, ReplacedType
  <2> QED
    BY <2>1
<1>2. ASSUME NEW n \in Nat, \A w \in Seq(Clean) : Len(w) = n => Replaced(w) = w,
             NEW t \in Seq(Clean), Len(t) = n + 1
      PROVE  Replaced(t) = t
  <2>1. n \in Nat /\ t # <<>>
    BY <1>2
  <2>2. PICK v \in Seq(Clean), x \in Clean : t = Append(v, x)
    BY <2>1, SequenceEmptyOrAppend
  <2>3. t = v \o <<x>> /\ Len(v) = n /\ <<x>> \in Seq(Clean)
    BY <1>2, <2>1, <2>2
  <2>4. Replaced(v) = v
    BY <1>2, <2>3
  <2>5. Replaced(<<x>>) = <<x>>
    <3>0. x \in Clean /\ x \in Byte
      BY Bytes
    <3>1. x \in Byte /\ <<x>> \in Seq(Byte) /\ Piece(x) = <<x>>
      BY <3>0, PieceType
    <3>2. Pieces(<<x>>) = << <<x>> >>
      <4>1. Len(<<x>>) = 1 /\ <<x>>[1] = x
        OBVIOUS
      <4>2. /\ Pieces(<<x>>) \in Seq(Seq(Clean)) /\ Len(Pieces(<<x>>)) = 1
            /\ Pieces(<<x>>)[1] = <<x>>
        <5>1. /\ Pieces(<<x>>) \in Seq(Seq(Clean)) /\ Len(Pieces(<<x>>)) = Len(<<x>>)
              /\ \A i \in 1..Len(<<x>>) : Pieces(<<x>>)[i] = Piece(<<x>>[i])
          BY <3>1, PiecesType, Zenon
        <5>2. 1 \in 1..Len(<<x>>)
          BY <4>1
        <5>3. Pieces(<<x>>)[1] = Piece(x)
          BY <4>1, <5>1, <5>2
        <5> QED
          BY <3>1, <4>1, <5>1, <5>3
      <4> DEFINE p == Pieces(<<x>>)
                 y == <<x>>
      <4>3. p \in Seq(Seq(Clean)) /\ Len(p) = 1 /\ p[1] = y
        BY <4>2
      <4> HIDE DEF p, y
      <4>4. p = <<y>>
        BY <4>3, OneElement
      <4> QED
        BY <4>4 DEF p, y
    <3> QED
      BY <2>3, <3>1, <3>2, FlattenOne, ReplacedType
  <2>6. Replaced(v \o <<x>>) = Replaced(v) \o Replaced(<<x>>)
    BY <1>0, <2>3, ReplacedConcat
  <2> QED
    BY <2>3, <2>4, <2>5, <2>6
<1>3. ASSUME NEW n \in T
      PROVE  n + 1 \in T
  BY <1>2, <1>3
<1> HIDE DEF T
<1>4. T = Nat
  BY <1>1, <1>3, Induction DEF T
<1>5. Len(s) \in T
  BY <1>4, LenProperties
<1> QED
  BY <1>5 DEF T

(* The beginning of a sequence.                                            *)
LEMMA PrefixProperties ==
    ASSUME NEW S, NEW s \in Seq(S), NEW n \in Nat
    PROVE  /\ Prefix(s, n) \in Seq(S)
           /\ Len(Prefix(s, n)) = IF n < Len(s) THEN n ELSE Len(s)
           /\ \A i \in 1..Len(s) : i <= n => Prefix(s, n)[i] = s[i]
           /\ Len(s) <= n => Prefix(s, n) = s
<1> DEFINE m == IF n < Len(s) THEN n ELSE Len(s)
<1>1. m \in Nat /\ m <= Len(s) /\ Prefix(s, n) = SubSeq(s, 1, m)
  BY LenProperties DEF Prefix
<1>2. \A i \in 1..m : s[i] \in S
  <2> HIDE DEF m
  <2> QED
    BY <1>1, LenProperties, ElementOfSeq
<1>3. /\ SubSeq(s, 1, m) \in Seq(S) /\ Len(SubSeq(s, 1, m)) = m
      /\ \A i \in 1..m : SubSeq(s, 1, m)[i] = s[i]
  <2> HIDE DEF m
  <2> QED
    BY <1>1, <1>2, SubSeqProperties
<1>4. Len(s) <= n => SubSeq(s, 1, m) = s
  BY LenProperties, SubSeqFull
<1> QED
  BY <1>1, <1>3, <1>4, LenProperties

(* To cap a piece of a line before the line is capped makes no difference. *)
LEMMA PrefixInside ==
    ASSUME NEW S, NEW z \in Seq(S), NEW x \in Seq(S), NEW y \in Seq(S), NEW n \in Nat
    PROVE  Prefix((z \o Prefix(x, n)) \o y, n) = Prefix((z \o x) \o y, n)
<1>1. CASE Len(x) <= n
  BY <1>1, PrefixProperties
<1>2. CASE n < Len(x)
  <2> DEFINE u == (z \o Prefix(x, n)) \o y
             v == (z \o x) \o y
  <2>1. Prefix(x, n) \in Seq(S) /\ Len(Prefix(x, n)) = n
        /\ \A i \in 1..Len(x) : i <= n => Prefix(x, n)[i] = x[i]
    BY <1>2, PrefixProperties
  <2>2. /\ u \in Seq(S) /\ Len(u) = Len(z) + n + Len(y)
        /\ \A i \in 1..Len(u) : i <= Len(z) + n =>
              u[i] = IF i <= Len(z) THEN z[i] ELSE Prefix(x, n)[i - Len(z)]
    <3>1. /\ z \o Prefix(x, n) \in Seq(S) /\ Len(z \o Prefix(x, n)) = Len(z) + n
          /\ \A i \in 1..(Len(z) + n) : (z \o Prefix(x, n))[i] =
                IF i <= Len(z) THEN z[i] ELSE Prefix(x, n)[i - Len(z)]
      BY ONLY <2>1, z \in Seq(S), ConcatProperties
    <3> DEFINE w == z \o Prefix(x, n)
    <3> HIDE DEF w
    <3>2. /\ w \o y \in Seq(S) /\ Len(w \o y) = Len(z) + n + Len(y)
          /\ \A i \in 1..(Len(z) + n + Len(y)) : i <= Len(z) + n => (w \o y)[i] = w[i]
      BY <3>1, ConcatProperties, LenProperties DEF w
    <3>3. \A i \in 1..Len(w \o y) : i <= Len(z) + n => i \in 1..(Len(z) + n)
      BY <3>2, LenProperties
    <3> QED
      BY <3>1, <3>2, <3>3 DEF w
  <2>3. /\ v \in Seq(S) /\ Len(v) = Len(z) + Len(x) + Len(y)
        /\ \A i \in 1..Len(v) : i <= Len(z) + Len(x) =>
              v[i] = IF i <= Len(z) THEN z[i] ELSE x[i - Len(z)]
    BY ConcatProperties, LenProperties
  <2> HIDE DEF u, v
  <2>4. /\ Prefix(u, n) \in Seq(S) /\ Len(Prefix(u, n)) = n
        /\ Prefix(v, n) \in Seq(S) /\ Len(Prefix(v, n)) = n
    BY <1>2, <2>2, <2>3, PrefixProperties, LenProperties
  <2>5. ASSUME NEW i \in 1..n
        PROVE  Prefix(u, n)[i] = Prefix(v, n)[i]
    <3>1. i \in 1..Len(u) /\ i \in 1..Len(v) /\ i <= n
      BY <1>2, <2>2, <2>3, LenProperties
    <3>2. Prefix(u, n)[i] = u[i] /\ Prefix(v, n)[i] = v[i]
      BY <2>2, <2>3, <3>1, PrefixProperties
    <3>3. ~(i <= Len(z)) => i - Len(z) \in 1..Len(x) /\ i - Len(z) <= n
      BY <1>2, LenProperties
    <3>4. i <= Len(z) + n /\ i <= Len(z) + Len(x)
      BY <1>2, LenProperties
    <3> QED
      BY <2>1, <2>2, <2>3, <3>1, <3>2, <3>3, <3>4
  <2> QED
    BY <2>4, <2>5, SeqEqual DEF u, v
<1> QED
  BY <1>1, <1>2, LenProperties

(* A sanitized line is clean and bounded, and sanitizing it again leaves   *)
(* it as it is.                                                            *)
LEMMA Sanitized ==
    ASSUME NEW s \in Seq(Byte)
    PROVE  /\ sanitizeSingleLine(s) \in Seq(Clean)
           /\ sanitizeSingleLine(s) \in Seq(Byte)
           /\ Len(sanitizeSingleLine(s)) <= Cap
           /\ sanitizeSingleLine(sanitizeSingleLine(s)) = sanitizeSingleLine(s)
<1> DEFINE t == sanitizeSingleLine(s)
<1>1. t = Prefix(Replaced(s), Cap) /\ Replaced(s) \in Seq(Clean) /\ Cap \in Nat
  BY ReplacedType, EmailAssumption DEF sanitizeSingleLine
<1>2. t \in Seq(Clean) /\ Len(t) <= Cap
  BY <1>1, PrefixProperties, LenProperties
<1>3. sanitizeSingleLine(t) = Prefix(Replaced(t), Cap)
  BY DEF sanitizeSingleLine
<1> HIDE DEF t
<1>4. Replaced(t) = t /\ Prefix(t, Cap) = t
  BY <1>1, <1>2, ReplacedClean, PrefixProperties
<1>5. t \in Seq(Byte)
  BY <1>2, Bytes, SeqMonotonic
<1> QED
  BY <1>2, <1>3, <1>4, <1>5 DEF t

(* To sanitize a piece of a line before the line makes no difference.      *)
LEMMA SanitizedInside ==
    ASSUME NEW a \in Seq(Byte), NEW b \in Seq(Byte), NEW c \in Seq(Byte)
    PROVE  sanitizeSingleLine((a \o sanitizeSingleLine(b)) \o c) =
           sanitizeSingleLine((a \o b) \o c)
<1> DEFINE t == sanitizeSingleLine(b)
<1>1. t = Prefix(Replaced(b), Cap) /\ t \in Seq(Clean) /\ t \in Seq(Byte)
  BY Sanitized DEF sanitizeSingleLine
<1> HIDE DEF t
<1>2. Replaced((a \o t) \o c) = (Replaced(a) \o Prefix(Replaced(b), Cap)) \o Replaced(c)
  <2>1. a \o t \in Seq(Byte) /\ Replaced(a \o t) = Replaced(a) \o Replaced(t)
    BY <1>1, ReplacedConcat, ConcatProperties
  <2>2. Replaced((a \o t) \o c) = Replaced(a \o t) \o Replaced(c)
    BY <2>1, ReplacedConcat
  <2>3. Replaced(t) = t
    BY <1>1, ReplacedClean
  <2> QED
    BY <1>1, <2>1, <2>2, <2>3
<1>3. Replaced((a \o b) \o c) = (Replaced(a) \o Replaced(b)) \o Replaced(c)
  <2>1. a \o b \in Seq(Byte) /\ Replaced(a \o b) = Replaced(a) \o Replaced(b)
    BY ReplacedConcat, ConcatProperties
  <2> QED
    BY <2>1, ReplacedConcat
<1>4. Prefix((Replaced(a) \o Prefix(Replaced(b), Cap)) \o Replaced(c), Cap) =
      Prefix((Replaced(a) \o Replaced(b)) \o Replaced(c), Cap)
  <2>1. /\ Replaced(a) \in Seq(Clean) /\ Replaced(b) \in Seq(Clean)
        /\ Replaced(c) \in Seq(Clean) /\ Cap \in Nat
    BY ReplacedType, EmailAssumption
  <2> QED
    BY <2>1, PrefixInside
<1> QED
  BY <1>2, <1>3, <1>4 DEF t, sanitizeSingleLine

-----------------------------------------------------------------------------
(* What the templates are filled in with                                   *)

Data ==
    [ RecipientFirstName : Seq(Byte), InviterFirstName : Seq(Byte),
      InviterFullName : Seq(Byte), ResourceName : Seq(Byte), ResourceType : Seq(Byte),
      ParentResourceName : Seq(Byte), Role : Seq(Byte), ReturnURL : Seq(Letter),
      OrgName : Seq(Byte), HasInviter : BOOLEAN, HasParentResource : BOOLEAN,
      RecipientHasAccount : BOOLEAN ]

(* A first name is the beginning of a name, cut at the first space.        *)
LEMMA FirstNameType ==
    ASSUME NEW s \in Seq(Byte)
    PROVE  firstName(s) \in Seq(Byte)
<1> DEFINE At(i) == i \in DOMAIN s /\ s[i] = SP /\ \A j \in 1..(i-1) : s[j] # SP
           idx == CHOOSE i \in DOMAIN s : s[i] = SP /\ \A j \in 1..(i-1) : s[j] # SP
<1>1. CASE Holds(s, {SP}) /\ s[1] # SP
  <2> DEFINE P == { i \in DOMAIN s : s[i] = SP }
  <2>1. P \in SUBSET Nat /\ P # {}
    BY <1>1, LenProperties DEF Holds
  <2>2. PICK n \in P : \A m \in P : n <= m
    BY <2>1, Least
  <2>3. n \in DOMAIN s /\ s[n] = SP /\ \A j \in 1..(n-1) : s[j] # SP
    BY <2>2, LenProperties
  <2>4. idx \in DOMAIN s
    BY <2>3
  <2>5. firstName(s) = Prefix(s, idx - 1)
    BY <1>1 DEF firstName
  <2> HIDE DEF idx
  <2>6. idx - 1 \in Nat
    BY <2>4, LenProperties
  <2> QED
    BY <2>5, <2>6, PrefixProperties
<1>2. CASE ~(Holds(s, {SP}) /\ s[1] # SP)
  BY <1>2 DEF firstName
<1> QED
  BY <1>1, <1>2

(* The data of the templates are texts, and its link is the payload's.     *)
LEMMA DataType ==
    ASSUME NEW p \in Payload
    PROVE  /\ buildTemplateData(p) \in Data
           /\ buildTemplateData(p).ReturnURL = p.InviteLink
<1>1. /\ p.RecipientName \in Seq(Byte) /\ p.InviterName \in Seq(Byte)
      /\ p.ResourceName \in Seq(Byte) /\ p.ResourceType \in Seq(Byte)
      /\ p.ParentResourceName \in Seq(Byte) /\ p.Role \in Seq(Byte)
      /\ p.OrgName \in Seq(Byte) /\ p.InviteLink \in Seq(Letter)
      /\ p.RecipientHasAccount \in BOOLEAN
  BY EmailAssumption
<1>2. firstName(p.RecipientName) \in Seq(Byte) /\ firstName(p.InviterName) \in Seq(Byte)
  BY <1>1, FirstNameType
<1>3. <<"wording">> \in Seq(Byte)
  BY Texts
<1> QED
  BY <1>1, <1>2, <1>3 DEF Data, buildTemplateData

(* What a template leaves out is empty.                                    *)
LEMMA WhenType ==
    ASSUME NEW S, NEW b \in BOOLEAN, NEW s \in Seq(S)
    PROVE  When(b, s) \in Seq(S)
BY DEF When

-----------------------------------------------------------------------------
(* The subject                                                             *)

(* The template and the fallback of the subject come to the same line.     *)
LEMMA SubjectLines ==
    ASSUME NEW d \in Data
    PROVE  /\ SubjectTemplate(d) \in Seq(Byte) /\ fallbackInviteSubject(d) \in Seq(Byte)
           /\ sanitizeSingleLine(fallbackInviteSubject(d)) =
              sanitizeSingleLine(SubjectTemplate(d))
<1> DEFINE h == d.HasInviter
           f == d.InviterFirstName
           r == d.ResourceName
           t == d.ResourceType
           suffix(u) == When(t # <<>>, <<SP>> \o u)
           start(u) == When(h, u \o <<SP>>) \o <<"wording">>
<1>1. /\ h \in BOOLEAN /\ f \in Seq(Byte) /\ r \in Seq(Byte) /\ t \in Seq(Byte)
      /\ <<SP>> \in Seq(Byte) /\ <<"wording">> \in Seq(Byte) /\ <<>> \in Seq(Byte)
  BY Texts DEF Data
<1>2. /\ SubjectTemplate(d) = (start(f) \o r) \o suffix(t)
      /\ fallbackInviteSubject(d) =
            sanitizeSingleLine((start(sanitizeSingleLine(f)) \o sanitizeSingleLine(r))
                                  \o suffix(sanitizeSingleLine(t)))
  BY DEF SubjectTemplate, fallbackInviteSubject, sanitizedResourceSuffix
<1> HIDE DEF h, f, r, t
<1>3. ASSUME NEW u \in Seq(Byte)
      PROVE  suffix(u) \in Seq(Byte) /\ start(u) \in Seq(Byte)
  <2>1. <<SP>> \o u \in Seq(Byte) /\ u \o <<SP>> \in Seq(Byte)
    BY <1>1, ConcatProperties
  <2>2. suffix(u) \in Seq(Byte) /\ When(h, u \o <<SP>>) \in Seq(Byte)
    BY <1>1, <2>1, WhenType
  <2> QED
    BY <1>1, <2>2, ConcatProperties
<1>4. /\ sanitizeSingleLine(f) \in Seq(Byte) /\ sanitizeSingleLine(r) \in Seq(Byte)
      /\ sanitizeSingleLine(t) \in Seq(Byte)
  BY <1>1, Sanitized
(* the resource type                                                       *)
<1>5. ASSUME NEW u \in Seq(Byte)
      PROVE  sanitizeSingleLine(u \o suffix(sanitizeSingleLine(t))) =
             sanitizeSingleLine(u \o suffix(t))
  <2>1. CASE t # <<>>
    <3>1. ASSUME NEW v \in Seq(Byte)
          PROVE  u \o suffix(v) = ((u \o <<SP>>) \o v) \o <<>>
      <4>1. suffix(v) = <<SP>> \o v
        BY <2>1 DEF When
      <4> HIDE DEF suffix
      <4>2. u \o (<<SP>> \o v) = (u \o <<SP>>) \o v /\ (u \o <<SP>>) \o v \in Seq(Byte)
        <5> DEFINE w == <<SP>>
        <5>1. w \in Seq(Byte)
          BY <1>1
        <5>2. \A a, b, c \in Seq(Byte) :
                 (a \o b) \o c = a \o (b \o c) /\ (a \o b) \o c \in Seq(Byte)
          BY Associates
        <5> HIDE DEF w
        <5>3. (u \o w) \o v = u \o (w \o v) /\ (u \o w) \o v \in Seq(Byte)
          BY ONLY <5>1, <5>2, u \in Seq(Byte), v \in Seq(Byte)
        <5> QED
          BY <5>3 DEF w
      <4>3. ((u \o <<SP>>) \o v) \o <<>> = (u \o <<SP>>) \o v
        BY <4>2, ConcatEmptySeq
      <4> QED
        BY <4>1, <4>2, <4>3
    <3>2. u \o <<SP>> \in Seq(Byte)
      BY <1>1, ConcatProperties
    <3> HIDE DEF suffix
    <3>3. sanitizeSingleLine(((u \o <<SP>>) \o sanitizeSingleLine(t)) \o <<>>) =
          sanitizeSingleLine(((u \o <<SP>>) \o t) \o <<>>)
      <4> DEFINE z == u \o <<SP>>
      <4>1. z \in Seq(Byte) /\ <<>> \in Seq(Byte) /\ t \in Seq(Byte)
        BY <1>1, <3>2
      <4> HIDE DEF z
      <4> QED
        BY ONLY <4>1, SanitizedInside DEF z
    <3> QED
      BY <1>1, <1>4, <3>1, <3>3
  <2>2. CASE t = <<>>
    BY <2>2 DEF When
  <2> QED
    BY <2>1, <2>2
(* the inviter                                                             *)
<1>6. ASSUME NEW u \in Seq(Byte)
      PROVE  sanitizeSingleLine(start(sanitizeSingleLine(f)) \o u) =
             sanitizeSingleLine(start(f) \o u)
  <2>1. CASE h
    <3>1. ASSUME NEW v \in Seq(Byte)
          PROVE  start(v) \o u = (<<>> \o v) \o ((<<SP>> \o <<"wording">>) \o u)
      <4>1. start(v) = (v \o <<SP>>) \o <<"wording">>
        BY <2>1 DEF When
      <4> HIDE DEF start
      <4> QED
        BY <1>1, <4>1
    <3>2. (<<SP>> \o <<"wording">>) \o u \in Seq(Byte)
      BY <1>1, ConcatProperties
    <3> HIDE DEF start
    <3>3. sanitizeSingleLine((<<>> \o sanitizeSingleLine(f)) \o ((<<SP>> \o <<"wording">>) \o u)) =
          sanitizeSingleLine((<<>> \o f) \o ((<<SP>> \o <<"wording">>) \o u))
      <4> DEFINE w == (<<SP>> \o <<"wording">>) \o u
      <4>1. w \in Seq(Byte) /\ <<>> \in Seq(Byte) /\ f \in Seq(Byte)
        BY <1>1, <3>2
      <4> HIDE DEF w
      <4> QED
        BY ONLY <4>1, SanitizedInside DEF w
    <3> QED
      BY <1>1, <1>4, <3>1, <3>3
  <2>2. CASE ~h
    BY <2>2 DEF When
  <2> QED
    BY <1>1, <2>1, <2>2
<1> HIDE DEF suffix, start
<1>7. sanitizeSingleLine((start(sanitizeSingleLine(f)) \o sanitizeSingleLine(r))
                            \o suffix(sanitizeSingleLine(t))) =
      sanitizeSingleLine((start(f) \o r) \o suffix(t))
  <2> DEFINE u == suffix(sanitizeSingleLine(t))
             z == start(sanitizeSingleLine(f))
  <2>1. /\ u \in Seq(Byte) /\ z \in Seq(Byte) /\ suffix(t) \in Seq(Byte)
        /\ start(f) \in Seq(Byte) /\ z \o r \in Seq(Byte) /\ r \o suffix(t) \in Seq(Byte)
    BY <1>1, <1>3, <1>4, ConcatProperties
  <2> HIDE DEF u, z
  <2>2. sanitizeSingleLine((z \o sanitizeSingleLine(r)) \o u) = sanitizeSingleLine((z \o r) \o u)
    BY <1>1, <2>1, SanitizedInside
  <2>3. sanitizeSingleLine((z \o r) \o u) = sanitizeSingleLine((z \o r) \o suffix(t))
    BY <1>5, <2>1 DEF u
  <2>4. /\ (z \o r) \o suffix(t) = z \o (r \o suffix(t))
        /\ (start(f) \o r) \o suffix(t) = start(f) \o (r \o suffix(t))
    <3> DEFINE w == suffix(t)
    <3>1. \A a, b, c \in Seq(Byte) : (a \o b) \o c = a \o (b \o c)
      BY Associates
    <3>2. w \in Seq(Byte) /\ r \in Seq(Byte) /\ z \in Seq(Byte) /\ start(f) \in Seq(Byte)
      BY <1>1, <2>1
    <3> HIDE DEF w
    <3>3. (z \o r) \o w = z \o (r \o w) /\ (start(f) \o r) \o w = start(f) \o (r \o w)
      BY <3>1, <3>2
    <3> QED
      BY <3>3 DEF w
  <2>5. sanitizeSingleLine(z \o (r \o suffix(t))) = sanitizeSingleLine(start(f) \o (r \o suffix(t)))
    BY <1>6, <2>1 DEF z
  <2> QED
    BY <2>2, <2>3, <2>4, <2>5 DEF u, z
<1>8. /\ (start(f) \o r) \o suffix(t) \in Seq(Byte)
      /\ (start(sanitizeSingleLine(f)) \o sanitizeSingleLine(r)) \o suffix(sanitizeSingleLine(t))
            \in Seq(Byte)
  BY <1>1, <1>3, <1>4, ConcatProperties
<1> QED
  BY <1>2, <1>7, <1>8, Sanitized

-----------------------------------------------------------------------------
(* What json.Marshal does to a text                                        *)

(* json.Marshal keeps the length of a text.                                *)
LEMMA MarshalledType ==
    ASSUME NEW S, "U+FFFD" \in S, NEW s \in Seq(S)
    PROVE  Marshalled(s) \in Seq(S) /\ Len(Marshalled(s)) = Len(s)
<1>1. Marshalled(s) =
         [ i \in 1..Len(s) |->
             IF \/ s[i] = "lead" /\ (i = Len(s) \/ s[i+1] # "cont")
                \/ s[i] = "cont" /\ (i = 1 \/ s[i-1] # "lead")
             THEN "U+FFFD" ELSE s[i] ]
  BY DEF Marshalled
<1> QED
  BY <1>1

(* No letter is special to HTML, to a line or to JSON.                     *)
LEMMA NoSpecial ==
    ASSUME NEW s \in Seq(Letter), NEW i \in DOMAIN s
    PROVE  s[i] \notin Special
<1>1. s[i] \in Letter
  BY LenProperties, ElementOfSeq
<1> QED
  BY <1>1, EmailAssumption

(* json.Marshal leaves letters alone.                                      *)
LEMMA MarshalledLetters ==
    ASSUME NEW s \in Seq(Letter)
    PROVE  Marshalled(s) = s
<1>1. \A i \in DOMAIN s : s[i] # "lead" /\ s[i] # "cont"
  BY NoSpecial DEF Special
<1>2. Marshalled(s) = [ i \in DOMAIN s |-> s[i] ]
  BY <1>1 DEF Marshalled
<1> QED
  BY <1>2

(* An escaped text has no "<", and is as long as before.                   *)
LEMMA EscapeType ==
    ASSUME NEW s \in Seq(Byte)
    PROVE  Escape(s) \in Seq(Byte \ {"<", NUL}) /\ Len(Escape(s)) = Len(s)
<1> DEFINE E == [ i \in 1..Len(s) |->
                   CASE s[i] = "<" -> "&lt;" [] s[i] = NUL -> "U+FFFD" [] OTHER -> s[i] ]
<1>1. Escape(s) = E
  BY LenProperties DEF Escape
<1>2. \A i \in 1..Len(s) : s[i] \in Byte
  BY ElementOfSeq
<1>3. {"&lt;", "U+FFFD"} \subseteq Byte \ {"<", NUL}
  BY Bytes DEF NUL
<1>4. \A i \in 1..Len(s) :
         (CASE s[i] = "<" -> "&lt;" [] s[i] = NUL -> "U+FFFD" [] OTHER -> s[i]) \in Byte \ {"<", NUL}
  BY <1>2, <1>3 DEF NUL
<1> HIDE DEF E
<1>5. E \in Seq(Byte \ {"<", NUL}) /\ Len(E) = Len(s)
  <2>1. E \in [ 1..Len(s) -> Byte \ {"<", NUL} ]
    BY <1>4 DEF E
  <2>2. Len(s) \in Nat
    BY LenProperties
  <2> QED
    BY <2>1, <2>2
<1> QED
  BY <1>1, <1>5 DEF E

(* Escaping leaves letters alone.                                          *)
LEMMA EscapeLetters ==
    ASSUME NEW s \in Seq(Letter)
    PROVE  Escape(s) = s
<1>1. \A i \in DOMAIN s : s[i] # "<" /\ s[i] # NUL
  BY NoSpecial DEF Special
<1>2. Escape(s) = [ i \in DOMAIN s |-> s[i] ]
  BY <1>1 DEF Escape
<1> QED
  BY <1>2

(* Escaping a text and marshalling it can be done in either order.         *)
LEMMA EscapeMarshalled ==
    ASSUME NEW s \in Seq(Byte)
    PROVE  Marshalled(Escape(s)) = Escape(Marshalled(s))
<1> DEFINE E == Escape(s)
           M == Marshalled(s)
<1>1. /\ DOMAIN E = DOMAIN s /\ DOMAIN M = DOMAIN s /\ Len(E) = Len(s) /\ DOMAIN s = 1..Len(s)
      /\ \A i \in DOMAIN s :
            /\ (E[i] = "lead" <=> s[i] = "lead") /\ (E[i] = "cont" <=> s[i] = "cont")
            /\ E[i] = CASE s[i] = "<" -> "&lt;" [] s[i] = NUL -> "U+FFFD" [] OTHER -> s[i]
  <2>1. DOMAIN E = DOMAIN s /\ DOMAIN M = DOMAIN s
    BY DEF Escape, Marshalled
  <2>2. Len(E) = Len(s) /\ DOMAIN s = 1..Len(s)
    BY EscapeType, LenProperties
  <2>3. \A i \in DOMAIN s :
           E[i] = CASE s[i] = "<" -> "&lt;" [] s[i] = NUL -> "U+FFFD" [] OTHER -> s[i]
    BY DEF Escape
  <2>4. \A i \in DOMAIN s :
           (E[i] = "lead" <=> s[i] = "lead") /\ (E[i] = "cont" <=> s[i] = "cont")
    <3> HIDE DEF E
    <3> QED
      BY <2>3 DEF NUL
  <2> QED
    BY <2>1, <2>2, <2>3, <2>4
<1> DEFINE Half(x, i) == \/ x[i] = "lead" /\ (i = Len(x) \/ x[i+1] # "cont")
                         \/ x[i] = "cont" /\ (i = 1 \/ x[i-1] # "lead")
<1>2. \A i \in DOMAIN s : M[i] = IF Half(s, i) THEN "U+FFFD" ELSE s[i]
  BY DEF Marshalled
<1>3. Marshalled(E) = [ i \in DOMAIN s |-> IF Half(E, i) THEN "U+FFFD" ELSE E[i] ]
  BY <1>1 DEF Marshalled
<1>4. Escape(M) = [ i \in DOMAIN s |->
         CASE M[i] = "<" -> "&lt;" [] M[i] = NUL -> "U+FFFD" [] OTHER -> M[i] ]
  BY <1>1 DEF Escape
<1> HIDE DEF E, M
<1>5. ASSUME NEW i \in DOMAIN s
      PROVE  (IF Half(E, i) THEN "U+FFFD" ELSE E[i]) =
             CASE M[i] = "<" -> "&lt;" [] M[i] = NUL -> "U+FFFD" [] OTHER -> M[i]
  <2>1. Half(E, i) <=> Half(s, i)
    <3>0. i \in 1..Len(s) /\ Len(s) \in Nat /\ DOMAIN s = 1..Len(s)
      BY <1>1, LenProperties
    <3>1. i # Len(s) => i + 1 \in DOMAIN s
      BY <3>0
    <3>2. i # 1 => i - 1 \in DOMAIN s
      BY <3>0
    <3> QED
      BY <1>1, <3>1, <3>2
  <2>2. CASE Half(s, i)
    <3> HIDE DEF Half
    <3> QED
      BY <1>2, <2>1, <2>2 DEF NUL
  <2>3. CASE ~Half(s, i)
    <3> HIDE DEF Half
    <3> QED
      BY <1>1, <1>2, <2>1, <2>3 DEF NUL
  <2> QED
    BY <2>2, <2>3
<1> HIDE DEF Half
<1> QED
  BY <1>3, <1>4, <1>5 DEF E, M

-----------------------------------------------------------------------------
(* Bodies                                                                  *)

Labels == {"title", "greeting", "inviter", "resource", "type", "parent", "role", "steps",
           "accept", "create account", "link", "team"}
Items == [ label : Labels, text : Seq(Byte) ]
Safe == Byte \ {"<", NUL}
SafeItems == [ label : Labels, text : Seq(Safe) ]

EscapeItem == [ x \in Items |-> [ x EXCEPT !.text = Escape(@) ] ]
MarshalItem == [ x \in Items |-> [ x EXCEPT !.text = Marshalled(@) ] ]

(* The two things done to the text of every item.                          *)
LEMMA OnItems ==
    /\ SafeItems \subseteq Items /\ "U+FFFD" \in Safe
    /\ Takes(EscapeItem, Items, Items) /\ Takes(EscapeItem, Items, SafeItems)
    /\ Takes(MarshalItem, Items, Items)
    /\ \A x \in Items : /\ EscapeItem[x] = [ x EXCEPT !.text = Escape(@) ]
                        /\ MarshalItem[x] = [ x EXCEPT !.text = Marshalled(@) ]
<1>1. Safe \subseteq Byte /\ "U+FFFD" \in Safe /\ "U+FFFD" \in Byte
  BY Bytes DEF Safe, NUL
<1>2. \A u \in Seq(Safe) : u \in Seq(Byte)
  BY <1>1, SeqMonotonic
<1>3. SafeItems \subseteq Items
  BY <1>2 DEF SafeItems, Items
<1>4. ASSUME NEW x \in Items
      PROVE  [ x EXCEPT !.text = Escape(@) ] \in SafeItems
  BY EscapeType DEF Items, SafeItems, Safe
<1>5. ASSUME NEW x \in Items
      PROVE  [ x EXCEPT !.text = Marshalled(@) ] \in Items
  BY <1>1, MarshalledType DEF Items
<1> QED
  BY <1>1, <1>3, <1>4, <1>5 DEF Takes, EscapeItem, MarshalItem

(* What escaping and marshalling return for a body.                        *)
LEMMA OnBodies ==
    ASSUME NEW b \in Seq(Items)
    PROVE  /\ Escaped(b) = Each(EscapeItem, b) /\ Escaped(b) \in Seq(Items)
           /\ Escaped(b) \in Seq(SafeItems) /\ Len(Escaped(b)) = Len(b)
           /\ MarshalledBody(b) = Each(MarshalItem, b) /\ MarshalledBody(b) \in Seq(Items)
           /\ Len(MarshalledBody(b)) = Len(b)
<1>1. \A i \in DOMAIN b : b[i] \in Items
  BY ElementOfSeq, LenProperties
<1>2. Escaped(b) = Each(EscapeItem, b)
  BY <1>1 DEF Escaped, Each, EscapeItem
<1>3. MarshalledBody(b) = Each(MarshalItem, b)
  BY <1>1 DEF MarshalledBody, Each, MarshalItem
<1>4. Each(EscapeItem, b) \in Seq(SafeItems) /\ Len(Each(EscapeItem, b)) = Len(b)
  BY OnItems, EachProperties
<1>5. Each(EscapeItem, b) \in Seq(Items)
  BY <1>4, OnItems, SeqMonotonic
<1>6. Each(MarshalItem, b) \in Seq(Items) /\ Len(Each(MarshalItem, b)) = Len(b)
  BY OnItems, EachProperties
<1> QED
  BY <1>2, <1>3, <1>4, <1>5, <1>6

(* An item can be escaped and marshalled in either order, and so can a     *)
(* body.                                                                   *)
LEMMA EscapeThenMarshal ==
    ASSUME NEW b \in Seq(Items)
    PROVE  MarshalledBody(Escaped(b)) = Escaped(MarshalledBody(b))
<1>1. ASSUME NEW x \in Items
      PROVE  [ [ x EXCEPT !.text = Escape(@) ] EXCEPT !.text = Marshalled(@) ] =
             [ [ x EXCEPT !.text = Marshalled(@) ] EXCEPT !.text = Escape(@) ]
  BY EscapeMarshalled DEF Items
<1>2. \A i \in DOMAIN b : b[i] \in Items
  BY ElementOfSeq, LenProperties
<1>3. /\ MarshalledBody(Escaped(b)) = [ i \in DOMAIN b |->
            [ [ b[i] EXCEPT !.text = Escape(@) ] EXCEPT !.text = Marshalled(@) ] ]
      /\ Escaped(MarshalledBody(b)) = [ i \in DOMAIN b |->
            [ [ b[i] EXCEPT !.text = Marshalled(@) ] EXCEPT !.text = Escape(@) ] ]
  BY DEF MarshalledBody, Escaped
<1> QED
  BY <1>1, <1>2, <1>3

Shown(x) == When(x.label \notin {"title", "link"}, <<x>>)
ShowItem == [ x \in Items |-> Shown(x) ]

(* What Says is made of, and that it returns a body.                       *)
LEMMA SaysProperties ==
    /\ Takes(ShowItem, Items, Seq(Items)) /\ \A x \in Items : ShowItem[x] = Shown(x)
    /\ \A b \in Seq(Items) : Says(b) = FlattenSeq(Each(ShowItem, b)) /\ Says(b) \in Seq(Items)
<1>1. Takes(ShowItem, Items, Seq(Items)) /\ \A x \in Items : ShowItem[x] = Shown(x)
  BY DEF Takes, ShowItem, Shown, When
<1>2. ASSUME NEW b \in Seq(Items)
      PROVE  Says(b) = FlattenSeq(Each(ShowItem, b)) /\ Says(b) \in Seq(Items)
  <2>1. \A i \in DOMAIN b : b[i] \in Items
    BY ElementOfSeq, LenProperties
  <2>2. Each(ShowItem, b) =
           [ i \in DOMAIN b |-> When(b[i].label \notin {"title", "link"}, <<b[i]>>) ]
    BY <1>1, <2>1 DEF Each, Shown
  <2>3. Each(ShowItem, b) \in Seq(Seq(Items))
    BY <1>1, EachProperties
  <2> QED
    BY <2>2, <2>3, FlattenProperties DEF Says
<1> QED
  BY <1>1, <1>2

(* A concatenation of bodies says what each of them says.                  *)
LEMMA SaysConcat ==
    ASSUME NEW b \in Seq(Items), NEW c \in Seq(Items)
    PROVE  Says(b \o c) = Says(b) \o Says(c)
<1>1. b \o c \in Seq(Items)
  BY ConcatProperties
<1>2. Each(ShowItem, b \o c) = Each(ShowItem, b) \o Each(ShowItem, c)
  <2>1. Takes(ShowItem, Items, Seq(Items))
    BY SaysProperties
  <2> QED
    BY <2>1, EachConcat
<1>3. Each(ShowItem, b) \in Seq(Seq(Items)) /\ Each(ShowItem, c) \in Seq(Seq(Items))
  BY SaysProperties, EachProperties
<1>4. FlattenSeq(Each(ShowItem, b) \o Each(ShowItem, c)) =
      FlattenSeq(Each(ShowItem, b)) \o FlattenSeq(Each(ShowItem, c))
  BY <1>3, FlattenConcat
<1> QED
  BY <1>1, <1>2, <1>4, SaysProperties

(* What a body of one item says.                                           *)
LEMMA SaysOne ==
    ASSUME NEW x \in Items
    PROVE  <<x>> \in Seq(Items) /\ Says(<<x>>) = Shown(x)
<1>1. <<x>> \in Seq(Items) /\ <<Shown(x)>> \in Seq(Seq(Items))
      /\ Each(ShowItem, <<x>>) = << Shown(x) >>
  BY SaysProperties DEF Each, Shown, When
<1>2. Shown(x) \in Seq(Items)
  BY DEF Shown, When
<1> QED
  BY <1>1, <1>2, SaysProperties, FlattenOne

(* To map a concatenation of bodies is to concatenate their maps.          *)
LEMMA EachOfItems ==
    ASSUME NEW g, Takes(g, Items, Items)
    PROVE  \A b, c \in Seq(Items) : Each(g, b \o c) = Each(g, b) \o Each(g, c)
  BY EachConcat

(* What is done to the text of every item is done to what the body says.   *)
LEMMA SaysEach ==
    ASSUME NEW g, Takes(g, Items, Items), \A x \in Items : g[x].label = x.label,
           NEW b \in Seq(Items)
    PROVE  Says(Each(g, b)) = Each(g, Says(b))
<1> DEFINE T == { n \in Nat : \A c \in Seq(Items) : Len(c) = n =>
                                 Says(Each(g, c)) = Each(g, Says(c)) }
<1>0. /\ <<>> \in Seq(Items) /\ Each(g, <<>>) = <<>>
      /\ Says(<<>>) = <<>>
  <2>1. <<>> \in Seq(Items) /\ Each(g, <<>>) = <<>> /\ Each(ShowItem, <<>>) = <<>>
    BY DEF Each
  <2>2. FlattenSeq(<<>>) = <<>>
    BY DEF FlattenSeq
  <2> QED
    BY <2>1, <2>2, SaysProperties
<1>1. 0 \in T
  <2>1. ASSUME NEW c \in Seq(Items), Len(c) = 0
        PROVE  c = <<>>
    BY <2>1
  <2> QED
    BY <1>0, <2>1
<1>2. ASSUME NEW n \in Nat,
             \A w \in Seq(Items) : Len(w) = n => Says(Each(g, w)) = Each(g, Says(w)),
             NEW c \in Seq(Items), Len(c) = n + 1
      PROVE  Says(Each(g, c)) = Each(g, Says(c))
  <2>1. n \in Nat /\ c # <<>>
    BY <1>2
  <2>2. PICK v \in Seq(Items), x \in Items : c = Append(v, x)
    BY <2>1, SequenceEmptyOrAppend
  <2>3. c = v \o <<x>> /\ Len(v) = n /\ <<x>> \in Seq(Items)
    <3>1. c = v \o <<x>> /\ Len(c) = Len(v) + 1 /\ Len(v) \in Nat
      BY <2>2, AppendIsConcat, AppendProperties, LenProperties
    <3> QED
      BY <1>2, <2>1, <3>1, SaysOne
  <2>4. Says(Each(g, v)) = Each(g, Says(v))
    BY <1>2, <2>3
  <2>5. g[x] \in Items /\ g[x].label = x.label
    BY DEF Takes
  <2>6. Each(g, <<x>>) = << g[x] >> /\ Each(g, Shown(x)) = Shown(g[x])
    BY <1>0, <2>5 DEF Each, Shown, When
  <2>7. Each(g, v) \in Seq(Items) /\ Each(g, c) = Each(g, v) \o << g[x] >>
    <3>1. Each(g, v) \in Seq(Items)
      BY EachProperties
    <3>2. \A w \in Seq(Items) : Each(g, v \o w) = Each(g, v) \o Each(g, w)
      BY EachConcat
    <3> QED
      BY <2>3, <2>6, <3>1, <3>2
  <2>8. Says(Each(g, c)) = Says(Each(g, v)) \o Shown(g[x])
    BY <2>5, <2>7, SaysConcat, SaysOne
  <2>9. Says(c) = Says(v) \o Shown(x)
    BY <2>3, SaysConcat, SaysOne
  <2>10. Says(v) \in Seq(Items) /\ Shown(x) \in Seq(Items)
    BY SaysProperties DEF Shown, When
  <2>11. Each(g, Says(v) \o Shown(x)) = Each(g, Says(v)) \o Each(g, Shown(x))
    <3>1. \A p, q \in Seq(Items) : Each(g, p \o q) = Each(g, p) \o Each(g, q)
      BY ONLY Takes(g, Items, Items), EachOfItems
    <3> QED
      BY ONLY <2>10, <3>1
  <2> QED
    BY <2>4, <2>6, <2>8, <2>9, <2>11
<1>3. ASSUME NEW n \in T
      PROVE  n + 1 \in T
  BY <1>2, <1>3
<1> HIDE DEF T
<1>4. T = Nat
  BY <1>1, <1>3, Induction DEF T
<1>5. Len(b) \in T
  BY <1>4, LenProperties
<1> QED
  BY <1>5 DEF T

(* The links of a body.                                                    *)
LEMMA LinksConcat ==
    ASSUME NEW b \in Seq(Items), NEW c \in Seq(Items)
    PROVE  Links(b \o c) = Links(b) \cup Links(c)
<1>1. /\ b \o c \in Seq(Items) /\ Len(b \o c) = Len(b) + Len(c)
      /\ \A i \in 1..(Len(b) + Len(c)) :
            (b \o c)[i] = IF i <= Len(b) THEN b[i] ELSE c[i - Len(b)]
  BY ConcatProperties
<1>2. DOMAIN (b \o c) = 1..(Len(b) + Len(c)) /\ DOMAIN b = 1..Len(b) /\ DOMAIN c = 1..Len(c)
  BY <1>1, LenProperties
<1>3. Len(b) \in Nat /\ Len(c) \in Nat
  BY LenProperties
<1>4. ASSUME NEW i \in DOMAIN (b \o c), (b \o c)[i].label = "link"
      PROVE  (b \o c)[i].text \in Links(b) \cup Links(c)
  <2>1. CASE i <= Len(b)
    <3>1. i \in DOMAIN b /\ (b \o c)[i] = b[i]
      BY <1>1, <1>2, <1>3, <2>1
    <3> QED
      BY <1>4, <3>1 DEF Links
  <2>2. CASE ~(i <= Len(b))
    <3>1. i - Len(b) \in DOMAIN c /\ (b \o c)[i] = c[i - Len(b)]
      BY <1>1, <1>2, <1>3, <2>2
    <3> QED
      BY <1>4, <3>1 DEF Links
  <2> QED
    BY <2>1, <2>2
<1>5. ASSUME NEW i \in DOMAIN b, b[i].label = "link"
      PROVE  b[i].text \in Links(b \o c)
  <2>1. i \in DOMAIN (b \o c) /\ (b \o c)[i] = b[i]
    BY <1>1, <1>2, <1>3
  <2> QED
    BY <1>5, <2>1 DEF Links
<1>6. ASSUME NEW i \in DOMAIN c, c[i].label = "link"
      PROVE  c[i].text \in Links(b \o c)
  <2>1. i + Len(b) \in DOMAIN (b \o c) /\ (b \o c)[i + Len(b)] = c[i]
    BY <1>1, <1>2, <1>3
  <2> QED
    BY <1>6, <2>1 DEF Links
<1> QED
  BY <1>4, <1>5, <1>6 DEF Links

(* The links of a body that is escaped, and of one that is marshalled.     *)
LEMMA LinksEach ==
    ASSUME NEW b \in Seq(Items)
    PROVE  /\ Links(Escaped(b)) = { Escape(t) : t \in Links(b) }
           /\ Links(MarshalledBody(b)) = { Marshalled(t) : t \in Links(b) }
<1>1. \A i \in DOMAIN b : b[i] \in Items
  BY ElementOfSeq, LenProperties
<1>2. /\ DOMAIN Escaped(b) = DOMAIN b
      /\ \A i \in DOMAIN b : /\ Escaped(b)[i].label = b[i].label
                             /\ Escaped(b)[i].text = Escape(b[i].text)
  BY <1>1 DEF Escaped, Items
<1>3. /\ DOMAIN MarshalledBody(b) = DOMAIN b
      /\ \A i \in DOMAIN b : /\ MarshalledBody(b)[i].label = b[i].label
                             /\ MarshalledBody(b)[i].text = Marshalled(b[i].text)
  BY <1>1 DEF MarshalledBody, Items
<1> QED
  BY <1>2, <1>3 DEF Links

(* What an item of a template says and links to.                           *)
LEMMA ItemProperties ==
    ASSUME NEW l \in Labels, NEW t \in Seq(Byte)
    PROVE  /\ Item(l, t) \in Seq(Items)
           /\ Item(l, Escape(t)) = Escaped(Item(l, t))
           /\ Says(Item(l, t)) = IF l \notin {"title", "link"} THEN Item(l, t) ELSE <<>>
           /\ Links(Item(l, t)) = IF l = "link" THEN {t} ELSE {}
<1> DEFINE x == [ label |-> l, text |-> t ]
<1>1. x \in Items /\ x.label = l /\ x.text = t /\ Item(l, t) = <<x>>
  BY DEF Items, Item
<1>2. Item(l, Escape(t)) = Escaped(Item(l, t))
  BY DEF Item, Escaped
<1>3. Links(Item(l, t)) = IF l = "link" THEN {t} ELSE {}
  BY DEF Links, Item
<1> HIDE DEF x
<1>4. Item(l, t) \in Seq(Items) /\ Says(Item(l, t)) = Shown(x)
  BY <1>1, SaysOne
<1> QED
  BY <1>1, <1>2, <1>3, <1>4 DEF Shown, When

(* What a template leaves out is left out of what it escapes, too.         *)
LEMMA WhenProperties ==
    ASSUME NEW b \in BOOLEAN, NEW s \in Seq(Items)
    PROVE  /\ When(b, s) \in Seq(Items)
           /\ When(b, Escaped(s)) = Escaped(When(b, s))
<1>1. Escaped(<<>>) = <<>>
  BY DEF Escaped
<1> QED
  BY <1>1 DEF When

(* An item that a template leaves out when there is nothing to put in.     *)
LEMMA OptionalItem ==
    ASSUME NEW l \in Labels, NEW t \in Seq(Byte), NEW b \in BOOLEAN
    PROVE  /\ When(b, Item(l, t)) \in Seq(Items)
           /\ When(b, Item(l, Escape(t))) = Escaped(When(b, Item(l, t)))
           /\ l = "title" => Says(When(b, Item(l, t))) = <<>>
           /\ l # "link" => Links(When(b, Item(l, t))) = {}
<1>1. Says(<<>>) = <<>> /\ Links(<<>>) = {}
  BY DEF Says, FlattenSeq, Links
<1>2. /\ Item(l, t) \in Seq(Items) /\ Item(l, Escape(t)) = Escaped(Item(l, t))
      /\ l = "title" => Says(Item(l, t)) = <<>>
      /\ l # "link" => Links(Item(l, t)) = {}
  BY ItemProperties
<1>3. /\ When(b, Item(l, t)) \in Seq(Items)
      /\ When(b, Escaped(Item(l, t))) = Escaped(When(b, Item(l, t)))
  BY <1>2, WhenProperties
<1> QED
  BY <1>1, <1>2, <1>3 DEF When

(* To escape a concatenation is to concatenate what is escaped.            *)
LEMMA BodyConcat ==
    ASSUME NEW b \in Seq(Items), NEW c \in Seq(Items)
    PROVE  /\ b \o c \in Seq(Items)
           /\ Escaped(b \o c) = Escaped(b) \o Escaped(c)
<1>1. b \o c \in Seq(Items)
  BY ConcatProperties
<1>2. Takes(EscapeItem, Items, Items)
  BY OnItems
<1>3. Each(EscapeItem, b \o c) = Each(EscapeItem, b) \o Each(EscapeItem, c)
  BY <1>2, EachConcat
<1> QED
  BY <1>1, <1>3, OnBodies

-----------------------------------------------------------------------------
(* The two bodies say the same                                             *)

Agree(h, p) ==
    /\ h \in Seq(SafeItems) /\ h \in Seq(Items) /\ p \in Seq(Items)
    /\ Says(h) = Escaped(Says(p))
    /\ Links(h) = { Escape(t) : t \in Links(p) }

(* Empty bodies agree.                                                     *)
LEMMA AgreeStart == Agree(<<>>, <<>>)
<1>1. Says(<<>>) = <<>> /\ Escaped(<<>>) = <<>> /\ Links(<<>>) = {}
  BY DEF Says, FlattenSeq, Escaped, Links
<1> QED
  BY <1>1 DEF Agree

(* An escaped body says what the body says, escaped.                       *)
LEMMA SaysEscaped ==
    ASSUME NEW b \in Seq(Items)
    PROVE  Says(Escaped(b)) = Escaped(Says(b))
<1>1. Takes(EscapeItem, Items, Items) /\ \A x \in Items : EscapeItem[x].label = x.label
  BY OnItems DEF Items
<1>2. Says(Each(EscapeItem, b)) = Each(EscapeItem, Says(b))
  BY <1>1, SaysEach
<1> QED
  BY <1>2, OnBodies, SaysProperties

(* One more item, escaped in the one and as it is in the other.            *)
LEMMA AgreeStep ==
    ASSUME NEW h, NEW p, Agree(h, p), NEW x \in Seq(Items)
    PROVE  Agree(h \o Escaped(x), p \o x)
<1>1. /\ h \in Seq(SafeItems) /\ h \in Seq(Items) /\ p \in Seq(Items)
      /\ Says(h) = Escaped(Says(p)) /\ Links(h) = { Escape(t) : t \in Links(p) }
  BY DEF Agree
<1>2. Escaped(x) \in Seq(Items) /\ Escaped(x) \in Seq(SafeItems)
  BY OnBodies
<1>3. h \o Escaped(x) \in Seq(SafeItems) /\ h \o Escaped(x) \in Seq(Items) /\ p \o x \in Seq(Items)
  BY <1>1, <1>2, ConcatProperties
<1>4. Says(h \o Escaped(x)) = Escaped(Says(p \o x))
  <2>1. Says(h \o Escaped(x)) = Escaped(Says(p)) \o Escaped(Says(x))
    BY <1>1, <1>2, SaysConcat, SaysEscaped
  <2>2. Says(p) \in Seq(Items) /\ Says(x) \in Seq(Items)
    BY <1>1, SaysProperties
  <2>3. Escaped(Says(p) \o Says(x)) = Escaped(Says(p)) \o Escaped(Says(x))
    BY <2>2, BodyConcat
  <2> QED
    BY <1>1, <2>1, <2>3, SaysConcat
<1>5. Links(h \o Escaped(x)) = { Escape(t) : t \in Links(p \o x) }
  <2>1. /\ Links(h \o Escaped(x)) = Links(h) \cup Links(Escaped(x))
        /\ Links(p \o x) = Links(p) \cup Links(x)
    BY <1>1, <1>2, LinksConcat
  <2>2. Links(Escaped(x)) = { Escape(t) : t \in Links(x) }
    BY LinksEach
  <2> QED
    BY <1>1, <2>1, <2>2
<1> QED
  BY <1>3, <1>4, <1>5 DEF Agree

(* One more item that only the first has: a title, or a link once more.    *)
LEMMA AgreeUnsaid ==
    ASSUME NEW h, NEW p, Agree(h, p), NEW x \in Seq(Items),
           Says(x) = <<>>, Links(x) \subseteq Links(p)
    PROVE  Agree(h \o Escaped(x), p)
<1>1. Agree(h \o Escaped(x), p \o x)
  BY AgreeStep
<1>2. p \in Seq(Items) /\ Says(p) \in Seq(Items)
  BY SaysProperties DEF Agree
<1>3. Says(p \o x) = Says(p) /\ Links(p \o x) = Links(p)
  <2>1. Says(p \o x) = Says(p) \o Says(x) /\ Links(p \o x) = Links(p) \cup Links(x)
    BY <1>2, SaysConcat, LinksConcat
  <2>2. Says(p) \o <<>> = Says(p)
    BY <1>2, ConcatEmptySeq
  <2> QED
    BY <2>1, <2>2
<1> QED
  BY <1>1, <1>2, <1>3 DEF Agree

(* The labels of the items.                                                *)
LEMMA Labelled ==
    /\ "title" \in Labels /\ "greeting" \in Labels /\ "inviter" \in Labels
    /\ "resource" \in Labels /\ "type" \in Labels /\ "parent" \in Labels
    /\ "role" \in Labels /\ "steps" \in Labels /\ "accept" \in Labels
    /\ "create account" \in Labels /\ "link" \in Labels /\ "team" \in Labels
BY DEF Labels

(* The sentence on the membership is a body without links.                 *)
LEMMA MembershipType ==
    ASSUME NEW d \in Data
    PROVE  Membership(d) \in Seq(Items) /\ Links(Membership(d)) = {}
<1> DEFINE r == Item("resource", d.ResourceName)
           t == When(d.ResourceType # <<>>, Item("type", d.ResourceType))
           p == When(d.HasParentResource, Item("parent", d.ParentResourceName))
<1>1. /\ d.ResourceName \in Seq(Byte) /\ d.ResourceType \in Seq(Byte)
      /\ d.ParentResourceName \in Seq(Byte) /\ d.HasParentResource \in BOOLEAN
  BY DEF Data
<1>2. r \in Seq(Items) /\ Links(r) = {}
  BY <1>1, Labelled, ItemProperties
<1>3. t \in Seq(Items) /\ Links(t) = {}
  BY <1>1, Labelled, OptionalItem
<1>4. p \in Seq(Items) /\ Links(p) = {}
  BY <1>1, Labelled, OptionalItem
<1>5. Membership(d) = (r \o t) \o p
  BY DEF Membership
<1> HIDE DEF r, t, p
<1>6. r \o t \in Seq(Items) /\ Links(r \o t) = {}
  BY <1>2, <1>3, BodyConcat, LinksConcat
<1>7. (r \o t) \o p \in Seq(Items) /\ Links((r \o t) \o p) = {}
  BY <1>4, <1>6, BodyConcat, LinksConcat
<1> QED
  BY <1>5, <1>7

(* The templates, item by item.                                            *)
LEMMA TemplatesAgree ==
    ASSUME NEW d \in Data
    PROVE  /\ Agree(HTMLTemplate(d), PlainTemplate(d))
           /\ Links(PlainTemplate(d)) = {d.ReturnURL}
<1> DEFINE t1 == Item("title", d.ResourceName)
           t2 == When(d.ResourceType # <<>>, Item("title", d.ResourceType))
           greeting == When(d.RecipientFirstName # <<>>, Item("greeting", d.RecipientFirstName))
           inviter == When(d.HasInviter, Item("inviter", d.InviterFullName))
           member == Membership(d)
           role == Item("role", d.Role)
           stepsOf(m) == When(~d.RecipientHasAccount, Item("steps", <<>>) \o m)
           steps == stepsOf(member)
           choice == Item(IF d.RecipientHasAccount THEN "accept" ELSE "create account", <<>>)
           link == Item("link", d.ReturnURL)
           team == Item("team", d.OrgName)
<1>1. /\ d.ResourceName \in Seq(Byte) /\ d.ResourceType \in Seq(Byte)
      /\ d.RecipientFirstName \in Seq(Byte) /\ d.InviterFullName \in Seq(Byte)
      /\ d.Role \in Seq(Byte) /\ d.OrgName \in Seq(Byte) /\ <<>> \in Seq(Byte)
      /\ d.ReturnURL \in Seq(Byte) /\ d.HasInviter \in BOOLEAN
      /\ d.RecipientHasAccount \in BOOLEAN
  BY Texts DEF Data
<1>2. Escape(<<>>) = <<>>
  BY DEF Escape
<1>3. /\ t1 \in Seq(Items) /\ Item("title", Escape(d.ResourceName)) = Escaped(t1)
      /\ Says(t1) = <<>> /\ Links(t1) = {}
  BY <1>1, Labelled, ItemProperties
<1>4. /\ t2 \in Seq(Items) /\ Says(t2) = <<>> /\ Links(t2) = {}
      /\ When(d.ResourceType # <<>>, Item("title", Escape(d.ResourceType))) = Escaped(t2)
  BY <1>1, Labelled, OptionalItem
<1>5. /\ greeting \in Seq(Items) /\ Links(greeting) = {}
      /\ When(d.RecipientFirstName # <<>>, Item("greeting", Escape(d.RecipientFirstName))) =
            Escaped(greeting)
  BY <1>1, Labelled, OptionalItem
<1>6. /\ inviter \in Seq(Items) /\ Links(inviter) = {}
      /\ When(d.HasInviter, Item("inviter", Escape(d.InviterFullName))) = Escaped(inviter)
  <2>1. "inviter" \in Labels /\ d.InviterFullName \in Seq(Byte) /\ d.HasInviter \in BOOLEAN
    BY <1>1, Labelled
  <2> QED
    BY <2>1, OptionalItem
<1>7. member \in Seq(Items) /\ Links(member) = {}
  BY MembershipType
<1>8. role \in Seq(Items) /\ Item("role", Escape(d.Role)) = Escaped(role) /\ Links(role) = {}
  BY <1>1, Labelled, ItemProperties
<1>9. steps \in Seq(Items) /\ Links(steps) = {} /\ stepsOf(Escaped(member)) = Escaped(steps)
  <2> DEFINE s == Item("steps", <<>>)
  <2>1. s \in Seq(Items) /\ Links(s) = {} /\ s = Escaped(s)
    BY <1>1, <1>2, Labelled, ItemProperties
  <2> HIDE DEF s, member
  <2>2. /\ s \o member \in Seq(Items) /\ Links(s \o member) = {}
        /\ s \o Escaped(member) = Escaped(s \o member)
    BY <1>7, <2>1, BodyConcat, LinksConcat
  <2>3. Links(<<>>) = {}
    BY DEF Links
  <2>4. /\ When(~d.RecipientHasAccount, s \o member) \in Seq(Items)
        /\ When(~d.RecipientHasAccount, Escaped(s \o member)) =
              Escaped(When(~d.RecipientHasAccount, s \o member))
    BY <1>1, <2>2, WhenProperties
  <2>5. Links(When(~d.RecipientHasAccount, s \o member)) = {}
    BY <2>2, <2>3 DEF When
  <2> QED
    BY <2>2, <2>4, <2>5 DEF s
<1>10. choice \in Seq(Items) /\ Links(choice) = {} /\ Escaped(choice) = choice
  <2>1. /\ Item("accept", <<>>) \in Seq(Items) /\ Links(Item("accept", <<>>)) = {}
        /\ Escaped(Item("accept", <<>>)) = Item("accept", <<>>)
    BY <1>1, <1>2, Labelled, ItemProperties
  <2>2. /\ Item("create account", <<>>) \in Seq(Items) /\ Links(Item("create account", <<>>)) = {}
        /\ Escaped(Item("create account", <<>>)) = Item("create account", <<>>)
    BY <1>1, <1>2, Labelled, ItemProperties
  <2> QED
    BY <2>1, <2>2
<1>11. /\ link \in Seq(Items) /\ Item("link", Escape(d.ReturnURL)) = Escaped(link)
       /\ Says(link) = <<>> /\ Links(link) = {d.ReturnURL}
  BY <1>1, Labelled, ItemProperties
<1>12. team \in Seq(Items) /\ Item("team", Escape(d.OrgName)) = Escaped(team) /\ Links(team) = {}
  BY <1>1, Labelled, ItemProperties
<1> DEFINE p2 == greeting \o inviter
           p3 == p2 \o member
           p4 == p3 \o role
           p5 == p4 \o steps
           p6 == p5 \o choice
           p7 == p6 \o link
           p8 == p7 \o team
           h1 == Escaped(t1) \o Escaped(t2)
           h2 == h1 \o Escaped(greeting)
           h3 == h2 \o Escaped(inviter)
           h4 == h3 \o Escaped(member)
           h5 == h4 \o Escaped(role)
           h6 == h5 \o Escaped(steps)
           h7 == h6 \o Escaped(choice)
           h8 == h7 \o Escaped(link)
           h9 == h8 \o Escaped(link)
           h10 == h9 \o Escaped(team)
<1>13. PlainTemplate(d) = p8
  BY DEF PlainTemplate
<1>14. HTMLTemplate(d) = h10
  <2>1. HTMLTemplate(d) =
          Item("title", Escape(d.ResourceName))
             \o When(d.ResourceType # <<>>, Item("title", Escape(d.ResourceType)))
             \o When(d.RecipientFirstName # <<>>, Item("greeting", Escape(d.RecipientFirstName)))
             \o When(d.HasInviter, Item("inviter", Escape(d.InviterFullName)))
             \o Escaped(member) \o Item("role", Escape(d.Role))
             \o stepsOf(Escaped(member)) \o choice
             \o Item("link", Escape(d.ReturnURL)) \o Item("link", Escape(d.ReturnURL))
             \o Item("team", Escape(d.OrgName))
    BY DEF HTMLTemplate
  <2> HIDE DEF t1, t2, greeting, inviter, member, role, stepsOf, steps, choice, link, team
  <2> QED
    BY <1>3, <1>4, <1>5, <1>6, <1>8, <1>9, <1>10, <1>11, <1>12, <2>1
<1> HIDE DEF t1, t2, greeting, inviter, member, role, stepsOf, steps, choice, link, team
<1>15. Agree(h1, <<>>)
  <2>1. Agree(<<>> \o Escaped(t1), <<>>)
    BY <1>3, AgreeStart, AgreeUnsaid
  <2>2. <<>> \o Escaped(t1) = Escaped(t1)
    BY <1>3, OnBodies, ConcatEmptySeq
  <2> QED
    BY <1>4, <2>1, <2>2, AgreeUnsaid
<1>16. Agree(h2, greeting)
  <2>1. Agree(h2, <<>> \o greeting)
    BY <1>5, <1>15, AgreeStep
  <2> QED
    BY <1>5, <2>1, ConcatEmptySeq
<1> HIDE DEF h1, h2, h3, h4, h5, h6, h7, h8, h9, p2, p3, p4, p5, p6, p7
<1>17. Agree(h3, p2)
  BY <1>6, <1>16, AgreeStep DEF h3, p2
<1>18. Agree(h4, p3)
  BY <1>7, <1>17, AgreeStep DEF h4, p3
<1>19. Agree(h5, p4)
  BY <1>8, <1>18, AgreeStep DEF h5, p4
<1>20. Agree(h6, p5)
  BY <1>9, <1>19, AgreeStep DEF h6, p5
<1>21. Agree(h7, p6)
  BY <1>10, <1>20, AgreeStep DEF h7, p6
<1>22. Agree(h8, p7)
  BY <1>11, <1>21, AgreeStep DEF h8, p7
<1>23. /\ p2 \in Seq(Items) /\ p3 \in Seq(Items) /\ p4 \in Seq(Items)
       /\ p5 \in Seq(Items) /\ p6 \in Seq(Items) /\ p7 \in Seq(Items)
  BY <1>17, <1>18, <1>19, <1>20, <1>21, <1>22 DEF Agree
<1>24. Links(p7) = {d.ReturnURL}
  <2>0. \A b, c \in Seq(Items) : Links(b \o c) = Links(b) \cup Links(c)
    BY LinksConcat
  <2>1. Links(p2) = {}
    BY <1>5, <1>6, LinksConcat DEF p2
  <2>2. Links(p3) = {}
    <3>1. p2 \in Seq(Items) /\ member \in Seq(Items)
      BY <1>7, <1>23
    <3>2. Links(p2 \o member) = Links(p2) \cup Links(member)
      BY ONLY <2>0, <3>1
    <3> QED
      BY <1>7, <2>1, <3>2 DEF p3
  <2>3. Links(p4) = {}
    <3>1. p3 \in Seq(Items) /\ role \in Seq(Items)
      BY <1>8, <1>23
    <3>2. Links(p3 \o role) = Links(p3) \cup Links(role)
      BY ONLY <2>0, <3>1
    <3> QED
      BY <1>8, <2>2, <3>2 DEF p4
  <2>4. Links(p5) = {}
    <3>1. p4 \in Seq(Items) /\ steps \in Seq(Items)
      BY <1>9, <1>23
    <3>2. Links(p4 \o steps) = Links(p4) \cup Links(steps)
      BY ONLY <2>0, <3>1
    <3> QED
      BY <1>9, <2>3, <3>2 DEF p5
  <2>5. Links(p6) = {}
    <3>1. p5 \in Seq(Items) /\ choice \in Seq(Items)
      BY <1>10, <1>23
    <3>2. Links(p5 \o choice) = Links(p5) \cup Links(choice)
      BY ONLY <2>0, <3>1
    <3> QED
      BY <1>10, <2>4, <3>2 DEF p6
  <2> QED
    <3>1. p6 \in Seq(Items) /\ link \in Seq(Items)
      BY <1>11, <1>23
    <3>2. Links(p6 \o link) = Links(p6) \cup Links(link)
      BY ONLY <2>0, <3>1
    <3> QED
      BY <1>11, <2>5, <3>2 DEF p7
<1>25. Links(p8) = {d.ReturnURL}
  BY <1>12, <1>23, <1>24, LinksConcat
<1>26. Agree(h9, p7)
  BY <1>11, <1>22, <1>24, AgreeUnsaid DEF h9
<1>27. Agree(h10, p8)
  BY <1>12, <1>26, AgreeStep
<1> HIDE DEF h10, p8
<1> QED
  BY <1>13, <1>14, <1>25, <1>27

-----------------------------------------------------------------------------
(* The e-mail                                                              *)

(* The plain fallback is a body, and offers the first Cap bytes of the     *)
(* link.                                                                   *)
LEMMA FallbackPlain ==
    ASSUME NEW d \in Data
    PROVE  /\ fallbackInvitePlain(d) \in Seq(Items)
           /\ Len(d.ReturnURL) <= Cap => d.ReturnURL \in Links(fallbackInvitePlain(d))
<1> DEFINE r == Item("resource", sanitizeSingleLine(d.ResourceName))
           t == When(d.ResourceType # <<>>, Item("type", sanitizedResourceSuffix(d.ResourceType)))
           l == Item("link", sanitizeSingleLine(d.ReturnURL))
<1>1. /\ d.ResourceName \in Seq(Byte) /\ d.ResourceType \in Seq(Byte)
      /\ d.ReturnURL \in Seq(Byte) /\ d.ReturnURL \in Seq(Clean)
  BY Texts DEF Data
<1>2. sanitizedResourceSuffix(d.ResourceType) \in Seq(Byte)
  <2>1. sanitizeSingleLine(d.ResourceType) \in Seq(Byte)
    BY <1>1, Sanitized
  <2>2. <<SP>> \o sanitizeSingleLine(d.ResourceType) \in Seq(Byte)
    BY <2>1, Texts, ConcatProperties
  <2> QED
    BY <2>2, Texts DEF sanitizedResourceSuffix, When
<1>3. t \in Seq(Items)
  BY <1>2, Labelled, OptionalItem
<1>4. r \in Seq(Items) /\ l \in Seq(Items) /\ Links(l) = {sanitizeSingleLine(d.ReturnURL)}
  BY <1>1, Sanitized, Labelled, ItemProperties
<1>5. Len(d.ReturnURL) <= Cap => sanitizeSingleLine(d.ReturnURL) = d.ReturnURL
  BY <1>1, ReplacedClean, PrefixProperties, EmailAssumption DEF sanitizeSingleLine
<1>6. fallbackInvitePlain(d) = (r \o t) \o l
  BY DEF fallbackInvitePlain
<1> HIDE DEF r, t, l
<1>7. r \o t \in Seq(Items)
  BY <1>3, <1>4, BodyConcat
<1>8. /\ (r \o t) \o l \in Seq(Items)
      /\ Links((r \o t) \o l) = Links(r \o t) \cup Links(l)
  BY <1>4, <1>7, BodyConcat, LinksConcat
<1> QED
  BY <1>4, <1>5, <1>6, <1>8

(* What is rendered: whatever fails, the subject is the same line, the     *)
(* HTML is escaped, and both bodies are bodies.                            *)
LEMMA RenderedProperties ==
    ASSUME NEW p \in Payload, NEW broken \in SUBSET Part
    PROVE  /\ RenderInviteEmail(p, broken).Subject =
                 sanitizeSingleLine(SubjectTemplate(buildTemplateData(p)))
           /\ RenderInviteEmail(p, broken).Subject \in Seq(Clean)
           /\ Len(RenderInviteEmail(p, broken).Subject) <= Cap
           /\ RenderInviteEmail(p, broken).HTML \in Seq(SafeItems)
           /\ RenderInviteEmail(p, broken).HTML \in Seq(Items)
           /\ RenderInviteEmail(p, broken).Plain \in Seq(Items)
           /\ "html" \notin broken =>
                 RenderInviteEmail(p, broken).HTML = HTMLTemplate(buildTemplateData(p))
           /\ RenderInviteEmail(p, broken).Plain =
                 IF "plain" \in broken THEN fallbackInvitePlain(buildTemplateData(p))
                                       ELSE PlainTemplate(buildTemplateData(p))
<1> DEFINE d == buildTemplateData(p)
           e == RenderInviteEmail(p, broken)
<1>1. d \in Data
  BY DataType
<1>2. /\ e.Subject = sanitizeSingleLine(IF "subject" \in broken THEN fallbackInviteSubject(d)
                                                                ELSE SubjectTemplate(d))
      /\ e.HTML = IF "html" \in broken THEN fallbackInviteHTML(d) ELSE HTMLTemplate(d)
      /\ e.Plain = IF "plain" \in broken THEN fallbackInvitePlain(d) ELSE PlainTemplate(d)
  BY DEF RenderInviteEmail, renderPart
<1> HIDE DEF d, e
<1>3. /\ e.Subject = sanitizeSingleLine(SubjectTemplate(d))
      /\ e.Subject \in Seq(Clean) /\ Len(e.Subject) <= Cap
  BY <1>1, <1>2, SubjectLines, Sanitized
<1>4. /\ HTMLTemplate(d) \in Seq(SafeItems) /\ HTMLTemplate(d) \in Seq(Items)
      /\ PlainTemplate(d) \in Seq(Items)
  BY <1>1, TemplatesAgree DEF Agree
<1>5. /\ d.ResourceName \in Seq(Byte) /\ d.ResourceType \in Seq(Byte)
  BY <1>1 DEF Data
<1>6. fallbackInviteHTML(d) \in Seq(SafeItems) /\ fallbackInviteHTML(d) \in Seq(Items)
  <2> DEFINE r == Item("resource", d.ResourceName)
             t == When(d.ResourceType # <<>>, Item("type", d.ResourceType))
  <2>1. r \in Seq(Items) /\ Item("resource", Escape(d.ResourceName)) = Escaped(r)
    BY <1>5, Labelled, ItemProperties
  <2>2. /\ t \in Seq(Items)
        /\ When(d.ResourceType # <<>>, Item("type", Escape(d.ResourceType))) = Escaped(t)
    BY <1>5, Labelled, OptionalItem
  <2>3. fallbackInviteHTML(d) = Escaped(r) \o Escaped(t)
    BY <2>1, <2>2 DEF fallbackInviteHTML
  <2> HIDE DEF r, t
  <2>4. r \o t \in Seq(Items) /\ Escaped(r) \o Escaped(t) = Escaped(r \o t)
    BY <2>1, <2>2, BodyConcat
  <2> QED
    BY <2>3, <2>4, OnBodies
<1>7. fallbackInvitePlain(d) \in Seq(Items)
  BY <1>1, FallbackPlain
<1> QED
  BY <1>2, <1>3, <1>4, <1>6, <1>7 DEF d, e

(* The request has the parts of the e-mail, each text marshalled.          *)
LEMMA RequestProperties ==
    ASSUME NEW p \in Payload, NEW broken \in SUBSET Part
    PROVE  LET r == SendEmailRequest(p, broken) IN
           /\ DOMAIN r = {"To", "Subject", "HTML", "Text"} /\ r.To = p.RecipientEmail
           /\ r.Subject = Marshalled(RenderInviteEmail(p, broken).Subject)
           /\ r.HTML = MarshalledBody(RenderInviteEmail(p, broken).HTML)
           /\ r.Text = MarshalledBody(RenderInviteEmail(p, broken).Plain)
BY DEF SendEmailRequest

(* json.Marshal makes no "<" out of a text that has none.                  *)
LEMMA MarshalledTexts ==
    ASSUME NEW b \in Seq(Items)
    PROVE  /\ \A i \in DOMAIN MarshalledBody(b) : MarshalledBody(b)[i].text \in Seq(Byte)
           /\ b \in Seq(SafeItems) =>
                 \A i \in DOMAIN MarshalledBody(b) : MarshalledBody(b)[i].text \in Seq(Safe)
<1>1. /\ DOMAIN MarshalledBody(b) = DOMAIN b
      /\ \A i \in DOMAIN b : MarshalledBody(b)[i] = [ b[i] EXCEPT !.text = Marshalled(@) ]
  BY DEF MarshalledBody
<1>2. \A i \in DOMAIN b : b[i] \in Items /\ (b \in Seq(SafeItems) => b[i] \in SafeItems)
  BY ElementOfSeq, LenProperties
<1>3. "U+FFFD" \in Byte /\ "U+FFFD" \in Safe
  BY Bytes, OnItems
<1>4. ASSUME NEW x \in Items
      PROVE  [ x EXCEPT !.text = Marshalled(@) ].text \in Seq(Byte)
  BY <1>3, MarshalledType DEF Items
<1>5. ASSUME NEW x \in SafeItems
      PROVE  [ x EXCEPT !.text = Marshalled(@) ].text \in Seq(Safe)
  BY <1>3, MarshalledType DEF SafeItems
<1> QED
  BY <1>1, <1>2, <1>4, <1>5

(* The inductive invariant: an envelope is the request that the payload    *)
(* comes to when the templates of the failing parts fail.                  *)
Filled ==
    /\ payload \in Payload \cup {None}
    /\ failing \in SUBSET Part
    /\ Sent => payload \in Payload /\ envelope = SendEmailRequest(payload, failing)

(* Whatever SendNotification makes of a payload, it makes it of that       *)
(* payload alone: the parts are not mixed up between one e-mail and the    *)
(* next.                                                                   *)
THEOREM EnvelopeFilled == Spec => []Filled
<1>1. Init => Filled
  BY DEF Init, Filled, Sent
<1>2. Filled /\ [Next]_vars => Filled'
  <2> SUFFICES ASSUME Filled, [Next]_vars PROVE Filled'
    OBVIOUS
  <2>1. CASE Requested
    BY <2>1 DEF Requested, Filled, Sent
  <2>2. ASSUME NEW p \in Payload, SendNotification(p)
        PROVE  Filled'
    BY <2>2 DEF SendNotification, Filled, Sent
  <2>3. CASE UNCHANGED vars
    BY <2>3 DEF vars, Filled, Sent
  <2> QED
    BY <2>1, <2>2, <2>3 DEF Next
<1> QED
  BY <1>1, <1>2, PTL DEF Spec

(* Every envelope has its parts, and every part is text: a request has an  *)
(* HTML and a plain body whichever templates fail.                         *)
THEOREM EmailTypeCorrect == Spec => []EmailTypeOK
<1>1. Filled => EmailTypeOK
  <2> SUFFICES ASSUME Filled, Sent PROVE EmailTypeOK
    BY DEF Filled, EmailTypeOK
  <2>1. /\ payload \in Payload /\ failing \in SUBSET Part
        /\ envelope = SendEmailRequest(payload, failing)
    BY DEF Filled
  <2>2. /\ DOMAIN envelope = {"To", "Subject", "HTML", "Text"}
        /\ envelope.To = payload.RecipientEmail
        /\ envelope.Subject = Marshalled(RenderInviteEmail(payload, failing).Subject)
        /\ envelope.HTML = MarshalledBody(RenderInviteEmail(payload, failing).HTML)
        /\ envelope.Text = MarshalledBody(RenderInviteEmail(payload, failing).Plain)
    BY <2>1, RequestProperties
  <2>3. /\ RenderInviteEmail(payload, failing).Subject \in Seq(Byte)
        /\ RenderInviteEmail(payload, failing).HTML \in Seq(Items)
        /\ RenderInviteEmail(payload, failing).Plain \in Seq(Items)
    BY <2>1, RenderedProperties, Texts
  <2>4. envelope.Subject \in Seq(Byte)
    BY <2>2, <2>3, MarshalledType, Bytes
  <2>5. \A i \in DOMAIN envelope.Subject : envelope.Subject[i] \in Byte
    BY <2>4, ElementOfSeq, LenProperties
  <2>6. ASSUME NEW b \in {envelope.HTML, envelope.Text}, NEW i \in DOMAIN b,
               NEW j \in DOMAIN b[i].text
        PROVE  b[i].text[j] \in Byte
    <3>1. b[i].text \in Seq(Byte)
      BY <2>2, <2>3, MarshalledTexts
    <3> QED
      BY <3>1, ElementOfSeq, LenProperties
  <2> QED
    BY <2>1, <2>2, <2>5, <2>6 DEF EmailTypeOK
<1> QED
  BY <1>1, EnvelopeFilled, PTL

(* Whatever the names are and whichever way it is made, a subject is one   *)
(* header line of at most Cap bytes.                                       *)
THEOREM SubjectBounded == Spec => []SubjectIsOneLine
<1>1. Filled => SubjectIsOneLine
  <2> SUFFICES ASSUME Filled, Sent
               PROVE  ~Holds(envelope.Subject, {CR, LF, NUL}) /\ Len(envelope.Subject) <= Cap
    BY DEF SubjectIsOneLine
  <2> DEFINE s == RenderInviteEmail(payload, failing).Subject
  <2>1. payload \in Payload /\ failing \in SUBSET Part
    BY DEF Filled
  <2>2. envelope.Subject = Marshalled(s)
    BY <2>1, RequestProperties DEF Filled
  <2>3. s \in Seq(Clean) /\ Len(s) <= Cap
    BY <2>1, RenderedProperties
  <2> HIDE DEF s
  <2>4. Marshalled(s) \in Seq(Clean) /\ Len(Marshalled(s)) = Len(s)
    BY <2>3, MarshalledType, Bytes
  <2>5. \A i \in DOMAIN Marshalled(s) : Marshalled(s)[i] \in Clean
    BY <2>4, ElementOfSeq, LenProperties
  <2> QED
    BY <2>2, <2>3, <2>4, <2>5 DEF Holds, Clean
<1> QED
  BY <1>1, EnvelopeFilled, PTL

(* Sanitizing and capping the pieces before they are joined, as the        *)
(* fallback does, comes to the same line as sanitizing and capping what    *)
(* the template joins, for every cap.                                      *)
THEOREM SubjectSurvives == Spec => []SubjectSurvivesFailure
<1>1. Filled => SubjectSurvivesFailure
  BY RequestProperties, RenderedProperties DEF Filled, SubjectSurvivesFailure
<1> QED
  BY <1>1, EnvelopeFilled, PTL

(* No text of an HTML part has a "<" of its own, in the template or in the *)
(* fallback, and marshalling puts none back.                               *)
THEOREM HTMLEscaped == Spec => []HTMLIsEscaped
<1>1. Filled => HTMLIsEscaped
  <2> SUFFICES ASSUME Filled, Sent, NEW i \in DOMAIN envelope.HTML
               PROVE  ~Holds(envelope.HTML[i].text, {"<"})
    BY DEF HTMLIsEscaped
  <2> DEFINE h == RenderInviteEmail(payload, failing).HTML
  <2>1. payload \in Payload /\ failing \in SUBSET Part
    BY DEF Filled
  <2>2. envelope.HTML = MarshalledBody(h)
    BY <2>1, RequestProperties DEF Filled
  <2>3. h \in Seq(SafeItems) /\ h \in Seq(Items)
    BY <2>1, RenderedProperties
  <2> HIDE DEF h
  <2>4. envelope.HTML[i].text \in Seq(Safe)
    BY <2>2, <2>3, MarshalledTexts
  <2>5. \A j \in DOMAIN envelope.HTML[i].text : envelope.HTML[i].text[j] \in Safe
    BY <2>4, ElementOfSeq, LenProperties
  <2> QED
    BY <2>5 DEF Holds, Safe
<1> QED
  BY <1>1, EnvelopeFilled, PTL

(* Bodies that agree still do so when they are marshalled.                 *)
LEMMA AgreeMarshalled ==
    ASSUME NEW h, NEW p, Agree(h, p)
    PROVE  /\ Says(MarshalledBody(h)) = Escaped(Says(MarshalledBody(p)))
           /\ Links(MarshalledBody(h)) = { Marshalled(Escape(t)) : t \in Links(p) }
           /\ Links(MarshalledBody(p)) = { Marshalled(t) : t \in Links(p) }
<1>1. /\ h \in Seq(Items) /\ p \in Seq(Items) /\ Says(h) = Escaped(Says(p))
      /\ Links(h) = { Escape(t) : t \in Links(p) }
  BY DEF Agree
<1>2. ASSUME NEW b \in Seq(Items)
      PROVE  Says(MarshalledBody(b)) = MarshalledBody(Says(b))
  <2>1. Takes(MarshalItem, Items, Items) /\ \A x \in Items : MarshalItem[x].label = x.label
    BY OnItems DEF Items
  <2>2. Says(Each(MarshalItem, b)) = Each(MarshalItem, Says(b))
    BY <2>1, SaysEach
  <2> QED
    BY <2>2, OnBodies, SaysProperties
<1>3. Says(p) \in Seq(Items)
  BY <1>1, SaysProperties
<1>4. Says(MarshalledBody(h)) = Escaped(Says(MarshalledBody(p)))
  BY <1>1, <1>2, <1>3, EscapeThenMarshal
<1>5. Links(MarshalledBody(h)) = { Marshalled(Escape(t)) : t \in Links(p) }
  BY <1>1, LinksEach
<1> QED
  BY <1>1, <1>4, <1>5, LinksEach

(* The two templates tell the recipient the same, whatever they are filled *)
(* in with.                                                                *)
THEOREM BodiesAgree == Spec => []PartsAgree
<1>1. Filled => PartsAgree
  <2> SUFFICES ASSUME Filled, Sent, failing \cap {"html", "plain"} = {}
               PROVE  /\ Says(envelope.HTML) = Escaped(Says(envelope.Text))
                      /\ Links(envelope.HTML) = Links(envelope.Text)
    BY DEF PartsAgree
  <2> DEFINE d == buildTemplateData(payload)
  <2>1. payload \in Payload /\ failing \in SUBSET Part
    BY DEF Filled
  <2>2. d \in Data /\ d.ReturnURL \in Seq(Letter)
    BY <2>1, DataType DEF Data
  <2>3. /\ envelope.HTML = MarshalledBody(HTMLTemplate(d))
        /\ envelope.Text = MarshalledBody(PlainTemplate(d))
    BY <2>1, RequestProperties, RenderedProperties DEF Filled
  <2> HIDE DEF d
  <2>4. Agree(HTMLTemplate(d), PlainTemplate(d)) /\ Links(PlainTemplate(d)) = {d.ReturnURL}
    BY <2>2, TemplatesAgree
  <2>5. Escape(d.ReturnURL) = d.ReturnURL
    BY <2>2, EscapeLetters
  <2> QED
    BY <2>3, <2>4, <2>5, AgreeMarshalled
<1> QED
  BY <1>1, EnvelopeFilled, PTL

(* An invite that is sent can be accepted from its e-mail: only when both  *)
(* bodies fail to render can a link longer than Cap be lost.               *)
THEOREM LinkOffered == Spec => []LinkIsOffered
<1>1. Filled => LinkIsOffered
  <2> SUFFICES ASSUME Filled, Sent,
                      ~({"html", "plain"} \subseteq failing) \/ Len(payload.InviteLink) <= Cap
               PROVE  payload.InviteLink \in Links(envelope.HTML) \cup Links(envelope.Text)
    BY DEF LinkIsOffered
  <2> DEFINE d == buildTemplateData(payload)
             url == payload.InviteLink
  <2>1. payload \in Payload /\ failing \in SUBSET Part
    BY DEF Filled
  <2>2. d \in Data /\ d.ReturnURL = url /\ url \in Seq(Letter)
    BY <2>1, DataType DEF Data
  <2>3. /\ envelope.HTML = MarshalledBody(RenderInviteEmail(payload, failing).HTML)
        /\ envelope.Text = MarshalledBody(RenderInviteEmail(payload, failing).Plain)
    BY <2>1, RequestProperties DEF Filled
  <2>4. /\ "html" \notin failing => RenderInviteEmail(payload, failing).HTML = HTMLTemplate(d)
        /\ RenderInviteEmail(payload, failing).Plain =
              IF "plain" \in failing THEN fallbackInvitePlain(d) ELSE PlainTemplate(d)
    BY <2>1, RenderedProperties
  <2>5. Agree(HTMLTemplate(d), PlainTemplate(d)) /\ Links(PlainTemplate(d)) = {url}
    BY <2>2, TemplatesAgree
  <2>6. Escape(url) = url /\ Marshalled(url) = url
    BY <2>2, EscapeLetters, MarshalledLetters
  <2>7. /\ fallbackInvitePlain(d) \in Seq(Items)
        /\ Len(url) <= Cap => url \in Links(fallbackInvitePlain(d))
    BY <2>2, FallbackPlain
  <2> HIDE DEF d, url
  <2>8. CASE "html" \notin failing
    BY <2>3, <2>4, <2>5, <2>6, <2>8, AgreeMarshalled DEF url
  <2>9. CASE "plain" \notin failing
    BY <2>3, <2>4, <2>5, <2>6, <2>9, AgreeMarshalled DEF url
  <2>10. CASE Len(url) <= Cap /\ "plain" \in failing
    <3>1. url \in Links(fallbackInvitePlain(d))
      BY <2>7, <2>10
    <3>2. Marshalled(url) \in Links(MarshalledBody(fallbackInvitePlain(d)))
      BY <2>7, <3>1, LinksEach
    <3> QED
      BY <2>3, <2>4, <2>6, <2>10, <3>2 DEF url
  <2> QED
    BY <2>8, <2>9, <2>10 DEF url
<1> QED
  BY <1>1, EnvelopeFilled, PTL
=============================================================================
