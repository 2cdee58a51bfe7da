------------------------------ MODULE Folding ------------------------------
(***************************************************************************)
(* A fold of a sequence, whatever it is folded with: what the community    *)
(* modules' FoldLeft makes of no element and of one more, likewise their   *)
(* FlattenSeq, and induction over sequences.  A module that proves about a *)
(* fold instantiates this one with its step.                               *)
(***************************************************************************)
EXTENDS SequencesExt, SequenceTheorems, WellFoundedInduction, TLAPS

CONSTANTS Base,       \* what nothing comes to
          Step(_, _)  \* what one more element makes of it

Fold(seq) == FoldLeft(Step, Base, seq)

-----------------------------------------------------------------------------
(* Induction.                                                              *)

\* Every set of naturals that is not empty has a least element.
LEMMA LeastOf ==
  ASSUME NEW T \in SUBSET Nat, T # {} PROVE \E n \in T : \A m \in T : n <= m
<1>1. \E x \in T : \A y \in T : ~ (<<y, x>> \in OpToRel(<, Nat))
  BY NatLessThanWellFounded, WFMin, Zenon
<1>2. \A x, y \in Nat : ~ (<<y, x>> \in OpToRel(<, Nat)) => x <= y
  BY DEF OpToRel
<1> QED BY <1>1, <1>2

\* A set with zero and with the successor of each of its elements has them all.
LEMMA NatInduct ==
  ASSUME NEW T, 0 \in T, \A n \in Nat : n \in T => n + 1 \in T
  PROVE  \A n \in Nat : n \in T
<1>1. SUFFICES ASSUME Nat \ T # {} PROVE FALSE OBVIOUS
<1>2. PICK n \in Nat \ T : \A m \in Nat \ T : n <= m
  BY <1>1, LeastOf
<1>3. n # 0 /\ n - 1 \in Nat /\ n - 1 < n
  BY <1>2
<1>4. n - 1 \in T
  BY <1>2, <1>3
<1>5. (n - 1) + 1 = n
  BY <1>2
<1> QED BY <1>2, <1>3, <1>4, <1>5

\* A set with the empty sequence and with every sequence of its own that one
\* element is appended to has all of them.
LEMMA SeqInduct ==
  ASSUME NEW S, NEW T, <<>> \in T,
         \A s \in Seq(S), x \in S : s \in T => Append(s, x) \in T
  PROVE  \A s \in Seq(S) : s \in T
<1> DEFINE U == {n \in Nat : \A s \in Seq(S) : Len(s) = n => s \in T}
<1>1. 0 \in U
  BY EmptySeq
<1>2. ASSUME NEW n \in Nat, n \in U PROVE n + 1 \in U
  <2> SUFFICES ASSUME NEW s \in Seq(S), Len(s) = n + 1 PROVE s \in T
    OBVIOUS
  <2>1. PICK r \in Seq(S), x \in S : s = Append(r, x)
    BY SequenceEmptyOrAppend
  <2>2. Len(r) = n
    BY <2>1
  <2> QED BY <1>2, <2>1, <2>2
<1> HIDE DEF U
<1>3. \A n \in Nat : n \in U
  BY <1>1, <1>2, NatInduct
<1> QED BY <1>3, LenProperties DEF U

-----------------------------------------------------------------------------
(* The fold.                                                               *)

Folds(seq, w) ==
  w = [s \in SUBSET DOMAIN seq |->
         IF s = {} THEN Base ELSE Step(w[s \ {Max(s)}], seq[Max(s)])]

LEMMA IsFold == ASSUME NEW seq PROVE Fold(seq) = (CHOOSE w : Folds(seq, w))[DOMAIN seq]
BY DEF Fold, FoldLeft, MapThenFoldSet, Folds

\* The last index of a sequence is the greatest.
LEMMA MaxOfInterval ==
  ASSUME NEW n \in Nat, NEW s \in SUBSET (1..(n + 1)), n + 1 \in s
  PROVE  Max(s) = n + 1
<1>1. \A y \in s : n + 1 >= y
  OBVIOUS
<1>2. \A x \in s : (\A y \in s : x >= y) => x = n + 1
  OBVIOUS
<1> QED BY <1>1, <1>2, Zenon DEF Max

LEMMA MaxIsIn ==
  ASSUME NEW n \in Nat, NEW s \in SUBSET (1..n), s # {} PROVE Max(s) \in s
<1> DEFINE T == {m \in Nat : \A r \in SUBSET (1..m) : r # {} => Max(r) \in r}
<1>1. 0 \in T
  <2>1. 1..0 = {}
    OBVIOUS
  <2> QED BY <2>1
<1>2. ASSUME NEW m \in Nat, m \in T PROVE m + 1 \in T
  <2> SUFFICES ASSUME NEW r \in SUBSET (1..(m + 1)), r # {} PROVE Max(r) \in r
    OBVIOUS
  <2>1. CASE m + 1 \in r
    BY <2>1, MaxOfInterval
  <2>2. CASE m + 1 \notin r
    <3>1. r \in SUBSET (1..m)
      BY <2>2
    <3> QED BY <1>2, <3>1
  <2> QED BY <2>1, <2>2
<1> HIDE DEF T
<1>3. \A m \in Nat : m \in T
  BY <1>1, <1>2, NatInduct
<1> QED BY <1>3 DEF T

\* The equation of the fold has a solution, however long the sequence.
LEMMA FoldExists == ASSUME NEW S, NEW seq \in Seq(S) PROVE \E w : Folds(seq, w)
<1> DEFINE T == {s \in Seq(S) : \E w : Folds(s, w)}
<1>1. <<>> \in T
  <2> DEFINE w == [s \in SUBSET DOMAIN <<>> |-> Base]
  <2>1. Folds(<<>>, w)
    BY DEF Folds
  <2> QED BY <2>1, EmptySeq
<1>2. ASSUME NEW r \in Seq(S), NEW x \in S, r \in T PROVE Append(r, x) \in T
  <2>1. PICK w : Folds(r, w)
    BY <1>2
  <2> DEFINE n == Len(r)
             all == Append(r, x)
             v == [s \in SUBSET (1..(n + 1)) |->
                     IF n + 1 \in s THEN Step(w[s \ {n + 1}], x) ELSE w[s]]
  <2>2. n \in Nat /\ DOMAIN r = 1..n /\ DOMAIN all = 1..(n + 1) /\ all \in Seq(S)
        /\ all[n + 1] = x /\ \A i \in 1..n : all[i] = r[i]
    BY AppendProperties, LenProperties
  <2>3. ASSUME NEW s \in SUBSET (1..(n + 1)), n + 1 \in s
        PROVE  v[s] = Step(v[s \ {Max(s)}], all[Max(s)])
    <3>1. Max(s) = n + 1
      BY <2>2, <2>3, MaxOfInterval
    <3>2. v[s \ {n + 1}] = w[s \ {n + 1}]
      OBVIOUS
    <3> QED BY <2>2, <2>3, <3>1, <3>2
  <2>4. ASSUME NEW s \in SUBSET (1..(n + 1)), n + 1 \notin s, s # {}
        PROVE  v[s] = Step(v[s \ {Max(s)}], all[Max(s)])
    <3>1. s \in SUBSET (1..n)
      BY <2>2, <2>4
    <3>2. Max(s) \in s
      BY <2>2, <2>4, <3>1, MaxIsIn
    <3>3. w[s] = Step(w[s \ {Max(s)}], r[Max(s)])
      BY <2>1, <2>2, <2>4, <3>1 DEF Folds
    <3>4. v[s] = w[s] /\ v[s \ {Max(s)}] = w[s \ {Max(s)}]
      BY <2>4
    <3>5. all[Max(s)] = r[Max(s)]
      BY <2>2, <3>1, <3>2
    <3> QED BY <3>3, <3>4, <3>5
  <2>5. v[{}] = Base
    <3>1. w[{}] = Base
      BY <2>1, <2>2 DEF Folds
    <3> QED BY <3>1
  <2>6. v = [s \in SUBSET (1..(n + 1)) |-> v[s]]
    OBVIOUS
  <2> HIDE DEF v
  <2>7. Folds(all, v)
    BY <2>2, <2>3, <2>4, <2>5, <2>6 DEF Folds
  <2> QED BY <2>2, <2>7
<1> HIDE DEF T
<1>3. \A s \in Seq(S) : s \in T
  BY <1>1, <1>2, SeqInduct
<1> QED BY <1>3 DEF T

\* What is folded first is folded alike, whatever follows it.
LEMMA FoldsAlike ==
  ASSUME NEW S, NEW r \in Seq(S), NEW x \in S, NEW w, NEW v,
         Folds(r, w), Folds(Append(r, x), v)
  PROVE  w[1..Len(r)] = v[1..Len(r)]
<1> DEFINE T == {n \in Nat : n <= Len(r) => w[1..n] = v[1..n]}
           all == Append(r, x)
<1>1. Len(r) \in Nat /\ DOMAIN r = 1..Len(r) /\ DOMAIN all = 1..(Len(r) + 1)
      /\ \A i \in 1..Len(r) : all[i] = r[i]
  BY AppendProperties, LenProperties
<1>2. 0 \in T
  <2>1. 1..0 = {}
    OBVIOUS
  <2>2. w[{}] = Base /\ v[{}] = Base
    BY <1>1 DEF Folds
  <2> QED BY <2>1, <2>2
<1>3. ASSUME NEW n \in Nat, n \in T PROVE n + 1 \in T
  <2> SUFFICES ASSUME n + 1 <= Len(r) PROVE w[1..(n + 1)] = v[1..(n + 1)]
    OBVIOUS
  <2>1. Max(1..(n + 1)) = n + 1 /\ (1..(n + 1)) \ {n + 1} = 1..n /\ 1..(n + 1) # {}
    BY MaxOfInterval
  <2>2. 1..(n + 1) \in SUBSET DOMAIN r /\ 1..(n + 1) \in SUBSET DOMAIN all
    BY <1>1
  <2> DEFINE s == 1..(n + 1)
  <2> HIDE DEF s, all
  <2>3. w[s] = Step(w[s \ {Max(s)}], r[Max(s)])
    BY <2>1, <2>2 DEF Folds, s
  <2>4. v[s] = Step(v[s \ {Max(s)}], all[Max(s)])
    BY <2>1, <2>2 DEF Folds, s, all
  <2>5. w[1..n] = v[1..n]
    BY <1>1, <1>3
  <2>6. all[n + 1] = r[n + 1]
    BY <1>1
  <2>7. Max(s) = n + 1 /\ s \ {Max(s)} = 1..n
    BY <2>1 DEF s
  <2>8. w[s] = v[s]
    BY <2>3, <2>4, <2>5, <2>6, <2>7
  <2> QED BY <2>8 DEF s
<1> HIDE DEF T
<1>4. \A n \in Nat : n \in T
  BY <1>2, <1>3, NatInduct
<1> QED BY <1>1, <1>4 DEF T

\* A fold of nothing is the base, and one more element one more step.
LEMMA FoldEmpty == Fold(<<>>) = Base
<1>1. PICK w : Folds(<<>>, w)
  BY FoldExists, EmptySeq
<1>2. Folds(<<>>, CHOOSE v : Folds(<<>>, v))
  BY <1>1
<1>3. {} \in SUBSET DOMAIN <<>> /\ DOMAIN <<>> = {}
  OBVIOUS
<1>4. \A v : Folds(<<>>, v) => v[{}] = Base
  BY <1>3 DEF Folds
<1> QED BY <1>2, <1>3, <1>4, IsFold

LEMMA FoldAppend ==
  ASSUME NEW S, NEW r \in Seq(S), NEW x \in S
  PROVE  Fold(Append(r, x)) = Step(Fold(r), x)
<1> DEFINE all == Append(r, x)
           n == Len(r)
           w == CHOOSE u : Folds(r, u)
           v == CHOOSE u : Folds(all, u)
<1>1. n \in Nat /\ DOMAIN r = 1..n /\ DOMAIN all = 1..(n + 1)
      /\ all \in Seq(S) /\ all[n + 1] = x
  BY AppendProperties, LenProperties
<1>2. Folds(r, w) /\ Folds(all, v)
  BY <1>1, FoldExists
<1>3. Fold(r) = w[1..n] /\ Fold(all) = v[1..(n + 1)]
  BY <1>1, IsFold
<1> HIDE DEF w, v
<1>4. w[1..n] = v[1..n]
  BY <1>2, FoldsAlike
<1>5. Max(1..(n + 1)) = n + 1 /\ (1..(n + 1)) \ {n + 1} = 1..n /\ 1..(n + 1) # {}
  BY <1>1, MaxOfInterval
<1>6. v[1..(n + 1)] = Step(v[1..n], x)
  BY <1>1, <1>2, <1>5 DEF Folds
<1> QED BY <1>3, <1>4, <1>6

-----------------------------------------------------------------------------
(* Sequences of sequences, put in one.                                     *)

Flattens(ss, w) ==
  w = [i \in 1..Len(ss) |-> IF i = 1 THEN ss[i] ELSE w[i - 1] \o ss[i]]

LEMMA FlattensAt ==
  ASSUME NEW ss, NEW w, Flattens(ss, w)
  PROVE  \A i \in 1..Len(ss) : w[i] = IF i = 1 THEN ss[i] ELSE w[i - 1] \o ss[i]
BY DEF Flattens

LEMMA IsFlat ==
  ASSUME NEW ss, Len(ss) # 0
  PROVE  FlattenSeq(ss) = (CHOOSE w : Flattens(ss, w))[Len(ss)]
BY DEF FlattenSeq, Flattens

LEMMA FlattenExists == ASSUME NEW S, NEW ss \in Seq(S) PROVE \E w : Flattens(ss, w)
<1> DEFINE T == {s \in Seq(S) : \E w : Flattens(s, w)}
<1>1. <<>> \in T
  <2>1. 1..Len(<<>>) = {}
    OBVIOUS
  <2>2. Flattens(<<>>, [i \in {} |-> 0])
    BY <2>1 DEF Flattens
  <2> QED BY <2>2, EmptySeq
<1>2. ASSUME NEW r \in Seq(S), NEW x \in S, r \in T PROVE Append(r, x) \in T
  <2>1. PICK w : Flattens(r, w)
    BY <1>2
  <2> DEFINE n == Len(r)
             all == Append(r, x)
             v == [i \in 1..(n + 1) |->
                     IF i = n + 1 THEN (IF n = 0 THEN x ELSE w[n] \o x) ELSE w[i]]
  <2>2. n \in Nat /\ Len(all) = n + 1 /\ all \in Seq(S)
        /\ all[n + 1] = x /\ \A i \in 1..n : all[i] = r[i]
    BY AppendProperties, LenProperties
  <2>3. \A i \in 1..n : v[i] = w[i] /\ (i # 1 => v[i - 1] = w[i - 1])
    BY <2>2
  <2>4. v[n + 1] = (IF n = 0 THEN x ELSE w[n] \o x) /\ (n # 0 => v[n] = w[n])
    BY <2>2
  <2>5. \A i \in 1..n : w[i] = IF i = 1 THEN r[i] ELSE w[i - 1] \o r[i]
    BY <2>1 DEF Flattens
  <2>6. v = [i \in 1..(n + 1) |-> v[i]]
    OBVIOUS
  <2> HIDE DEF v, all, n
  <2>7. ASSUME NEW i \in 1..(n + 1)
        PROVE  v[i] = IF i = 1 THEN all[i] ELSE v[i - 1] \o all[i]
    <3>1. CASE i \in 1..n
      BY <2>2, <2>3, <2>5, <3>1
    <3>2. CASE i = n + 1
      <4>1. (n + 1) - 1 = n /\ (n + 1 = 1 <=> n = 0)
        BY <2>2
      <4> QED BY <2>2, <2>4, <3>2, <4>1
    <3> QED BY <2>2, <3>1, <3>2
  <2>8. Flattens(all, v)
    BY <2>2, <2>6, <2>7 DEF Flattens
  <2> QED BY <2>2, <2>8 DEF all
<1> HIDE DEF T
<1>3. \A s \in Seq(S) : s \in T
  BY <1>1, <1>2, SeqInduct
<1> QED BY <1>3 DEF T

LEMMA FlattensAlike ==
  ASSUME NEW S, NEW r \in Seq(S), NEW x \in S, NEW w, NEW v,
         Flattens(r, w), Flattens(Append(r, x), v), Len(r) # 0
  PROVE  w[Len(r)] = v[Len(r)]
<1> DEFINE T == {n \in Nat : n + 1 <= Len(r) => w[n + 1] = v[n + 1]}
           all == Append(r, x)
<1>1. Len(r) \in Nat /\ Len(all) = Len(r) + 1
      /\ \A i \in 1..Len(r) : all[i] = r[i]
  BY AppendProperties, LenProperties
<1>2. \A i \in 1..Len(r) : w[i] = IF i = 1 THEN r[i] ELSE w[i - 1] \o r[i]
  BY DEF Flattens
<1>8. Flattens(all, v)
  OBVIOUS
<1> HIDE DEF all
<1>3. \A i \in 1..Len(r) : v[i] = IF i = 1 THEN all[i] ELSE v[i - 1] \o all[i]
  <2>1. \A i \in 1..Len(all) : v[i] = IF i = 1 THEN all[i] ELSE v[i - 1] \o all[i]
    BY <1>8, FlattensAt
  <2> QED BY <1>1, <2>1
<1>4. 0 \in T
  BY <1>1, <1>2, <1>3
<1>5. ASSUME NEW n \in Nat, n \in T PROVE n + 1 \in T
  <2> SUFFICES ASSUME (n + 1) + 1 <= Len(r) PROVE w[(n + 1) + 1] = v[(n + 1) + 1]
    OBVIOUS
  <2>1. w[n + 1] = v[n + 1]
    BY <1>1, <1>5
  <2>2. (n + 1) + 1 \in 1..Len(r) /\ ((n + 1) + 1) - 1 = n + 1 /\ (n + 1) + 1 # 1
    BY <1>1
  <2> QED BY <1>1, <1>2, <1>3, <2>1, <2>2
<1> HIDE DEF T
<1>6. \A n \in Nat : n \in T
  BY <1>4, <1>5, NatInduct
<1>7. Len(r) - 1 \in T /\ (Len(r) - 1) + 1 = Len(r)
  BY <1>1, <1>6
<1> QED BY <1>1, <1>7 DEF T

LEMMA FlattenStep ==
  /\ FlattenSeq(<<>>) = <<>>
  /\ \A E : \A ss \in Seq(Seq(E)), s \in Seq(E) :
        FlattenSeq(Append(ss, s)) = FlattenSeq(ss) \o s
<1>1. FlattenSeq(<<>>) = <<>>
  BY DEF FlattenSeq
<1>2. ASSUME NEW E, NEW ss \in Seq(Seq(E)), NEW s \in Seq(E)
      PROVE  FlattenSeq(Append(ss, s)) = FlattenSeq(ss) \o s
  <2> DEFINE all == Append(ss, s)
             n == Len(ss)
             w == CHOOSE u : Flattens(ss, u)
             v == CHOOSE u : Flattens(all, u)
  <2>1. n \in Nat /\ Len(all) = n + 1 /\ all \in Seq(Seq(E)) /\ all[n + 1] = s
    BY AppendProperties, LenProperties
  <2>2. Flattens(ss, w) /\ Flattens(all, v)
    BY <2>1, FlattenExists
  <2>9. Flattens(ss, w) /\ Flattens(Append(ss, s), v)
    BY <2>2
  <2> SUFFICES FlattenSeq(all) = FlattenSeq(ss) \o s
    OBVIOUS
  <2> HIDE DEF all
  <2>3. FlattenSeq(all) = v[n + 1]
    BY <2>1, IsFlat
  <2>4. n # 0 => FlattenSeq(ss) = w[n]
    BY <2>1, IsFlat
  <2> HIDE DEF w, v
  <2>5. v[n + 1] = IF n + 1 = 1 THEN all[n + 1] ELSE v[(n + 1) - 1] \o all[n + 1]
    <3>1. \A i \in 1..Len(all) : v[i] = IF i = 1 THEN all[i] ELSE v[i - 1] \o all[i]
      BY <2>2, FlattensAt
    <3> QED BY <2>1, <3>1
  <2>6. n # 0 => w[n] = v[n]
    BY <2>9, FlattensAlike
  <2>7. CASE n = 0
    <3>1. ss = <<>>
      BY <2>7, EmptySeq
    <3>2. <<>> \o s = s
      OBVIOUS
    <3> QED BY <1>1, <2>1, <2>3, <2>5, <2>7, <3>1, <3>2
  <2>8. CASE n # 0
    <3>1. (n + 1) - 1 = n /\ n + 1 # 1
      BY <2>1, <2>8
    <3> QED BY <2>1, <2>3, <2>4, <2>5, <2>6, <2>8, <3>1
  <2> QED BY <2>7, <2>8
<1> QED BY <1>1, <1>2

LEMMA FlattenType ==
  ASSUME NEW E, NEW ss \in Seq(Seq(E)) PROVE FlattenSeq(ss) \in Seq(E)
<1> DEFINE T == {s \in Seq(Seq(E)) : FlattenSeq(s) \in Seq(E)}
<1>1. <<>> \in T
  BY FlattenStep, EmptySeq
<1>2. ASSUME NEW s \in Seq(Seq(E)), NEW x \in Seq(E), s \in T PROVE Append(s, x) \in T
  <2>1. FlattenSeq(Append(s, x)) = FlattenSeq(s) \o x
    BY FlattenStep
  <2> QED BY <1>2, <2>1, ConcatProperties, AppendProperties
<1> HIDE DEF T
<1>3. \A s \in Seq(Seq(E)) : s \in T
  BY <1>1, <1>2, SeqInduct
<1> QED BY <1>3 DEF T

LEMMA FlattenConcat ==
  ASSUME NEW E, NEW ss \in Seq(Seq(E)), NEW tt \in Seq(Seq(E))
  PROVE  FlattenSeq(ss \o tt) = FlattenSeq(ss) \o FlattenSeq(tt)
<1> DEFINE T == {t \in Seq(Seq(E)) : FlattenSeq(ss \o t) = FlattenSeq(ss) \o FlattenSeq(t)}
<1>1. <<>> \in T
  <2>1. ss \o <<>> = ss /\ FlattenSeq(ss) \o <<>> = FlattenSeq(ss)
    BY FlattenType, ConcatEmptySeq
  <2> QED BY <2>1, FlattenStep, EmptySeq
<1>2. ASSUME NEW t \in Seq(Seq(E)), NEW x \in Seq(E), t \in T PROVE Append(t, x) \in T
  <2>1. ss \o Append(t, x) = Append(ss \o t, x) /\ ss \o t \in Seq(Seq(E))
    BY ConcatProperties
  <2>2. FlattenSeq(ss \o Append(t, x)) = FlattenSeq(ss \o t) \o x
    BY <2>1, FlattenStep
  <2>3. FlattenSeq(Append(t, x)) = FlattenSeq(t) \o x
    BY FlattenStep
  <2>4. (FlattenSeq(ss) \o FlattenSeq(t)) \o x = FlattenSeq(ss) \o (FlattenSeq(t) \o x)
    BY FlattenType, ConcatAssociative
  <2> QED BY <1>2, <2>2, <2>3, <2>4, AppendProperties
<1> HIDE DEF T
<1>3. \A t \in Seq(Seq(E)) : t \in T
  BY <1>1, <1>2, SeqInduct
<1> QED BY <1>3 DEF T

=============================================================================
