------------------------------ MODULE ListFacts ------------------------------
(***************************************************************************)
(* Facts about sequences, numbers and finite sets that proofs rest on: how *)
(* FlattenSeq unfolds from the right, and induction over numbers and       *)
(* sequences, stated for sets, since no prover here can instantiate the    *)
(* induction theorems of the library, whose parameter is an operator.      *)
(***************************************************************************)
EXTENDS Integers, SequencesExt, FiniteSetTheorems, WellFoundedInduction, TLAPS

(* A set that holds 0 and, with each number, the next one holds them all. *)
LEMMA NatSetInduction ==
  ASSUME NEW T, T \subseteq Nat, 0 \in T, \A n \in T : n + 1 \in T
  PROVE  T = Nat
<1> DEFINE R == {p \in Nat \X Nat : p[1] < p[2]}
<1>1. IsWellFoundedOn(R, Nat)
  BY NatLessThanWellFounded DEF OpToRel
<1>2. SUFFICES ASSUME Nat \ T # {} PROVE FALSE
  OBVIOUS
<1>3. PICK x \in Nat \ T : \A y \in Nat \ T : ~(<<y, x>> \in R)
  <2>1. Nat \ T \subseteq Nat OBVIOUS
  <2> HIDE DEF R
  <2> QED BY <1>1, <1>2, <2>1, WFMin
<1>4. x # 0 /\ x - 1 \in Nat /\ <<x - 1, x>> \in R
  OBVIOUS
<1>5. x - 1 \in T
  BY <1>3, <1>4
<1>6. (x - 1) + 1 \in T
  BY <1>5
<1> QED BY <1>3, <1>6

(* A set of sequences that holds the empty one and, with each sequence,    *)
(* every sequence with one element more holds them all.                    *)
LEMMA SeqSetInduction ==
  ASSUME NEW S, NEW T, <<>> \in T, \A s \in T \cap Seq(S), x \in S : Append(s, x) \in T
  PROVE  Seq(S) \subseteq T
<1> DEFINE N == {n \in Nat : \A s \in Seq(S) : Len(s) = n => s \in T}
<1>1. 0 \in N
  OBVIOUS
<1>2. ASSUME NEW n \in N PROVE n + 1 \in N
  <2> SUFFICES ASSUME NEW s \in Seq(S), Len(s) = n + 1 PROVE s \in T
    OBVIOUS
  <2> DEFINE front == SubSeq(s, 1, n)
  <2>1. front \in Seq(S) /\ Len(front) = n /\ s[n + 1] \in S
    OBVIOUS
  <2>2. s = Append(front, s[n + 1])
    OBVIOUS
  <2>3. front \in T
    BY <2>1
  <2> HIDE DEF front
  <2> QED BY <2>1, <2>2, <2>3
<1>3. N = Nat
  <2> HIDE DEF N
  <2>1. N \subseteq Nat BY DEF N
  <2> QED BY <1>1, <1>2, <2>1, NatSetInduction
<1> QED BY <1>3

(* The function FlattenSeq is defined by exists. *)
LEMMA FlattenFunction ==
  ASSUME NEW S, NEW ss \in Seq(Seq(S)), ss # <<>>
  PROVE  \E f \in [1..Len(ss) -> Seq(S)] :
           /\ f[1] = ss[1]
           /\ \A i \in 1..(Len(ss) - 1) : f[i + 1] = f[i] \o ss[i + 1]
           /\ FlattenSeq(ss) = f[Len(ss)]
<1> DEFINE Flat(f, n) == f = [i \in 1..n |-> IF i = 1 THEN ss[i] ELSE f[i - 1] \o ss[i]]
           N == {n \in Nat : n <= Len(ss) => \E f \in [1..n -> Seq(S)] : Flat(f, n)}
<1>0. Len(ss) \in Nat /\ Len(ss) >= 1 /\ \A i \in 1..Len(ss) : ss[i] \in Seq(S)
  OBVIOUS
<1>1. 0 \in N
  <2> DEFINE f == [i \in 1..0 |-> <<>>]
  <2>1. f \in [1..0 -> Seq(S)] /\ Flat(f, 0)
    OBVIOUS
  <2> QED BY <2>1
<1>2. ASSUME NEW n \in N PROVE n + 1 \in N
  <2>0. Len(ss) \in Nat /\ n \in Nat
    BY <1>0
  <2> HIDE DEF Flat
  <2> SUFFICES ASSUME n + 1 <= Len(ss)
               PROVE  \E f \in [1..(n + 1) -> Seq(S)] : Flat(f, n + 1)
    BY <2>0
  <2>1. PICK g \in [1..n -> Seq(S)] : Flat(g, n)
    <3>1. n <= Len(ss)
      BY <2>0
    <3> QED BY <3>1
  <2> USE DEF Flat
  <2> DEFINE more == IF n = 0 THEN ss[1] ELSE g[n] \o ss[n + 1]
             f == [i \in 1..(n + 1) |-> IF i = n + 1 THEN more ELSE g[i]]
  <2>2. more \in Seq(S)
    OBVIOUS
  <2>3. f \in [1..(n + 1) -> Seq(S)]
    BY <2>2
  <2>4. \A i \in 1..(n + 1) : f[i] = IF i = 1 THEN ss[i] ELSE f[i - 1] \o ss[i]
    <3> SUFFICES ASSUME NEW i \in 1..(n + 1)
                 PROVE  f[i] = IF i = 1 THEN ss[i] ELSE f[i - 1] \o ss[i]
      OBVIOUS
    <3>1. CASE i = n + 1
      BY <3>1
    <3>2. CASE i # n + 1
      <4>1. i \in 1..n /\ f[i] = g[i] /\ (i # 1 => i - 1 \in 1..n /\ f[i - 1] = g[i - 1])
        BY <3>2
      <4>2. g[i] = IF i = 1 THEN ss[i] ELSE g[i - 1] \o ss[i]
        BY <2>1, <4>1
      <4> QED BY <4>1, <4>2
    <3> QED BY <3>1, <3>2
  <2>5. Flat(f, n + 1)
    BY <2>3, <2>4
  <2> HIDE DEF f
  <2> QED BY <2>3, <2>5
<1>3. N = Nat
  <2> HIDE DEF N
  <2>1. N \subseteq Nat BY DEF N
  <2> QED BY <1>1, <1>2, <2>1, NatSetInduction
<1> DEFINE Flatten == CHOOSE f : Flat(f, Len(ss))
<1>4. PICK g \in [1..Len(ss) -> Seq(S)] : Flat(g, Len(ss))
  <2> HIDE DEF Flat
  <2>1. Len(ss) \in N
    BY <1>0, <1>3
  <2> QED BY <1>0, <2>1
<1>5. Flat(Flatten, Len(ss))
  BY <1>4
<1>6. FlattenSeq(ss) = Flatten[Len(ss)]
  BY DEF FlattenSeq
<1> HIDE DEF Flatten
<1> DEFINE M == {n \in Nat : n \in 1..Len(ss) => Flatten[n] \in Seq(S)}
<1>7. ASSUME NEW i \in 1..Len(ss) PROVE Flatten[i] = IF i = 1 THEN ss[i] ELSE Flatten[i - 1] \o ss[i]
  BY <1>5
<1>8. M = Nat
  <2>1. 0 \in M
    OBVIOUS
  <2>2. ASSUME NEW n \in M PROVE n + 1 \in M
    <3> SUFFICES ASSUME n + 1 \in 1..Len(ss) PROVE Flatten[n + 1] \in Seq(S)
      OBVIOUS
    <3>1. Flatten[n + 1] = IF n + 1 = 1 THEN ss[n + 1] ELSE Flatten[n + 1 - 1] \o ss[n + 1]
      BY <1>7
    <3>2. ss[n + 1] \in Seq(S)
      OBVIOUS
    <3>3. n # 0 => Flatten[n] \in Seq(S)
      OBVIOUS
    <3> QED BY <3>1, <3>2, <3>3
  <2> HIDE DEF M
  <2>3. M \subseteq Nat BY DEF M
  <2> QED BY <2>1, <2>2, <2>3, NatSetInduction
<1>9. Flatten \in [1..Len(ss) -> Seq(S)]
  <2>1. \A i \in 1..Len(ss) : i \in Nat
    BY <1>0
  <2>2. \A i \in 1..Len(ss) : Flatten[i] \in Seq(S)
    BY <1>8, <2>1
  <2>3. Flatten = [i \in 1..Len(ss) |-> Flatten[i]]
    BY <1>5
  <2> QED BY <2>2, <2>3
<1>10. Flatten[1] = ss[1] 
         /\ \A i \in 1..(Len(ss) - 1) : Flatten[i + 1] = Flatten[i] \o ss[i + 1]
  <2>1. /\ 1 \in 1..Len(ss)
        /\ \A i \in 1..(Len(ss) - 1) : i + 1 \in 1..Len(ss) /\ i + 1 # 1 /\ (i + 1) - 1 = i
    BY <1>0
  <2>2. ASSUME NEW i \in 1..(Len(ss) - 1) PROVE Flatten[i + 1] = Flatten[i] \o ss[i + 1]
    <3> DEFINE j == i + 1
    <3>1. j \in 1..Len(ss) /\ j # 1 /\ j - 1 = i
      BY <2>1
    <3> HIDE DEF j
    <3>2. Flatten[j] = Flatten[j - 1] \o ss[j]
      BY <1>7, <3>1
    <3>3. Flatten[j] = Flatten[i] \o ss[j]
      BY <3>1, <3>2
    <3> QED BY <3>3 DEF j
  <2> QED BY <1>7, <2>1, <2>2
<1> QED BY <1>6, <1>9, <1>10

LEMMA FlattenEmpty == FlattenSeq(<<>>) = <<>>
BY DEF FlattenSeq

LEMMA FlattenType ==
  ASSUME NEW S, NEW ss \in Seq(Seq(S))
  PROVE  FlattenSeq(ss) \in Seq(S)
<1>1. CASE ss = <<>>
  <2>1. <<>> \in Seq(S)
    OBVIOUS
  <2> QED BY <1>1, <2>1, FlattenEmpty
<1>2. CASE ss # <<>>
  <2>1. Len(ss) \in 1..Len(ss)
    BY <1>2
  <2>2. PICK f \in [1..Len(ss) -> Seq(S)] : FlattenSeq(ss) = f[Len(ss)]
    BY <1>2, FlattenFunction
  <2> QED BY <2>1, <2>2
<1> QED BY <1>1, <1>2

LEMMA AppendFacts ==
  ASSUME NEW S, NEW s \in Seq(S), NEW x \in S
  PROVE  /\ Append(s, x) \in Seq(S) /\ Append(s, x) # <<>>
         /\ Len(s) \in Nat /\ Len(Append(s, x)) = Len(s) + 1
         /\ \A i \in 1..Len(s) : Append(s, x)[i] = s[i] /\ s[i] \in S
         /\ Append(s, x)[Len(s) + 1] = x
         /\ DOMAIN s = 1..Len(s) /\ DOMAIN Append(s, x) = DOMAIN s \cup {Len(s) + 1}
         /\ Len(s) + 1 \notin DOMAIN s
OBVIOUS

LEMMA PrefixFacts ==
  ASSUME NEW S, NEW s \in Seq(S)
  PROVE  /\ Len(s) \in Nat /\ SubSeq(s, 1, 0) = <<>> /\ SubSeq(s, 1, Len(s)) = s
         /\ \A n \in 1..Len(s) :
              /\ SubSeq(s, 1, n - 1) \in Seq(S) /\ s[n] \in S
              /\ SubSeq(s, 1, n) = Append(SubSeq(s, 1, n - 1), s[n])
OBVIOUS

(* What is flattened of one sequence more comes behind. *)
LEMMA FlattenAppend ==
  ASSUME NEW S, NEW ss \in Seq(Seq(S)), NEW s \in Seq(S)
  PROVE  FlattenSeq(Append(ss, s)) = FlattenSeq(ss) \o s
<1> DEFINE n == Len(ss)
           more == Append(ss, s)
<1>1. /\ more \in Seq(Seq(S)) /\ more # <<>> /\ Len(more) = n + 1 /\ more[n + 1] = s
      /\ \A i \in 1..n : more[i] = ss[i] /\ ss[i] \in Seq(S)
      /\ n \in Nat
  BY AppendFacts
<1> HIDE DEF more, n
<1>2. PICK g \in [1..(n + 1) -> Seq(S)] :
        /\ g[1] = more[1]
        /\ \A i \in 1..n : g[i + 1] = g[i] \o more[i + 1]
        /\ FlattenSeq(more) = g[n + 1]
  <2>1. \E f \in [1..Len(more) -> Seq(S)] :
          /\ f[1] = more[1]
          /\ \A i \in 1..(Len(more) - 1) : f[i + 1] = f[i] \o more[i + 1]
          /\ FlattenSeq(more) = f[Len(more)]
    BY <1>1, FlattenFunction
  <2>2. Len(more) = n + 1 /\ Len(more) - 1 = n
    BY <1>1
  <2> QED BY <2>1, <2>2
<1>3. CASE ss = <<>>
  <2>1. FlattenSeq(more) = s
    BY <1>1, <1>2, <1>3 DEF n
  <2>2. <<>> \o s = s
    OBVIOUS
  <2> QED BY <1>3, <2>1, <2>2, FlattenEmpty DEF more
<1>4. CASE ss # <<>>
  <2>1. PICK f \in [1..n -> Seq(S)] :
          /\ f[1] = ss[1]
          /\ \A i \in 1..(n - 1) : f[i + 1] = f[i] \o ss[i + 1]
          /\ FlattenSeq(ss) = f[n]
    BY <1>4, FlattenFunction DEF n
  <2> DEFINE T == {i \in Nat : i \in 1..n => f[i] = g[i]}
  <2>2. 0 \in T
    OBVIOUS
  <2>3. ASSUME NEW i \in T PROVE i + 1 \in T
    <3> SUFFICES ASSUME i + 1 \in 1..n PROVE f[i + 1] = g[i + 1]
      OBVIOUS
    <3>1. CASE i = 0
      BY <1>1, <1>2, <2>1, <3>1
    <3>2. CASE i # 0
      <4>1. i \in 1..n /\ i \in 1..(n - 1)
        BY <1>1, <3>2
      <4>2. f[i + 1] = f[i] \o ss[i + 1] /\ g[i + 1] = g[i] \o more[i + 1]
        BY <1>2, <2>1, <4>1
      <4>3. f[i] = g[i]
        BY <4>1
      <4> QED BY <1>1, <4>2, <4>3
    <3> QED BY <3>1, <3>2
  <2>4. T = Nat
    <3> HIDE DEF T
    <3>1. T \subseteq Nat BY DEF T
    <3> QED BY <2>2, <2>3, <3>1, NatSetInduction
  <2>5. n \in 1..n
    BY <1>1, <1>4 DEF n
  <2>6. f[n] = g[n]
    BY <1>1, <2>4, <2>5
  <2>7. FlattenSeq(more) = g[n] \o s
    BY <1>1, <1>2, <2>5
  <2> QED BY <2>1, <2>6, <2>7 DEF more
<1> QED BY <1>3, <1>4

(* Sequences of which all, or all but one, are empty.                       *)
LEMMA FlattenNothing ==
  ASSUME NEW S, NEW ss \in Seq(Seq(S)), \A i \in DOMAIN ss : ss[i] = <<>>
  PROVE  FlattenSeq(ss) = <<>>
<1> DEFINE T == {tt \in Seq(Seq(S)) : (\A i \in DOMAIN tt : tt[i] = <<>>) => FlattenSeq(tt) = <<>>}
<1>1. <<>> \in T
  BY FlattenEmpty
<1>2. ASSUME NEW tt \in T \cap Seq(Seq(S)), NEW x \in Seq(S) PROVE Append(tt, x) \in T
  <2>1. /\ Append(tt, x) \in Seq(Seq(S)) /\ Len(tt) \in Nat
        /\ \A i \in 1..Len(tt) : Append(tt, x)[i] = tt[i]
        /\ Append(tt, x)[Len(tt) + 1] = x
        /\ DOMAIN tt = 1..Len(tt) /\ DOMAIN Append(tt, x) = DOMAIN tt \cup {Len(tt) + 1}
        /\ Len(tt) + 1 \notin DOMAIN tt
    BY AppendFacts
  <2> SUFFICES ASSUME \A i \in DOMAIN Append(tt, x) : Append(tt, x)[i] = <<>>
               PROVE  FlattenSeq(Append(tt, x)) = <<>>
    BY <2>1
  <2>2. FlattenSeq(tt) = <<>> /\ x = <<>>
    BY <2>1
  <2>3. FlattenSeq(Append(tt, x)) = FlattenSeq(tt) \o x
    BY FlattenAppend
  <2> QED BY <2>2, <2>3
<1>3. Seq(Seq(S)) \subseteq T
  <2> HIDE DEF T
  <2> QED BY <1>1, <1>2, SeqSetInduction
<1> QED BY <1>3

LEMMA FlattenOne ==
  ASSUME NEW S, NEW ss \in Seq(Seq(S)), NEW j \in DOMAIN ss,
         \A i \in DOMAIN ss \ {j} : ss[i] = <<>>
  PROVE  FlattenSeq(ss) = ss[j]
<1> DEFINE Only(tt, k) == k \in DOMAIN tt /\ \A i \in DOMAIN tt \ {k} : tt[i] = <<>>
           T == {tt \in Seq(Seq(S)) : \A k : Only(tt, k) => FlattenSeq(tt) = tt[k]}
<1>1. <<>> \in T
  OBVIOUS
<1>2. ASSUME NEW tt \in T \cap Seq(Seq(S)), NEW x \in Seq(S) PROVE Append(tt, x) \in T
  <2>1. /\ Append(tt, x) \in Seq(Seq(S)) /\ Len(tt) \in Nat
        /\ \A i \in 1..Len(tt) : Append(tt, x)[i] = tt[i] /\ tt[i] \in Seq(S)
        /\ Append(tt, x)[Len(tt) + 1] = x
        /\ DOMAIN tt = 1..Len(tt) /\ DOMAIN Append(tt, x) = DOMAIN tt \cup {Len(tt) + 1}
        /\ Len(tt) + 1 \notin DOMAIN tt
    BY AppendFacts
  <2> SUFFICES ASSUME NEW k, Only(Append(tt, x), k)
               PROVE  FlattenSeq(Append(tt, x)) = Append(tt, x)[k]
    BY <2>1
  <2>2. FlattenSeq(Append(tt, x)) = FlattenSeq(tt) \o x
    BY FlattenAppend
  <2>3. CASE k = Len(tt) + 1
    <3>1. \A i \in DOMAIN tt : tt[i] = <<>>
      BY <2>1, <2>3
    <3>2. FlattenSeq(tt) = <<>>
      BY <3>1, FlattenNothing
    <3>3. <<>> \o x = x
      OBVIOUS
    <3> QED BY <2>1, <2>2, <2>3, <3>2, <3>3
  <2>4. CASE k # Len(tt) + 1
    <3>1. k \in 1..Len(tt) /\ x = <<>> /\ Only(tt, k)
      BY <2>1, <2>4
    <3>2. FlattenSeq(tt) = tt[k] /\ tt[k] \in Seq(S) /\ Append(tt, x)[k] = tt[k]
      BY <2>1, <3>1
    <3>3. tt[k] \o <<>> = tt[k]
      BY <3>2
    <3> QED BY <2>2, <3>1, <3>2, <3>3
  <2> QED BY <2>3, <2>4
<1>3. Seq(Seq(S)) \subseteq T
  <2> HIDE DEF T
  <2> QED BY <1>1, <1>2, SeqSetInduction
<1> QED BY <1>3

MapSeq(f, s) == [i \in DOMAIN s |-> f[s[i]]]

(* Each element of a sequence replaced by the elements a function gives for *)
(* it: how lines are selected, and how settings become lines.               *)
MapFlat(f, s) == FlattenSeq(MapSeq(f, s))

LEMMA MapAppend ==
  ASSUME NEW S, NEW R, NEW f \in [S -> R], NEW s \in Seq(S), NEW x \in S
  PROVE  /\ MapSeq(f, Append(s, x)) = Append(MapSeq(f, s), f[x])
         /\ MapSeq(f, s) \in Seq(R)
BY DEF MapSeq

LEMMA MapFlatEmpty ==
  ASSUME NEW f
  PROVE  MapFlat(f, <<>>) = <<>>
<1>1. MapSeq(f, <<>>) = <<>>
  BY DEF MapSeq
<1> QED BY <1>1, FlattenEmpty DEF MapFlat

LEMMA MapFlatType ==
  ASSUME NEW S, NEW R, NEW f \in [S -> Seq(R)], NEW s \in Seq(S)
  PROVE  MapFlat(f, s) \in Seq(R) /\ MapSeq(f, s) \in Seq(Seq(R))
<1> DEFINE Q == Seq(R)
<1>1. MapSeq(f, s) \in Seq(Q)
  <2>1. f \in [S -> Q]
    OBVIOUS
  <2> HIDE DEF Q
  <2> QED BY <2>1 DEF MapSeq
<1> QED BY <1>1, FlattenType DEF MapFlat

LEMMA MapFlatAppend ==
  ASSUME NEW S, NEW R, NEW f \in [S -> Seq(R)], NEW s \in Seq(S), NEW x \in S
  PROVE  MapFlat(f, Append(s, x)) = MapFlat(f, s) \o f[x]
<1>1. f[x] \in Seq(R) /\ MapSeq(f, s) \in Seq(Seq(R))
  BY MapFlatType
<1>2. MapSeq(f, Append(s, x)) = Append(MapSeq(f, s), f[x])
  <2> DEFINE Q == Seq(R)
  <2>1. f \in [S -> Q]
    OBVIOUS
  <2> HIDE DEF Q
  <2> QED BY <2>1 DEF MapSeq
<1>3. FlattenSeq(Append(MapSeq(f, s), f[x])) = FlattenSeq(MapSeq(f, s)) \o f[x]
  BY <1>1, FlattenAppend
<1> QED BY <1>2, <1>3 DEF MapFlat

(* Functions that give a list for each element: their set has a name of its *)
(* own, by which the provers find the sets that a lemma is about.           *)
ListMaps(S, R) == [S -> Seq(R)]

LEMMA ListMapType ==
  ASSUME NEW S, NEW R, NEW f \in ListMaps(S, R), NEW s \in Seq(S)
  PROVE  MapFlat(f, s) \in Seq(R)
<1>1. f \in [S -> Seq(R)]
  BY DEF ListMaps
<1> QED BY <1>1, MapFlatType

LEMMA ListMapConcat ==
  ASSUME NEW S, NEW R, NEW f \in ListMaps(S, R), NEW s \in Seq(S), NEW t \in Seq(S)
  PROVE  MapFlat(f, s \o t) = MapFlat(f, s) \o MapFlat(f, t)
<1>0. f \in [S -> Seq(R)]
  BY DEF ListMaps
<1> DEFINE T == {u \in Seq(S) : MapFlat(f, s \o u) = MapFlat(f, s) \o MapFlat(f, u)}
<1>1. MapFlat(f, s) \in Seq(R)
  BY ListMapType
<1>2. <<>> \in T
  <2>1. s \o <<>> = s /\ MapFlat(f, s) \o <<>> = MapFlat(f, s)
    BY <1>1
  <2>2. MapFlat(f, s \o <<>>) = MapFlat(f, s) /\ MapFlat(f, <<>>) = <<>> /\ <<>> \in Seq(S)
    BY <1>0, <2>1, MapFlatEmpty
  <2> QED BY <2>1, <2>2
<1>3. ASSUME NEW u \in T \cap Seq(S), NEW x \in S PROVE Append(u, x) \in T
  <2>1. s \o Append(u, x) = Append(s \o u, x) /\ s \o u \in Seq(S) /\ Append(u, x) \in Seq(S)
    OBVIOUS
  <2>2. /\ MapFlat(f, Append(s \o u, x)) = MapFlat(f, s \o u) \o f[x]
        /\ MapFlat(f, Append(u, x)) = MapFlat(f, u) \o f[x]
    BY <1>0, <2>1, MapFlatAppend
  <2>3. MapFlat(f, u) \in Seq(R) /\ f[x] \in Seq(R)
    <3>1. f[x] \in Seq(R)
      BY <1>0
    <3>2. u \in Seq(S)
      OBVIOUS
    <3> HIDE DEF T
    <3>3. MapFlat(f, u) \in Seq(R)
      BY <3>2, ListMapType
    <3> QED BY <3>1, <3>3
  <2>4. (MapFlat(f, s) \o MapFlat(f, u)) \o f[x] = MapFlat(f, s) \o (MapFlat(f, u) \o f[x])
    <3> DEFINE a == MapFlat(f, s)
               b == MapFlat(f, u)
               c == f[x]
    <3>1. a \in Seq(R) /\ b \in Seq(R) /\ c \in Seq(R)
      BY <1>1, <2>3
    <3> HIDE DEF T, a, b, c
    <3>2. (a \o b) \o c = a \o (b \o c)
      BY <3>1
    <3> QED BY <3>2 DEF a, b, c
  <2>5. MapFlat(f, s \o u) = MapFlat(f, s) \o MapFlat(f, u)
    OBVIOUS
  <2> QED BY <2>1, <2>2, <2>4, <2>5
<1>4. Seq(S) \subseteq T
  <2> HIDE DEF T
  <2> QED BY <1>2, <1>3, SeqSetInduction
<1> QED BY <1>4

LEMMA MapFlatConcat ==
  ASSUME NEW S, NEW R, NEW f \in [S -> Seq(R)], NEW s \in Seq(S), NEW t \in Seq(S)
  PROVE  MapFlat(f, s \o t) = MapFlat(f, s) \o MapFlat(f, t)
<1>1. f \in ListMaps(S, R)
  BY DEF ListMaps
<1> QED BY <1>1, ListMapConcat

(* Of what is flattened, each part may be mapped on its own.                *)
LEMMA MapFlatFlatten ==
  ASSUME NEW S, NEW R, NEW f \in [S -> Seq(R)], NEW ss \in Seq(Seq(S))
  PROVE  MapFlat(f, FlattenSeq(ss)) = FlattenSeq([i \in DOMAIN ss |-> MapFlat(f, ss[i])])
<1> DEFINE Q == Seq(S)
           P == Seq(R)
           Map(tt) == [i \in DOMAIN tt |-> MapFlat(f, tt[i])]
           T == {tt \in Seq(Q) : MapFlat(f, FlattenSeq(tt)) = FlattenSeq(Map(tt))}
<1>1. <<>> \in T
  <2>1. Map(<<>>) = <<>>
    OBVIOUS
  <2>2. FlattenSeq(Map(<<>>)) = <<>> /\ MapFlat(f, FlattenSeq(<<>>)) = <<>>
    <3> HIDE DEF Map
    <3> QED BY <2>1, FlattenEmpty, MapFlatEmpty
  <2> QED BY <2>2
<1>2. ASSUME NEW tt \in T \cap Seq(Q), NEW x \in Q PROVE Append(tt, x) \in T
  <2>1. \A y \in Q : MapFlat(f, y) \in P
    BY MapFlatType
  <2>2. Map(Append(tt, x)) = Append(Map(tt), MapFlat(f, x)) /\ Map(tt) \in Seq(P)
    <3>1. tt \in Seq(Q)
      OBVIOUS
    <3> DEFINE g == [y \in Q |-> MapFlat(f, y)]
    <3>2. g \in [Q -> P]
      BY <2>1
    <3>3. \A uu \in Seq(Q) : Map(uu) = MapSeq(g, uu)
      <4> HIDE DEF Q, P, T
      <4> QED BY DEF MapSeq
    <3>4. g[x] = MapFlat(f, x) /\ Append(tt, x) \in Seq(Q)
      <4> HIDE DEF Q, P, T
      <4> QED BY <3>1
    <3> HIDE DEF g, Map, Q, P, T
    <3>5. MapSeq(g, Append(tt, x)) = Append(MapSeq(g, tt), g[x]) /\ MapSeq(g, tt) \in Seq(P)
      BY <3>1, <3>2, MapAppend
    <3> QED BY <3>1, <3>3, <3>4, <3>5
  <2>3. FlattenSeq(Append(tt, x)) = FlattenSeq(tt) \o x /\ FlattenSeq(tt) \in Seq(S)
    <3>1. tt \in Seq(Seq(S)) /\ x \in Seq(S)
      OBVIOUS
    <3> HIDE DEF Map, P, Q, T
    <3>2. FlattenSeq(Append(tt, x)) = FlattenSeq(tt) \o x
      BY <3>1, FlattenAppend
    <3>3. FlattenSeq(tt) \in Seq(S)
      BY <3>1, FlattenType
    <3> QED BY <3>2, <3>3
  <2>4. MapFlat(f, FlattenSeq(tt) \o x) = MapFlat(f, FlattenSeq(tt)) \o MapFlat(f, x)
    <3>1. FlattenSeq(tt) \in Seq(S) /\ x \in Seq(S) /\ f \in ListMaps(S, R)
      BY <2>3 DEF ListMaps
    <3> HIDE DEF Map, P, Q, T
    <3> QED BY <3>1, ListMapConcat
  <2>5. FlattenSeq(Append(Map(tt), MapFlat(f, x))) = FlattenSeq(Map(tt)) \o MapFlat(f, x)
    <3> HIDE DEF Map
    <3> QED BY <2>1, <2>2, FlattenAppend
  <2>6. Append(tt, x) \in Seq(Q) /\ MapFlat(f, FlattenSeq(tt)) = FlattenSeq(Map(tt))
    <3>1. Append(tt, x) \in Seq(Q)
      <4> HIDE DEF Q, T
      <4> QED OBVIOUS
    <3> QED BY <3>1
  <2>7. MapFlat(f, FlattenSeq(Append(tt, x))) = FlattenSeq(Map(Append(tt, x)))
    <3> HIDE DEF Map
    <3> QED BY <2>2, <2>3, <2>4, <2>5, <2>6
  <2> HIDE DEF Map, Q
  <2> QED BY <2>6, <2>7
<1>3. Seq(Q) \subseteq T
  <2> HIDE DEF T
  <2> QED BY <1>1, <1>2, SeqSetInduction
<1> QED BY <1>3

LEMMA ListMapFlatten ==
  ASSUME NEW S, NEW R, NEW f \in ListMaps(S, R), NEW ss \in Seq(Seq(S))
  PROVE  MapFlat(f, FlattenSeq(ss)) = FlattenSeq([i \in DOMAIN ss |-> MapFlat(f, ss[i])])
<1>1. f \in [S -> Seq(R)]
  BY DEF ListMaps
<1> QED BY <1>1, MapFlatFlatten

(* A function that keeps each element of a sequence keeps the sequence.     *)
LEMMA MapFlatSame ==
  ASSUME NEW S, NEW R, NEW f \in [S -> Seq(R)], NEW s \in Seq(S),
         \A i \in DOMAIN s : f[s[i]] = <<s[i]>>
  PROVE  MapFlat(f, s) = s
<1> DEFINE Kept == {x \in S : f[x] = <<x>>}
           T == {t \in Seq(Kept) : MapFlat(f, t) = t}
<1>1. <<>> \in T
  BY MapFlatEmpty
<1>2. ASSUME NEW t \in T \cap Seq(Kept), NEW x \in Kept PROVE Append(t, x) \in T
  <2>1. t \in Seq(S) /\ x \in S
    OBVIOUS
  <2>2. MapFlat(f, Append(t, x)) = t \o <<x>>
    <3>1. MapFlat(f, Append(t, x)) = MapFlat(f, t) \o f[x]
      BY <2>1, MapFlatAppend
    <3>2. MapFlat(f, t) = t /\ f[x] = <<x>>
      OBVIOUS
    <3> QED BY <3>1, <3>2
  <2>3. t \o <<x>> = Append(t, x) /\ Append(t, x) \in Seq(Kept)
    OBVIOUS
  <2> QED BY <2>2, <2>3
<1>3. Seq(Kept) \subseteq T
  <2> HIDE DEF T
  <2> QED BY <1>1, <1>2, SeqSetInduction
<1>4. s \in Seq(Kept)
  OBVIOUS
<1> QED BY <1>3, <1>4

LEMMA FlattenSingles ==
  ASSUME NEW S, NEW s \in Seq(S)
  PROVE  FlattenSeq([i \in DOMAIN s |-> <<s[i]>>]) = s
<1> DEFINE f == [x \in S |-> <<x>>]
<1>1. f \in [S -> Seq(S)] /\ \A i \in DOMAIN s : f[s[i]] = <<s[i]>>
  OBVIOUS
<1>2. [i \in DOMAIN s |-> f[s[i]]] = [i \in DOMAIN s |-> <<s[i]>>]
  BY <1>1
<1> HIDE DEF f
<1>3. MapFlat(f, s) = s
  BY <1>1, MapFlatSame
<1>4. FlattenSeq([i \in DOMAIN s |-> f[s[i]]]) = s
  BY <1>3 DEF MapFlat, MapSeq
<1> QED BY <1>2, <1>4

-----------------------------------------------------------------------------
(* Sequences that are put together.                                         *)

(* Two sequences are the same if they are as long and have the same at each *)
(* place.                                                                   *)
LEMMA SameSequence ==
  ASSUME NEW S, NEW s \in Seq(S), NEW t \in Seq(S), Len(s) = Len(t), \A i \in 1..Len(t) : s[i] = t[i]
  PROVE  s = t
OBVIOUS

(* A value that is built up along 0..n. *)
Within(step, n, S) == \A i \in 1..n, v \in S : step[<<i, v>>] \in S

Follows(f, n, base, step) == \A i \in 0..n : f[i] = IF i = 0 THEN base ELSE step[<<i, f[i - 1]>>]

(* A value that is built up along 0..n, from a base and a step, exists. *)
LEMMA Recursion ==
  ASSUME NEW S, NEW n \in Nat, NEW base \in S, NEW step, Within(step, n, S)
  PROVE  \E f \in [0..n -> S] : Follows(f, n, base, step)
<1> USE DEF Within
<1> DEFINE Is(f, m) == \A i \in 0..m : f[i] = IF i = 0 THEN base ELSE step[<<i, f[i - 1]>>]
           T == {m \in Nat : m <= n => \E f \in [0..m -> S] : Is(f, m)}
<1>1. 0 \in T
  <2> DEFINE f == [i \in 0..0 |-> base]
  <2>1. f \in [0..0 -> S] /\ Is(f, 0)
    OBVIOUS
  <2> HIDE DEF f, Is
  <2> QED BY <2>1
<1>2. ASSUME NEW m \in T PROVE m + 1 \in T
  <2> SUFFICES ASSUME m + 1 <= n PROVE \E f \in [0..(m + 1) -> S] : Is(f, m + 1)
    <3> HIDE DEF Is
    <3> QED OBVIOUS
  <2>1. m \in Nat /\ m <= n /\ m + 1 \in 1..n
    OBVIOUS
  <2>2. PICK g \in [0..m -> S] : Is(g, m)
    <3> HIDE DEF Is
    <3> QED BY <2>1
  <2> DEFINE f == [i \in 0..(m + 1) |-> IF i = m + 1 THEN step[<<m + 1, g[m]>>] ELSE g[i]]
  <2>3. f \in [0..(m + 1) -> S]
    BY <2>1, <2>2
  <2>4. ASSUME NEW i \in 0..(m + 1) PROVE f[i] = IF i = 0 THEN base ELSE step[<<i, f[i - 1]>>]
    <3>1. CASE i = m + 1
      <4>1. f[i] = step[<<i, g[m]>>] /\ f[m] = g[m] /\ i - 1 = m /\ i # 0
        BY <2>1, <3>1
      <4> HIDE DEF f
      <4> QED BY <4>1
    <3>2. CASE i # m + 1 /\ i # 0
      <4>1. i \in 0..m /\ f[i] = g[i] /\ f[i - 1] = g[i - 1]
        BY <2>1, <3>2
      <4>2. g[i] = step[<<i, g[i - 1]>>]
        BY <2>2, <3>2, <4>1
      <4> HIDE DEF f
      <4> QED BY <3>2, <4>1, <4>2
    <3>3. CASE i # m + 1 /\ i = 0
      <4>1. f[i] = g[i] /\ i \in 0..m
        BY <2>1, <3>3
      <4> HIDE DEF f
      <4> QED BY <2>2, <3>3, <4>1
    <3> QED BY <3>1, <3>2, <3>3
  <2> HIDE DEF f
  <2>5. Is(f, m + 1)
    BY <2>4
  <2> HIDE DEF Is
  <2> QED BY <2>3, <2>5
<1>3. T = Nat
  <2> HIDE DEF T
  <2>1. T \subseteq Nat BY DEF T
  <2> QED BY <1>1, <1>2, <2>1, NatSetInduction
<1> HIDE DEF Is
<1>4. \E f \in [0..n -> S] : Is(f, n)
  BY <1>3
<1> QED BY <1>4 DEF Is, Follows

Distinct(s) == \A i, j \in DOMAIN s : s[i] = s[j] => i = j

(* A list without repetitions is as long as its set is large. *)
LEMMA DistinctCardinality ==
  ASSUME NEW S, NEW s \in Seq(S), Distinct(s)
  PROVE  Cardinality(ToSet(s)) = Len(s)
<1> DEFINE f == [i \in 1..Len(s) |-> s[i]]
<1>1. Len(s) \in Nat /\ DOMAIN s = 1..Len(s)
  OBVIOUS
<1>2. f \in Bijection(1..Len(s), ToSet(s))
  BY <1>1 DEF Distinct, Bijection, Injection, IsInjective, Surjection, ToSet
<1>3. ExistsBijection(1..Len(s), ToSet(s))
  BY <1>2 DEF ExistsBijection
<1> HIDE DEF f
<1> QED BY <1>1, <1>3, FS_CountingElements

-----------------------------------------------------------------------------
(* Numbers.                                                                 *)

(* Some number is the least of any. *)
LEMMA LeastOf ==
  ASSUME NEW held, held \subseteq Nat, held # {}
  PROVE  Min(held) \in held /\ \A k \in held : Min(held) <= k
<1> DEFINE R == {p \in Nat \X Nat : p[1] < p[2]}
<1>1. IsWellFoundedOn(R, Nat)
  BY NatLessThanWellFounded DEF OpToRel
<1>2. PICK x \in held : \A y \in held : ~(<<y, x>> \in R)
  <2> HIDE DEF R
  <2> QED BY <1>1, WFMin
<1>3. ASSUME NEW y \in held PROVE x <= y
  <2>1. x \in Nat /\ y \in Nat /\ ~(<<y, x>> \in R)
    BY <1>2
  <2> QED BY <2>1
<1> QED BY <1>3 DEF Min

(* What two sequences have one after the other. *)
LEMMA ConcatFacts ==
  ASSUME NEW S, NEW s \in Seq(S), NEW t \in Seq(S)
  PROVE  /\ s \o t \in Seq(S) /\ Len(s \o t) = Len(s) + Len(t) /\ Len(s) \in Nat /\ Len(t) \in Nat
         /\ \A i \in 1..Len(s) : (s \o t)[i] = s[i]
         /\ \A i \in 1..Len(t) : (s \o t)[Len(s) + i] = t[i]
         /\ s \o <<>> = s /\ <<>> \o s = s
OBVIOUS

(* It does not matter which two of three are put together first. *)
LEMMA ConcatAssoc ==
  ASSUME NEW S, NEW s \in Seq(S), NEW t \in Seq(S), NEW u \in Seq(S)
  PROVE  (s \o t) \o u = s \o (t \o u)
<1> DEFINE a == (s \o t) \o u
           b == s \o (t \o u)
           l == Len(s)
           m == Len(t)
           n == Len(u)
<1>1. a \in Seq(S) /\ b \in Seq(S) /\ Len(a) = l + m + n /\ Len(b) = l + m + n
  OBVIOUS
<1>2. l \in Nat /\ m \in Nat /\ n \in Nat
  OBVIOUS
<1>3. ASSUME NEW i \in 1..(l + m + n) PROVE a[i] = b[i]
  <2>1. CASE i \in 1..l
    BY <1>2, <2>1
  <2>2. CASE i \in (l + 1)..(l + m)
    BY <1>2, <2>2
  <2>3. CASE i \in (l + m + 1)..(l + m + n)
    BY <1>2, <2>3
  <2> HIDE DEF a, b
  <2> HIDE DEF l, m, n
  <2>4. i \in 1..l \/ i \in (l + 1)..(l + m) \/ i \in (l + m + 1)..(l + m + n)
    BY <1>2
  <2> QED BY <2>1, <2>2, <2>3, <2>4
<1> HIDE DEF a, b
<1>4. a = b
  BY <1>1, <1>3, SameSequence
<1> QED BY <1>4 DEF a, b

(* The first elements of two sequences put together: of the first alone, or *)
(* the first and some of the second.                                        *)
LEMMA SubSeqConcat ==
  ASSUME NEW S, NEW s \in Seq(S), NEW t \in Seq(S)
  PROVE  /\ \A k \in 0..Len(s) : SubSeq(s \o t, 1, k) = SubSeq(s, 1, k)
         /\ \A k \in 0..Len(t) : SubSeq(s \o t, 1, Len(s) + k) = s \o SubSeq(t, 1, k)
<1> DEFINE d == s \o t
           m == Len(s)
           n == Len(t)
<1>1. d \in Seq(S) /\ Len(d) = m + n /\ m \in Nat /\ n \in Nat
      /\ (\A i \in 1..m : d[i] = s[i]) /\ (\A i \in 1..n : d[m + i] = t[i])
  BY ConcatFacts
<1> HIDE DEF d
<1>2. ASSUME NEW k \in 0..m PROVE SubSeq(d, 1, k) = SubSeq(s, 1, k)
  <2> DEFINE u == SubSeq(d, 1, k)
             v == SubSeq(s, 1, k)
  <2>1. u \in Seq(S) /\ v \in Seq(S) /\ Len(u) = k /\ Len(v) = k
        /\ \A i \in 1..k : u[i] = d[i] /\ v[i] = s[i]
    BY <1>1
  <2>2. \A i \in 1..k : u[i] = v[i]
    BY <1>1, <2>1
  <2> HIDE DEF u, v
  <2>3. u = v
    BY <2>1, <2>2, SameSequence
  <2> QED BY <2>3 DEF u, v
<1>3. ASSUME NEW k \in 0..n PROVE SubSeq(d, 1, m + k) = s \o SubSeq(t, 1, k)
  <2> DEFINE u == SubSeq(d, 1, m + k)
             w == SubSeq(t, 1, k)
             v == s \o w
  <2>1. u \in Seq(S) /\ Len(u) = m + k /\ \A i \in 1..(m + k) : u[i] = d[i]
    <3> HIDE DEF m, n
    <3> QED BY <1>1
  <2>2. w \in Seq(S) /\ Len(w) = k /\ \A i \in 1..k : w[i] = t[i]
    BY <1>1
  <2> HIDE DEF u, w
  <2> HIDE DEF n
  <2>3. v \in Seq(S) /\ Len(v) = m + k /\ (\A i \in 1..m : v[i] = s[i]) /\ (\A i \in 1..k : v[m + i] = w[i])
    <3>1. w \in Seq(S)
      BY <2>2
    <3>2. /\ s \o w \in Seq(S) /\ Len(s \o w) = Len(s) + Len(w)
          /\ \A i \in 1..Len(s) : (s \o w)[i] = s[i]
          /\ \A i \in 1..Len(w) : (s \o w)[Len(s) + i] = w[i]
      BY <3>1, ConcatFacts
    <3> QED BY <2>2, <3>2
  <2> HIDE DEF v, m, n
  <2>4. ASSUME NEW i \in 1..(m + k) PROVE u[i] = v[i]
    <3>1. CASE i \in 1..m
      BY <1>1, <2>1, <2>3, <3>1
    <3>2. CASE i \notin 1..m
      <4> DEFINE j == i - m
      <4>1. j \in 1..k /\ j \in 1..n /\ i = m + j
        BY <1>1, <3>2
      <4> HIDE DEF j
      <4> QED BY <1>1, <2>1, <2>2, <2>3, <4>1
    <3> QED BY <3>1, <3>2
  <2>5. u = v
    BY <2>1, <2>3, <2>4, SameSequence
  <2> QED BY <2>5 DEF u, v, w
<1> QED BY <1>2, <1>3 DEF d

(* A list of lists, put together, has what each of them has. *)
LEMMA FlattenContents ==
  ASSUME NEW S, NEW ss \in Seq(Seq(S))
  PROVE  ToSet(FlattenSeq(ss)) = UNION {ToSet(ss[i]) : i \in DOMAIN ss}
<1> DEFINE L == Seq(S)
           In(s) == UNION {ToSet(s[i]) : i \in DOMAIN s}
           T == {s \in Seq(L) : ToSet(FlattenSeq(s)) = In(s)}
<1>1. <<>> \in T
  <2>1. <<>> \in Seq(L) /\ DOMAIN <<>> = {} /\ ToSet(<<>>) = {}
    BY DEF ToSet
  <2> QED BY <2>1, FlattenEmpty
<1>2. ASSUME NEW s \in T \cap Seq(L), NEW x \in L PROVE Append(s, x) \in T
  <2> DEFINE a == Append(s, x)
             f == FlattenSeq(s)
  <2>1. /\ a \in Seq(L) /\ DOMAIN a = DOMAIN s \cup {Len(s) + 1} /\ a[Len(s) + 1] = x
        /\ (\A j \in 1..Len(s) : a[j] = s[j]) /\ DOMAIN s = 1..Len(s)
    BY AppendFacts
  <2>2. FlattenSeq(a) = f \o x /\ f \in Seq(S)
    BY FlattenAppend, FlattenType
  <2>3. ToSet(f \o x) = ToSet(f) \cup ToSet(x)
    <3> HIDE DEF f
    <3>1. /\ Len(f \o x) = Len(f) + Len(x) /\ Len(f) \in Nat /\ Len(x) \in Nat /\ f \o x \in Seq(S)
          /\ \A i \in 1..Len(f) : (f \o x)[i] = f[i]
          /\ \A i \in 1..Len(x) : (f \o x)[Len(f) + i] = x[i]
      BY <2>2, ConcatFacts
    <3> DEFINE d == f \o x
    <3> HIDE DEF d
    <3>2. DOMAIN d = 1..(Len(f) + Len(x)) /\ DOMAIN f = 1..Len(f) /\ DOMAIN x = 1..Len(x)
      BY <2>2, <3>1 DEF d
    <3>3. ASSUME NEW y \in ToSet(d) PROVE y \in ToSet(f) \cup ToSet(x)
      <4>1. PICK i \in 1..(Len(f) + Len(x)) : y = d[i]
        BY <3>2 DEF ToSet
      <4>2. CASE i \in 1..Len(f)
        BY <3>1, <3>2, <4>1, <4>2 DEF ToSet, d
      <4>3. CASE i \notin 1..Len(f)
        <5> DEFINE j == i - Len(f)
        <5>1. j \in 1..Len(x) /\ i = Len(f) + j
          BY <3>1, <4>3
        <5> HIDE DEF j
        <5> QED BY <3>1, <3>2, <4>1, <5>1 DEF ToSet, d
      <4> QED BY <4>2, <4>3
    <3>4. ASSUME NEW y \in ToSet(f) PROVE y \in ToSet(d)
      <4>1. PICK i \in 1..Len(f) : y = f[i]
        BY <3>2 DEF ToSet
      <4>2. i \in DOMAIN d /\ d[i] = y
        BY <3>1, <3>2, <4>1 DEF d
      <4> QED BY <4>2 DEF ToSet
    <3>5. ASSUME NEW y \in ToSet(x) PROVE y \in ToSet(d)
      <4>1. PICK i \in 1..Len(x) : y = x[i]
        BY <3>2 DEF ToSet
      <4>2. Len(f) + i \in DOMAIN d /\ d[Len(f) + i] = y
        BY <3>1, <3>2, <4>1 DEF d
      <4> QED BY <4>2 DEF ToSet
    <3> QED BY <3>3, <3>4, <3>5 DEF d
  <2> HIDE DEF a, f
  <2>4. In(a) = In(s) \cup ToSet(x)
    <3>1. \A j \in DOMAIN s : ToSet(a[j]) = ToSet(s[j])
      BY <2>1
    <3> QED BY <2>1, <3>1
  <2>5. ToSet(f) = In(s)
    BY DEF f
  <2> HIDE DEF In, L
  <2> QED BY <2>1, <2>2, <2>3, <2>4, <2>5 DEF a
<1> HIDE DEF T, L, In
<1>3. Seq(L) \subseteq T
  BY <1>1, <1>2, SeqSetInduction
<1>4. ss \in Seq(L)
  BY DEF L
<1>5. ss \in T
  BY <1>3, <1>4
<1> QED BY <1>5 DEF T, In

(* The powers of two of a prefix. *)
LEMMA Powers ==
  ASSUME NEW n \in Int
  PROVE  /\ n = 0 => 2^n = 1
         /\ n = 1 => 2^n = 2
         /\ n = 2 => 2^n = 4
         /\ n = 3 => 2^n = 8
         /\ n = 4 => 2^n = 16
         /\ n = 5 => 2^n = 32
         /\ n = 6 => 2^n = 64
         /\ n = 7 => 2^n = 128
         /\ n = 8 => 2^n = 256
<1>1. n = 0 => 2^n = 1
  OBVIOUS
<1>2. n = 1 => 2^n = 2
  OBVIOUS
<1>3. n = 2 => 2^n = 4
  OBVIOUS
<1>4. n = 3 => 2^n = 8
  OBVIOUS
<1>5. n = 4 => 2^n = 16
  OBVIOUS
<1>6. n = 5 => 2^n = 32
  OBVIOUS
<1>7. n = 6 => 2^n = 64
  OBVIOUS
<1>8. n = 7 => 2^n = 128
  OBVIOUS
<1>9. n = 8 => 2^n = 256
  OBVIOUS
<1> QED BY <1>1, <1>2, <1>3, <1>4, <1>5, <1>6, <1>7, <1>8, <1>9

(* Between two powers of two lies a power of two. *)
LEMMA PowerRatio ==
  ASSUME NEW k \in 0..8, NEW l \in 0..8, k <= l
  PROVE  2^k \in 1..256 /\ 2^(l - k) \in 1..256 /\ 2^l = 2^(l - k) * 2^k
<1> DEFINE d == l - k
<1>1. k \in Int /\ l \in Int /\ d \in 0..8 /\ l = d + k
  OBVIOUS
<1> HIDE DEF d
<1>2. 2^k \in {1, 2, 4, 8, 16, 32, 64, 128, 256} /\ 2^d \in {1, 2, 4, 8, 16, 32, 64, 128, 256}
  BY <1>1, Powers
<1>3. 2^l = 2^d * 2^k
  <2>1. CASE k = 0
    BY <1>1, <2>1, Powers
  <2>2. CASE k = 1
    BY <1>1, <2>2, Powers
  <2>3. CASE k = 2
    BY <1>1, <2>3, Powers
  <2>4. CASE k = 3
    BY <1>1, <2>4, Powers
  <2>5. CASE k = 4
    BY <1>1, <2>5, Powers
  <2>6. CASE k = 5
    BY <1>1, <2>6, Powers
  <2>7. CASE k = 6
    BY <1>1, <2>7, Powers
  <2>8. CASE k = 7
    BY <1>1, <2>8, Powers
  <2>9. CASE k = 8
    BY <1>1, <2>9, Powers
  <2> QED BY <2>1, <2>2, <2>3, <2>4, <2>5, <2>6, <2>7, <2>8, <2>9
<1> QED BY <1>2, <1>3 DEF d

(* Rounding down to a multiple of m changes no quotient by a multiple of m. *)
LEMMA RoundedDown ==
  ASSUME NEW a \in Nat, NEW m \in 1..256, NEW c \in 1..256
  PROVE  /\ ((a \div m) * m) \div (c * m) = a \div (c * m)
         /\ (a \div m) * m \in 0..a
<1> DEFINE d == a \div m
           n == c * m
           q == a \div n
<1>1. d \in Nat /\ d * m <= a /\ a < d * m + m
  OBVIOUS
<1>2. n \in Nat /\ n >= 1
  OBVIOUS
<1> HIDE DEF n
<1>3. q \in Nat /\ q * n <= a /\ a < q * n + n
  BY <1>2
<1> HIDE DEF d, q
<1> DEFINE p == q * c
<1>4. p \in Nat /\ q * n = p * m
  BY <1>3 DEF n
<1> HIDE DEF p
<1>5. p <= d
  <2>1. SUFFICES ASSUME d + 1 <= p PROVE FALSE
    BY <1>1, <1>4
  <2>2. (d + 1) * m <= p * m
    BY <1>1, <1>4, <2>1
  <2>3. (d + 1) * m = d * m + m
    BY <1>1
  <2> QED BY <1>1, <1>3, <1>4, <2>2, <2>3
<1>6. q * n <= d * m
  BY <1>1, <1>3, <1>4, <1>5
<1>7. d * m \in Nat /\ d * m < q * n + n
  BY <1>1, <1>2, <1>3
<1>8. (d * m) \div n = q
  BY <1>2, <1>3, <1>6, <1>7
<1>9. d * m \in 0..a
  BY <1>1, <1>7
<1> QED BY <1>8, <1>9 DEF d, n, q

(* Two different elements make a set of two ... *)
LEMMA PairSize ==
  ASSUME NEW x, NEW y, x # y
  PROVE  IsFiniteSet({x, y}) /\ Cardinality({x, y}) = 2
<1>1. {x, y} = {x} \cup {y}
  OBVIOUS
<1>2. IsFiniteSet({x}) /\ Cardinality({x}) = 1
  BY FS_Singleton
<1>3. IsFiniteSet({x} \cup {y}) /\ Cardinality({x} \cup {y}) = Cardinality({x}) + 1
  <2>1. y \notin {x}
    OBVIOUS
  <2> QED BY <1>2, <2>1, FS_AddElement
<1> QED BY <1>1, <1>2, <1>3

(* ... and a set of two has two different elements. *)
LEMMA SetOfTwo ==
  ASSUME NEW S, IsFiniteSet(S)
  PROVE  Cardinality(S) = 2 => \E x, y \in S : x # y /\ S = {x, y}
<1> SUFFICES ASSUME Cardinality(S) = 2 PROVE \E x, y \in S : x # y /\ S = {x, y}
  OBVIOUS
<1>1. PICK x \in S : TRUE
  <2>1. S # {}
    BY FS_EmptySet
  <2> QED BY <2>1
<1>2. IsFiniteSet(S \ {x}) /\ Cardinality(S \ {x}) = 1
  BY FS_RemoveElement
<1>3. PICK y : S \ {x} = {y}
  BY <1>2, FS_Singleton
<1> QED BY <1>1, <1>3

(* A set has more than one element just if it has two different ones. *)
LEMMA MoreThanOne ==
  ASSUME NEW S, IsFiniteSet(S)
  PROVE  Cardinality(S) > 1 <=> \E x, y \in S : x # y
<1>1. ASSUME NEW x \in S, NEW y \in S, x # y PROVE Cardinality(S) > 1
  <2>1. Cardinality({x, y}) = 2 /\ {x, y} \in SUBSET S
    BY <1>1, PairSize
  <2>2. Cardinality({x, y}) <= Cardinality(S) /\ Cardinality(S) \in Nat
    BY <2>1, FS_Subset, FS_CardinalityType
  <2> QED BY <2>1, <2>2
<1>2. ASSUME ~\E x, y \in S : x # y PROVE ~(Cardinality(S) > 1)
  <2>1. CASE S = {}
    BY <2>1, FS_EmptySet
  <2>2. CASE S # {}
    <3>1. PICK x \in S : TRUE
      BY <2>2
    <3>2. S = {x}
      BY <1>2
    <3>3. Cardinality({x}) = 1
      BY FS_Singleton
    <3> QED BY <3>2, <3>3
  <2> QED BY <2>1, <2>2
<1> QED BY <1>1, <1>2
=============================================================================
