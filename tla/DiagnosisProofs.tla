--------------------------- MODULE DiagnosisProofs ---------------------------
(***************************************************************************)
(* Proofs about GeoDat and Diagnosis, for files of any bytes, for any      *)
(* catalog of entries and for any rules and targets.  The theorems stand at *)
(* the end of the sections of the lemmas they need.                        *)
(***************************************************************************)
EXTENDS Diagnosis, ListFacts

-----------------------------------------------------------------------------
(* Varints.                                                                 *)

(* What the bytes of a varint give is a number. *)
LEMMA NumberFacts ==
  ASSUME NEW bytes \in Seq(Bytes), NEW n \in 1..Len(bytes)
  PROVE  NumberOf(bytes, n) \in Nat /\ NumberOf(bytes, n) < Limit
<1> DEFINE bits(i) == IF i <= n THEN bytes[i] % 8 ELSE 0
           x == bits(1) + 8 * bits(2) + 64 * bits(3)
<1>1. NumberOf(bytes, n) = x % 256
  BY DEF NumberOf, Limit, More
<1>2. ASSUME NEW i \in 1..3 PROVE bits(i) \in Int
  <2>1. CASE i <= n
    <3>1. bytes[i] \in 0..15
      BY <2>1 DEF Bytes
    <3> QED BY <2>1, <3>1
  <2>2. CASE ~(i <= n)
    BY <2>2
  <2> QED BY <2>1, <2>2
<1>3. bits(1) \in Int /\ bits(2) \in Int /\ bits(3) \in Int
  BY <1>2
<1> HIDE DEF bits
<1>4. x \in Int
  BY <1>3
<1> HIDE DEF x
<1> QED BY <1>1, <1>4 DEF Limit

(* What a reader of numbers returns of some bytes: an error, or a number    *)
(* that takes one of them at least.                                         *)
LEMMA VarintFacts ==
  ASSUME NEW bytes \in Seq(Bytes)
  PROVE  /\ ReadVarint(bytes).ok \in BOOLEAN
         /\ ReadVarint(bytes).ok => /\ ReadVarint(bytes).value \in Nat
                                    /\ ReadVarint(bytes).size \in 1..Len(bytes)
<1> DEFINE ends == {n \in LastBytes(bytes) : 3 * (n - 1) < Width}
<1>1. ReadVarint(bytes) = NumberEnding(bytes, ends)
  BY DEF ReadVarint
<1>2. \A n \in ends : n \in 1..Len(bytes)
  BY DEF LastBytes
<1>3. CASE ends = {}
  BY <1>1, <1>3 DEF NumberEnding, Refused
<1>4. CASE ends # {}
  <2> DEFINE n == CHOOSE n \in ends : TRUE
  <2>1. n \in ends
    BY <1>4
  <2>2. ReadVarint(bytes) = [ok |-> TRUE, value |-> NumberOf(bytes, n), size |-> n]
    BY <1>1, <1>4 DEF NumberEnding, Number
  <2> HIDE DEF n, ends
  <2>3. NumberOf(bytes, n) \in Nat
    <3>1. n \in 1..Len(bytes)
      BY <1>2, <2>1
    <3> QED BY <3>1, NumberFacts
  <2> QED BY <1>2, <2>1, <2>2, <2>3
<1> QED BY <1>3, <1>4

(* The two readers stop at the same byte: three bytes have eight bits, and  *)
(* one of the ninth.                                                        *)
LEMMA ReadersOfVarints ==
  ASSUME NEW bytes \in Seq(Bytes)
  PROVE  ReadVarint(bytes) = ReadVarintBytes(bytes)
<1>1. {n \in LastBytes(bytes) : 3 * (n - 1) < Width} = {n \in LastBytes(bytes) : n <= MaxVarint}
  BY DEF LastBytes, Width, MaxVarint
<1> QED BY <1>1 DEF ReadVarint, ReadVarintBytes

(* A number is written in one to three bytes, of which the last one says    *)
(* that it is the last.                                                     *)
LEMMA WrittenNumber ==
  ASSUME NEW v \in Nat
  PROVE  /\ Varint(v) \in Seq(Bytes) /\ Len(Varint(v)) \in 1..3
         /\ Varint(v)[Len(Varint(v))] < More
         /\ \A i \in 1..(Len(Varint(v)) - 1) : Varint(v)[i] >= More
<1> DEFINE low == v % 8
           middle == (v \div 8) % 8
           high == (v \div 64) % 8
<1>1. low \in 0..7 /\ middle \in 0..7 /\ high \in 0..7
  OBVIOUS
<1>2. \/ Varint(v) = <<low>>
      \/ Varint(v) = <<8 + low, middle>>
      \/ Varint(v) = <<8 + low, 8 + middle, high>>
  BY DEF Varint, More
<1> HIDE DEF low, middle, high
<1>3. 8 + low \in 8..15 /\ 8 + middle \in 8..15
  BY <1>1
<1>4. CASE Varint(v) = <<low>>
  BY <1>1, <1>4 DEF Bytes, More
<1>5. CASE Varint(v) = <<8 + low, middle>>
  BY <1>1, <1>3, <1>5 DEF Bytes, More
<1>6. CASE Varint(v) = <<8 + low, 8 + middle, high>>
  <2>1. Varint(v) \in Seq(Bytes) /\ Len(Varint(v)) = 3
    BY <1>1, <1>3, <1>6 DEF Bytes
  <2>2. Varint(v)[1] >= 8 /\ Varint(v)[2] >= 8 /\ Varint(v)[3] < 8
    BY <1>1, <1>3, <1>6
  <2>3. \A i \in 1..2 : i = 1 \/ i = 2
    OBVIOUS
  <2> QED BY <2>1, <2>2, <2>3 DEF More
<1> QED BY <1>2, <1>4, <1>5, <1>6

(* The number in one, two or three bytes that are there and fit.            *)
LEMMA NumberIs ==
  ASSUME NEW bytes \in Seq(Bytes)
  PROVE  /\ Len(bytes) >= 1 => NumberOf(bytes, 1) = bytes[1] % 8
         /\ Len(bytes) >= 2 => NumberOf(bytes, 2) = (bytes[1] % 8) + 8 * (bytes[2] % 8)
         /\ Len(bytes) >= 3 /\ bytes[3] % 8 <= 3 =>
              NumberOf(bytes, 3) = (bytes[1] % 8) + 8 * (bytes[2] % 8) + 64 * (bytes[3] % 8)
<1> DEFINE bits(n, i) == IF i <= n THEN bytes[i] % 8 ELSE 0
           d(i) == bytes[i] % 8
<1>1. \A n \in 1..3 : NumberOf(bytes, n) = (bits(n, 1) + 8 * bits(n, 2) + 64 * bits(n, 3)) % 256
  BY DEF NumberOf, More, Limit
<1>2. Len(bytes) \in Nat
  OBVIOUS
<1>3. ASSUME NEW i \in 1..3, Len(bytes) >= i PROVE d(i) \in 0..7
  <2>1. bytes[i] \in 0..15
    BY <1>2, <1>3 DEF Bytes
  <2> QED BY <2>1
<1>4. /\ bits(1, 1) = d(1) /\ bits(1, 2) = 0 /\ bits(1, 3) = 0
      /\ bits(2, 1) = d(1) /\ bits(2, 2) = d(2) /\ bits(2, 3) = 0
      /\ bits(3, 1) = d(1) /\ bits(3, 2) = d(2) /\ bits(3, 3) = d(3)
  OBVIOUS
<1>5. /\ NumberOf(bytes, 1) = (d(1) + 8 * 0 + 64 * 0) % 256
      /\ NumberOf(bytes, 2) = (d(1) + 8 * d(2) + 64 * 0) % 256
      /\ NumberOf(bytes, 3) = (d(1) + 8 * d(2) + 64 * d(3)) % 256
  <2> HIDE DEF bits, d
  <2>1. 1 \in 1..3 /\ 2 \in 1..3 /\ 3 \in 1..3
    OBVIOUS
  <2> QED BY <1>1, <1>4, <2>1
<1> HIDE DEF bits, d
<1>6. Len(bytes) >= 1 => NumberOf(bytes, 1) = d(1)
  BY <1>2, <1>3, <1>5
<1>7. Len(bytes) >= 2 => NumberOf(bytes, 2) = d(1) + 8 * d(2)
  BY <1>2, <1>3, <1>5
<1>8. Len(bytes) >= 3 /\ d(3) <= 3 => NumberOf(bytes, 3) = d(1) + 8 * d(2) + 64 * d(3)
  <2> SUFFICES ASSUME Len(bytes) >= 3, d(3) <= 3
               PROVE  NumberOf(bytes, 3) = d(1) + 8 * d(2) + 64 * d(3)
    OBVIOUS
  <2> DEFINE x == d(1) + 8 * d(2) + 64 * d(3)
  <2>1. d(1) \in 0..7 /\ d(2) \in 0..7 /\ d(3) \in 0..3
    BY <1>2, <1>3
  <2>2. x \in 0..255
    <3>1. \A a, b \in 0..7, c \in 0..3 : a + 8 * b + 64 * c \in 0..255
      OBVIOUS
    <3> HIDE DEF d
    <3> QED BY <2>1, <3>1
  <2>4. NumberOf(bytes, 3) = x % 256
    BY <1>5, Zenon
  <2> HIDE DEF x
  <2>3. x % 256 = x
    BY <2>2
  <2> QED BY <2>3, <2>4 DEF x
<1> QED BY <1>6, <1>7, <1>8 DEF d

(* The bytes of a varint give the number it was made of. *)
LEMMA ValueOfVarint ==
  ASSUME NEW v \in 0..(Limit - 1), NEW bytes \in Seq(Bytes),
         Len(bytes) >= Len(Varint(v)), \A i \in 1..Len(Varint(v)) : bytes[i] = Varint(v)[i]
  PROVE  NumberOf(bytes, Len(Varint(v))) = v
<1> DEFINE low == v % 8
           middle == (v \div 8) % 8
           high == (v \div 64) % 8
<1>1. low \in 0..7 /\ middle \in 0..7 /\ high \in 0..7 /\ v = low + 8 * middle + 64 * high
  <2>1. v \in 0..255
    BY DEF Limit
  <2>2. v \div 8 \in 0..31 /\ v = 8 * (v \div 8) + low /\ low \in 0..7
    BY <2>1
  <2>3. v \div 64 = (v \div 8) \div 8
    BY <2>1
  <2>4. v \div 64 \in 0..3 /\ v \div 8 = 8 * (v \div 64) + middle /\ middle \in 0..7
    BY <2>2, <2>3
  <2>5. high = v \div 64
    BY <2>4
  <2> HIDE DEF low, middle, high
  <2> QED BY <2>2, <2>4, <2>5
<1>2. v \in 0..255 /\ Len(bytes) \in Nat
  BY DEF Limit
<1>3. CASE v < 8
  <2>1. Varint(v) = <<low>> /\ middle = 0 /\ high = 0
    BY <1>1, <1>3 DEF Varint, More
  <2>2. Len(Varint(v)) = 1 /\ bytes[1] = low
    BY <2>1
  <2> HIDE DEF low, middle, high
  <2>3. bytes[1] % 8 = low
    BY <1>1, <2>2
  <2>4. NumberOf(bytes, 1) = low
    BY <1>2, <2>2, <2>3, NumberIs
  <2>5. v = low
    BY <1>1, <2>1
  <2> QED BY <2>2, <2>4, <2>5
<1>4. CASE v >= 8 /\ v < 64
  <2>1. Varint(v) = <<8 + low, middle>> /\ high = 0
    BY <1>1, <1>4 DEF Varint, More
  <2>2. Len(Varint(v)) = 2 /\ bytes[1] = 8 + low /\ bytes[2] = middle
    BY <2>1
  <2> HIDE DEF low, middle, high
  <2>3. bytes[1] % 8 = low /\ bytes[2] % 8 = middle
    BY <1>1, <2>2
  <2>4. NumberOf(bytes, 2) = low + 8 * middle
    BY <1>2, <2>2, <2>3, NumberIs
  <2>5. v = low + 8 * middle
    BY <1>1, <2>1
  <2> QED BY <2>2, <2>4, <2>5
<1>5. CASE v >= 64
  <2>1. Varint(v) = <<8 + low, 8 + middle, high>>
    BY <1>5 DEF Varint, More
  <2>2. Len(Varint(v)) = 3 /\ bytes[1] = 8 + low /\ bytes[2] = 8 + middle /\ bytes[3] = high
    BY <2>1
  <2> HIDE DEF low, middle, high
  <2>3. bytes[1] % 8 = low /\ bytes[2] % 8 = middle /\ bytes[3] % 8 = high
    BY <1>1, <2>2
  <2>4. high <= 3
    BY <1>1, <1>2
  <2>5. NumberOf(bytes, 3) = low + 8 * middle + 64 * high
    BY <1>2, <2>2, <2>3, <2>4, NumberIs
  <2> QED BY <1>1, <2>2, <2>5
<1> QED BY <1>2, <1>3, <1>4, <1>5

(* A number is read back, whatever comes after it. *)
LEMMA VarintIsReadBack ==
  ASSUME NEW v \in 0..(Limit - 1), NEW rest \in Seq(Bytes)
  PROVE  ReadVarint(Varint(v) \o rest) = [ok |-> TRUE, value |-> v, size |-> Len(Varint(v))]
<1> DEFINE n == Len(Varint(v))
           bytes == Varint(v) \o rest
<1>1. /\ Varint(v) \in Seq(Bytes) /\ n \in 1..3 /\ Varint(v)[n] < More
      /\ \A i \in 1..(n - 1) : Varint(v)[i] >= More
  <2>1. v \in Nat
    BY DEF Limit
  <2> QED BY <2>1, WrittenNumber
<1>2. bytes \in Seq(Bytes) /\ Len(bytes) >= n /\ \A i \in 1..n : bytes[i] = Varint(v)[i]
  BY <1>1
<1>3. NumberOf(bytes, n) = v
  <2> HIDE DEF bytes
  <2> QED BY <1>2, ValueOfVarint
<1> HIDE DEF n, bytes
<1>4. {m \in LastBytes(bytes) : 3 * (m - 1) < Width} = {n}
  <2>1. n \in LastBytes(bytes)
    BY <1>1, <1>2 DEF LastBytes
  <2>2. ASSUME NEW m \in LastBytes(bytes) PROVE m = n
    <3>1. m \in 1..Len(bytes) /\ bytes[m] < More /\ \A i \in 1..(m - 1) : bytes[i] >= More
      BY <1>2 DEF LastBytes
    <3>2. m \in Nat /\ n \in Nat /\ bytes[n] < More /\ \A i \in 1..(n - 1) : bytes[i] >= More
      BY <1>1, <1>2, <3>1
    <3>3. \A i \in DOMAIN bytes : bytes[i] \in Int
      BY <1>2 DEF Bytes
    <3>4. ~(m < n)
      BY <1>2, <3>1, <3>2, <3>3 DEF More
    <3>5. ~(n < m)
      BY <1>1, <1>2, <3>1, <3>2, <3>3 DEF More
    <3> QED BY <3>2, <3>4, <3>5
  <2>3. \A m \in LastBytes(bytes) : m = n
    BY <2>2
  <2>4. 3 * (n - 1) < Width
    BY <1>1 DEF Width
  <2> QED BY <2>1, <2>3, <2>4
<1>5. ReadVarint(bytes) = [ok |-> TRUE, value |-> NumberOf(bytes, n), size |-> n]
  BY <1>4 DEF ReadVarint, NumberEnding, Number
<1> QED BY <1>3, <1>5 DEF bytes, n

-----------------------------------------------------------------------------
(* Entries and fields one after the other.                                  *)

Join(part, others) ==
  IF others.ok THEN [ok |-> TRUE, list |-> <<part>> \o others.list] ELSE Refused

(* What Parts has at place i, by what it has at later places. *)
PartsFrom(next, parts, i) ==
  IF i = Len(next) + 1 THEN [ok |-> TRUE, list |-> <<>>]
  ELSE IF next[i].ok THEN Join(next[i], parts[Len(next) + 1 - Len(next[i].rest)]) ELSE Refused

(* Each part leaves less than there was. *)
Shrinks(next) == \A i \in DOMAIN next : next[i].ok => Len(next[i].rest) \in 0..(Len(next) - i)

(* The recursive function of Parts exists: what it has at a place is known  *)
(* from the later ones.                                                     *)
LEMMA PartsFunction ==
  ASSUME NEW P, NEW next \in Seq(P), Shrinks(next)
  PROVE  \E parts : /\ \A i \in 1..(Len(next) + 1) : parts[i] = PartsFrom(next, parts, i)
                    /\ Parts(next) = parts[1]
<1> DEFINE Is(f, m) == f = [i \in (Len(next) + 1 - m)..(Len(next) + 1) |-> PartsFrom(next, f, i)]
           T == {m \in Nat : m < Len(next) + 1 => \E f : Is(f, m)}
<1>0. Len(next) \in Nat /\ DOMAIN next = 1..Len(next)
  OBVIOUS
<1>1. 0 \in T
  <2> DEFINE f == [i \in (Len(next) + 1 - 0)..(Len(next) + 1) |-> [ok |-> TRUE, list |-> <<>>]]
  <2>1. \A i \in (Len(next) + 1 - 0)..(Len(next) + 1) : i = Len(next) + 1
    BY <1>0
  <2>2. \A i \in (Len(next) + 1 - 0)..(Len(next) + 1) : PartsFrom(next, f, i) = [ok |-> TRUE, list |-> <<>>]
    BY <2>1 DEF PartsFrom
  <2>3. Is(f, 0)
    <3> QED BY <2>2
  <2> HIDE DEF f, Is
  <2> QED BY <2>3
<1>2. ASSUME NEW m \in T PROVE m + 1 \in T
  <2> SUFFICES ASSUME m + 1 < Len(next) + 1 PROVE \E f : Is(f, m + 1)
    <3> HIDE DEF Is
    <3> QED OBVIOUS
  <2>0. m \in Nat /\ m < Len(next) + 1 /\ Len(next) + 1 - (m + 1) >= 1
    BY <1>0
  <2>1. PICK g : Is(g, m)
    BY <2>0
  <2> DEFINE f == [i \in (Len(next) + 1 - (m + 1))..(Len(next) + 1) |-> PartsFrom(next, g, i)]
  <2>2. ASSUME NEW i \in (Len(next) + 1 - m)..(Len(next) + 1) PROVE i \in (Len(next) + 1 - (m + 1))..(Len(next) + 1) /\ f[i] = g[i]
    <3>1. i \in (Len(next) + 1 - (m + 1))..(Len(next) + 1)
      BY <1>0, <2>0
    <3>2. g[i] = PartsFrom(next, g, i)
      BY <2>1
    <3> QED BY <3>1, <3>2
  <2>3. ASSUME NEW i \in (Len(next) + 1 - (m + 1))..(Len(next) + 1) PROVE PartsFrom(next, f, i) = PartsFrom(next, g, i)
    <3>1. CASE i = Len(next) + 1
      BY <3>1 DEF PartsFrom
    <3>2. CASE i # Len(next) + 1 /\ next[i].ok
      <4>0. i \in Int /\ Len(next) + 1 - (m + 1) <= i /\ i <= Len(next) + 1 /\ 1 <= i
        <5> DEFINE low == Len(next) + 1 - (m + 1)
        <5>1. low \in Int /\ low >= 1
          BY <1>0, <2>0
        <5>2. i \in low..(Len(next) + 1)
          OBVIOUS
        <5> HIDE DEF low
        <5>3. i \in Int /\ low <= i /\ i <= Len(next) + 1
          BY <1>0, <5>1, <5>2
        <5> QED BY <1>0, <5>1, <5>3 DEF low
      <4>1. i \in DOMAIN next
        BY <1>0, <3>2, <4>0
      <4> DEFINE place == Len(next) + 1 - Len(next[i].rest)
      <4>2. place \in (Len(next) + 1 - m)..(Len(next) + 1)
        <5> DEFINE left == Len(next[i].rest)
        <5>1. left \in 0..(Len(next) - i)
          BY <3>2, <4>1 DEF Shrinks
        <5> HIDE DEF left
        <5>2. left \in Int /\ 0 <= left /\ left <= Len(next) - i
          BY <1>0, <4>0, <5>1
        <5>3. Len(next) + 1 - left >= Len(next) + 1 - m /\ Len(next) + 1 - left <= Len(next) + 1
          BY <1>0, <2>0, <4>0, <5>2
        <5>4. Len(next) + 1 - left \in Int /\ Len(next) + 1 - m \in Int /\ Len(next) + 1 \in Int
          BY <1>0, <2>0, <5>2
        <5> HIDE DEF f, T, Is
        <5>5. Len(next) + 1 - left \in (Len(next) + 1 - m)..(Len(next) + 1)
          BY <5>3, <5>4
        <5> QED BY <5>5 DEF left
      <4> HIDE DEF place, f
      <4>4. f[place] = g[place]
        BY <2>2, <4>2
      <4> USE DEF place
      <4>5. \A h : PartsFrom(next, h, i) = Join(next[i], h[place])
        BY <3>2 DEF PartsFrom
      <4> HIDE DEF place, f
      <4> QED BY <4>4, <4>5
    <3>3. CASE i # Len(next) + 1 /\ ~next[i].ok
      BY <3>3 DEF PartsFrom
    <3> QED BY <3>1, <3>2, <3>3
  <2>4. Is(f, m + 1)
    BY <2>3
  <2> HIDE DEF f, Is
  <2> QED BY <2>4
<1>3. T = Nat
  <2> HIDE DEF T
  <2>1. T \subseteq Nat BY DEF T
  <2> QED BY <1>1, <1>2, <2>1, NatSetInduction
<1>4. \E f : Is(f, Len(next))
  <2> HIDE DEF Is
  <2>1. Len(next) \in T
    BY <1>0, <1>3
  <2> QED BY <1>0, <2>1
<1> DEFINE All(f) == f = [i \in 1..(Len(next) + 1) |-> PartsFrom(next, f, i)]
           parts == CHOOSE f : All(f)
<1>5. All(parts)
  <2>1. Len(next) + 1 - Len(next) = 1
    BY <1>0
  <2>2. \E f : All(f)
    BY <1>4, <2>1
  <2> HIDE DEF All
  <2> QED BY <2>2
<1>6. Parts(next) = parts[1]
  BY DEF Parts, PartsFrom, Join
<1> HIDE DEF parts
<1>7. \A i \in 1..(Len(next) + 1) : parts[i] = PartsFrom(next, parts, i)
  BY <1>5
<1> QED BY <1>6, <1>7

(* The parts after a place are those of what is left from there. *)
LEMMA PartsOfSuffix ==
  ASSUME NEW P, NEW next \in Seq(P), Shrinks(next), NEW k \in 1..(Len(next) + 1),
         NEW parts, \A i \in 1..(Len(next) + 1) : parts[i] = PartsFrom(next, parts, i)
  PROVE  Parts(From(next, k)) = parts[k]
<1> DEFINE n == Len(next)
           s == From(next, k)
<1>1. n \in Nat /\ DOMAIN next = 1..n /\ k \in Nat /\ 1 <= k /\ k <= n + 1
  OBVIOUS
<1>2. s \in Seq(P) /\ Len(s) = n + 1 - k /\ DOMAIN s = 1..(n + 1 - k)
  BY <1>1 DEF From
<1>3. \A i \in 1..(n + 1 - k) : s[i] = next[i + k - 1]
  <2> SUFFICES ASSUME NEW i \in 1..(n + 1 - k) PROVE s[i] = next[i + k - 1]
    OBVIOUS
  <2>1. k + i - 1 = i + k - 1
    BY <1>1
  <2>2. s[i] = next[k + i - 1]
    BY <1>1 DEF From
  <2> QED BY <2>1, <2>2
<1> HIDE DEF s
<1>4. Shrinks(s)
  <2> SUFFICES ASSUME NEW i \in 1..(n + 1 - k), s[i].ok PROVE Len(s[i].rest) \in 0..(Len(s) - i)
    BY <1>2 DEF Shrinks
  <2>1. i + k - 1 \in DOMAIN next /\ next[i + k - 1].ok
    BY <1>1, <1>3
  <2>2. Len(next[i + k - 1].rest) \in 0..(n - (i + k - 1))
    BY <2>1 DEF Shrinks
  <2>3. n - (i + k - 1) = Len(s) - i
    BY <1>1, <1>2
  <2> QED BY <1>3, <2>2, <2>3
<1>5. PICK after : /\ \A i \in 1..(Len(s) + 1) : after[i] = PartsFrom(s, after, i)
                   /\ Parts(s) = after[1]
  BY <1>2, <1>4, PartsFunction
<1> DEFINE T == {m \in Nat : \A j \in 0..m : j <= n + 1 - k => after[n + 2 - k - j] = parts[n + 1 - j]}
<1>6. ASSUME NEW m \in Nat, m <= n + 1 - k,
             \A j \in 0..(m - 1) : after[n + 2 - k - j] = parts[n + 1 - j]
      PROVE  after[n + 2 - k - m] = parts[n + 1 - m]
  <2> DEFINE i == n + 2 - k - m
  <2>1. i \in 1..(Len(s) + 1) /\ i + k - 1 = n + 1 - m /\ n + 1 - m \in 1..(n + 1)
    BY <1>1, <1>2, <1>6
  <2>2. after[i] = PartsFrom(s, after, i) /\ parts[n + 1 - m] = PartsFrom(next, parts, n + 1 - m)
    BY <1>5, <2>1
  <2>3. CASE m = 0
    <3>1. i = Len(s) + 1 /\ n + 1 - m = Len(next) + 1
      BY <1>1, <1>2, <2>3
    <3> HIDE DEF i
    <3> QED BY <2>2, <3>1 DEF PartsFrom, i
  <2>4. CASE m # 0
    <3>1. i # Len(s) + 1 /\ n + 1 - m # Len(next) + 1 /\ i \in 1..(n + 1 - k)
      BY <1>1, <1>2, <1>6, <2>4
    <3>2. s[i] = next[n + 1 - m]
      BY <1>3, <2>1, <3>1
    <3>3. ASSUME next[n + 1 - m].ok
          PROVE  after[Len(s) + 1 - Len(s[i].rest)] = parts[n + 1 - Len(s[i].rest)]
      <4> DEFINE j == Len(s[i].rest)
      <4>1. n + 1 - m \in DOMAIN next
        BY <1>1, <2>4, <1>6
      <4>2. j \in 0..(n - (n + 1 - m))
        BY <3>2, <3>3, <4>1 DEF Shrinks
      <4>3. j \in 0..(m - 1) /\ Len(s) + 1 - j = n + 2 - k - j
        BY <1>1, <1>2, <4>2
      <4> HIDE DEF j, n, i
      <4>4. after[n + 2 - k - j] = parts[n + 1 - j]
        BY <1>6, <4>3
      <4> QED BY <4>3, <4>4 DEF j
    <3>4. after[i] = IF s[i].ok THEN Join(s[i], after[Len(s) + 1 - Len(s[i].rest)]) ELSE Refused
      <4> HIDE DEF i
      <4> QED BY <2>2, <3>1 DEF PartsFrom
    <3>5. parts[n + 1 - m] = IF next[n + 1 - m].ok
                             THEN Join(next[n + 1 - m], parts[n + 1 - Len(next[n + 1 - m].rest)]) ELSE Refused
      <4>1. n + 1 - m # Len(next) + 1
        BY <3>1
      <4> QED BY <2>2, <4>1 DEF PartsFrom
    <3> HIDE DEF i
    <3>6. after[i] = parts[n + 1 - m]
      <4> DEFINE p == next[n + 1 - m]
                 x == after[Len(s) + 1 - Len(p.rest)]
                 y == parts[n + 1 - Len(p.rest)]
      <4>1. p.ok => x = y
        BY <3>2, <3>3
      <4>2. after[i] = IF p.ok THEN Join(p, x) ELSE Refused
        BY <3>2, <3>4
      <4>3. parts[n + 1 - m] = IF p.ok THEN Join(p, y) ELSE Refused
        BY <3>5
      <4> HIDE DEF p, x, y, n
      <4> QED BY <4>1, <4>2, <4>3
    <3> QED BY <3>6 DEF i
  <2> QED BY <2>3, <2>4
<1>7. T = Nat
  <2>1. 0 \in T
    <3>1. 0 \in Nat /\ 0 <= n + 1 - k /\ \A j \in 0..(0 - 1) : after[n + 2 - k - j] = parts[n + 1 - j]
      BY <1>1
    <3>2. after[n + 2 - k - 0] = parts[n + 1 - 0]
      <4> HIDE DEF n, T
      <4> QED BY <1>6, <3>1
    <3> HIDE DEF n
    <3> QED BY <3>2
  <2>2. ASSUME NEW m \in T PROVE m + 1 \in T
    <3> SUFFICES ASSUME NEW j \in 0..(m + 1), j <= n + 1 - k PROVE after[n + 2 - k - j] = parts[n + 1 - j]
      OBVIOUS
    <3>1. CASE j \in 0..m
      BY <3>1
    <3>2. CASE j = m + 1
      <4>1. j \in Nat /\ \A i \in 0..(j - 1) : i \in 0..m /\ i <= n + 1 - k
        BY <1>1, <3>2
      <4>2. \A i \in 0..(j - 1) : after[n + 2 - k - i] = parts[n + 1 - i]
        BY <4>1
      <4> HIDE DEF n, T
      <4> QED BY <1>6, <4>1, <4>2
    <3> QED BY <3>1, <3>2
  <2> HIDE DEF T
  <2>3. T \subseteq Nat BY DEF T
  <2> QED BY <2>1, <2>2, <2>3, NatSetInduction
<1>8. after[1] = parts[k]
  <2> DEFINE j == n + 1 - k
  <2>1. j \in Nat /\ n + 2 - k - j = 1 /\ n + 1 - j = k /\ j \in 0..j /\ j <= n + 1 - k
    BY <1>1
  <2>2. j \in T
    BY <1>7, <2>1
  <2> QED BY <2>1, <2>2
<1> QED BY <1>5, <1>8 DEF s

(* The parts are the first one, and those of what it leaves. *)
LEMMA PartsUnfold ==
  ASSUME NEW P, NEW next \in Seq(P), Shrinks(next)
  PROVE  Parts(next) =
           IF next = <<>> THEN [ok |-> TRUE, list |-> <<>>]
           ELSE IF next[1].ok THEN Join(next[1], Parts(From(next, Len(next) + 1 - Len(next[1].rest))))
           ELSE Refused
<1>1. PICK parts : /\ \A i \in 1..(Len(next) + 1) : parts[i] = PartsFrom(next, parts, i)
                   /\ Parts(next) = parts[1]
  BY PartsFunction
<1>2. Len(next) \in Nat /\ (next = <<>> <=> Len(next) = 0) /\ DOMAIN next = 1..Len(next)
  OBVIOUS
<1>3. parts[1] = PartsFrom(next, parts, 1)
  BY <1>1, <1>2
<1>4. CASE next = <<>>
  BY <1>1, <1>2, <1>3, <1>4 DEF PartsFrom
<1>5. CASE next # <<>> /\ ~next[1].ok
  BY <1>1, <1>2, <1>3, <1>5 DEF PartsFrom
<1>6. CASE next # <<>> /\ next[1].ok
  <2> DEFINE k == Len(next) + 1 - Len(next[1].rest)
  <2>1. 1 \in DOMAIN next
    BY <1>2, <1>6
  <2>2. Len(next[1].rest) \in 0..(Len(next) - 1)
    BY <1>6, <2>1 DEF Shrinks
  <2>3. k \in 1..(Len(next) + 1)
    <3> DEFINE left == Len(next[1].rest)
    <3>1. left \in 0..(Len(next) - 1)
      BY <2>2
    <3> HIDE DEF left
    <3>2. left \in Int /\ 0 <= left /\ left <= Len(next) - 1
      BY <1>2, <3>1
    <3>3. Len(next) + 1 - left \in 1..(Len(next) + 1)
      BY <1>2, <3>2
    <3> QED BY <3>3 DEF left
  <2> HIDE DEF k
  <2>4. Parts(From(next, k)) = parts[k]
    BY <1>1, <2>3, PartsOfSuffix
  <2>5. 1 # Len(next) + 1
    BY <1>2, <1>6
  <2> QED BY <1>1, <1>3, <1>6, <2>4, <2>5 DEF PartsFrom, k
<1> QED BY <1>4, <1>5, <1>6

(* What starts at each place of some bytes, when step takes a part off.     *)
Starts(bytes, step) == [i \in DOMAIN bytes |-> step[From(bytes, i)]]

Some == Seq(Bytes) \ {<<>>}

(* A part that is taken off leaves an end of the bytes, which is shorter.   *)
Leaves(bytes, part) ==
  part.ok => /\ Len(part.rest) \in 0..(Len(bytes) - 1)
             /\ part.rest = From(bytes, Len(bytes) + 1 - Len(part.rest))

(* What starts at a place of a sequence. *)
LEMMA FromFacts ==
  ASSUME NEW S, NEW s \in Seq(S), NEW i \in 1..(Len(s) + 1)
  PROVE  /\ From(s, i) \in Seq(S) /\ Len(From(s, i)) = Len(s) + 1 - i
         /\ \A j \in 1..(Len(s) + 1 - i) : From(s, i)[j] = s[i + j - 1]
         /\ (From(s, i) = <<>> <=> i = Len(s) + 1)
<1>1. Len(s) \in Nat /\ i \in Nat /\ 1 <= i /\ i <= Len(s) + 1
  OBVIOUS
<1>2. From(s, i) \in Seq(S) /\ Len(From(s, i)) = Len(s) + 1 - i
  BY <1>1 DEF From
<1>3. \A j \in 1..(Len(s) + 1 - i) : From(s, i)[j] = s[i + j - 1]
  BY <1>1 DEF From
<1>4. From(s, i) = <<>> <=> Len(From(s, i)) = 0
  BY <1>2
<1> QED BY <1>1, <1>2, <1>3, <1>4

(* What starts at a place of what starts at a place. *)
LEMMA FromFrom ==
  ASSUME NEW S, NEW s \in Seq(S), NEW k \in 1..(Len(s) + 1), NEW i \in 1..(Len(s) + 2 - k)
  PROVE  From(From(s, k), i) = From(s, k + i - 1)
<1>1. Len(s) \in Nat /\ k \in Nat /\ i \in Nat /\ 1 <= k /\ k <= Len(s) + 1 /\ 1 <= i /\ i <= Len(s) + 2 - k
  OBVIOUS
<1> DEFINE t == From(s, k)
<1>2. t \in Seq(S) /\ Len(t) = Len(s) + 1 - k /\ \A j \in 1..(Len(s) + 1 - k) : t[j] = s[k + j - 1]
  BY FromFacts
<1> HIDE DEF t
<1>3. i \in 1..(Len(t) + 1) /\ k + i - 1 \in 1..(Len(s) + 1)
  BY <1>1, <1>2
<1> DEFINE u == From(t, i)
           v == From(s, k + i - 1)
<1>4. u \in Seq(S) /\ Len(u) = Len(t) + 1 - i /\ \A j \in 1..(Len(t) + 1 - i) : u[j] = t[i + j - 1]
  <2>1. t \in Seq(S) /\ i \in 1..(Len(t) + 1)
    BY <1>2, <1>3
  <2> HIDE DEF u
  <2> QED BY <2>1, FromFacts DEF u
<1>5. v \in Seq(S) /\ Len(v) = Len(s) + 1 - (k + i - 1)
      /\ \A j \in 1..(Len(s) + 1 - (k + i - 1)) : v[j] = s[(k + i - 1) + j - 1]
  BY <1>3, FromFacts
<1> HIDE DEF u, v
<1>6. Len(u) = Len(v)
  BY <1>1, <1>2, <1>4, <1>5
<1>7. ASSUME NEW j \in 1..Len(v) PROVE u[j] = v[j]
  <2>1. j \in 1..(Len(t) + 1 - i) /\ i + j - 1 \in 1..(Len(s) + 1 - k) /\ j \in 1..(Len(s) + 1 - (k + i - 1))
    BY <1>1, <1>2, <1>4, <1>5, <1>6
  <2>2. u[j] = t[i + j - 1] /\ t[i + j - 1] = s[k + (i + j - 1) - 1] /\ v[j] = s[(k + i - 1) + j - 1]
    BY <1>2, <1>4, <1>5, <2>1
  <2>3. k + (i + j - 1) - 1 = (k + i - 1) + j - 1
    BY <1>1
  <2> QED BY <2>2, <2>3
<1>8. u = v
  <2>1. u \in Seq(S) /\ v \in Seq(S) /\ Len(u) = Len(v) /\ \A j \in 1..Len(v) : u[j] = v[j]
    BY <1>4, <1>5, <1>6, <1>7
  <2> QED BY <2>1, SameSequence
<1> QED BY <1>8 DEF t, u, v

(* The parts of some bytes are the first and those of what it leaves. *)
LEMMA StartsUnfold ==
  ASSUME NEW P, NEW step \in [Some -> P], \A b \in Some : Leaves(b, step[b]), NEW bytes \in Seq(Bytes)
  PROVE  Parts(Starts(bytes, step)) =
           IF bytes = <<>> THEN [ok |-> TRUE, list |-> <<>>]
           ELSE IF step[bytes].ok THEN Join(step[bytes], Parts(Starts(step[bytes].rest, step)))
           ELSE Refused
<1> DEFINE next == Starts(bytes, step)
           n == Len(bytes)
<1>1. n \in Nat /\ DOMAIN bytes = 1..n /\ (bytes = <<>> <=> n = 0)
  OBVIOUS
<1>2. ASSUME NEW i \in 1..n PROVE From(bytes, i) \in Some /\ Len(From(bytes, i)) = n + 1 - i
  <2>1. i \in 1..(n + 1) /\ i # n + 1
    BY <1>1
  <2> QED BY <2>1, FromFacts DEF Some
<1>3. next = [i \in 1..n |-> step[From(bytes, i)]]
  BY <1>1 DEF Starts
<1>4. next \in Seq(P) /\ Len(next) = n /\ DOMAIN next = 1..n /\ \A i \in 1..n : next[i] = step[From(bytes, i)]
  BY <1>1, <1>2, <1>3
<1> HIDE DEF next
<1>5. Shrinks(next)
  <2> SUFFICES ASSUME NEW i \in 1..n, next[i].ok PROVE Len(next[i].rest) \in 0..(n - i)
    BY <1>4 DEF Shrinks
  <2>1. Len(next[i].rest) \in 0..(Len(From(bytes, i)) - 1)
    BY <1>2, <1>4 DEF Leaves
  <2>2. n + 1 - i - 1 = n - i
    <3> HIDE DEF n
    <3> QED BY <1>1
  <2> QED BY <1>2, <2>1, <2>2
<1>6. Parts(next) =
        IF next = <<>> THEN [ok |-> TRUE, list |-> <<>>]
        ELSE IF next[1].ok THEN Join(next[1], Parts(From(next, Len(next) + 1 - Len(next[1].rest)))) ELSE Refused
  BY <1>4, <1>5, PartsUnfold
<1>7. next = <<>> <=> bytes = <<>>
  BY <1>1, <1>4
<1>8. CASE bytes # <<>>
  <2>1. 1 \in 1..n /\ 1 \in 1..(n + 1)
    BY <1>1, <1>8
  <2>2. From(bytes, 1) = bytes
    BY <1>1 DEF From
  <2>3. next[1] = step[bytes]
    BY <1>4, <2>1, <2>2
  <2>4. ASSUME next[1].ok
        PROVE  From(next, Len(next) + 1 - Len(next[1].rest)) = Starts(step[bytes].rest, step)
    <3> DEFINE k == n + 1 - Len(next[1].rest)
               rest == step[bytes].rest
    <3>1. Len(rest) \in 0..(n - 1) /\ rest = From(bytes, n + 1 - Len(rest))
      BY <1>8, <2>3, <2>4 DEF Leaves, Some
    <3> HIDE DEF rest
    <3>2. Len(next[1].rest) = Len(rest)
      BY <2>3 DEF rest
    <3>3. k \in 1..(n + 1) /\ rest = From(bytes, k)
      <4>1. n + 1 - Len(rest) \in 1..(n + 1)
        BY <1>1, <3>1
      <4> QED BY <3>1, <3>2, <4>1
    <3> HIDE DEF k
    <3>4. rest \in Seq(Bytes) /\ Len(rest) = n + 1 - k /\ DOMAIN rest = 1..(n + 1 - k)
      <4>1. rest \in Seq(Bytes) /\ Len(rest) = n + 1 - k
        BY <3>3, FromFacts
      <4> QED BY <4>1
    <3>5. From(next, k) \in Seq(P) /\ Len(From(next, k)) = n + 1 - k
          /\ \A j \in 1..(n + 1 - k) : From(next, k)[j] = next[k + j - 1]
      BY <1>4, <3>3, FromFacts
    <3>6. ASSUME NEW j \in 1..(n + 1 - k) PROVE From(next, k)[j] = step[From(rest, j)]
      <4>1. k + j - 1 \in 1..n /\ j \in 1..(n + 2 - k)
        BY <1>1, <3>3
      <4>2. From(rest, j) = From(bytes, k + j - 1)
        BY <3>3, <4>1, FromFrom
      <4> QED BY <1>4, <3>5, <4>1, <4>2
    <3>7. From(next, k) = [j \in 1..(n + 1 - k) |-> step[From(rest, j)]]
      <4> DEFINE u == From(next, k)
      <4>1. u \in Seq(P) /\ Len(u) = n + 1 - k /\ \A j \in 1..(n + 1 - k) : u[j] = step[From(rest, j)]
        BY <3>5, <3>6
      <4> HIDE DEF u
      <4>2. u = [j \in 1..(n + 1 - k) |-> step[From(rest, j)]]
        BY <4>1
      <4> QED BY <4>2 DEF u
    <3>8. Starts(rest, step) = [j \in 1..(n + 1 - k) |-> step[From(rest, j)]]
      BY <3>4 DEF Starts
    <3> QED BY <1>4, <3>7, <3>8 DEF k, rest
  <2> QED BY <1>6, <1>7, <1>8, <2>3, <2>4 DEF next
<1> QED BY <1>6, <1>7, <1>8 DEF next

-----------------------------------------------------------------------------
(* The readers of a file.                                                   *)
Entry == [ok : {TRUE}, whole : BOOLEAN, body : Seq(Bytes), rest : Seq(Bytes)]

(* The end of an end of some bytes is one of the bytes. *)
LEMMA EndOfEnd ==
  ASSUME NEW bytes \in Seq(Bytes), bytes # <<>>, NEW i \in 3..(Len(bytes) + 1), NEW j \in Nat, j >= 1
  PROVE  /\ From(From(bytes, i), j) \in Seq(Bytes)
         /\ Leaves(bytes, [ok |-> TRUE, rest |-> From(From(bytes, i), j)])
<1> DEFINE n == Len(bytes)
           rest == From(bytes, i)
           end == From(rest, j)
<1>1. n \in Nat /\ n >= 1 /\ i \in Nat /\ 3 <= i /\ i <= n + 1 /\ i \in 1..(n + 1) /\ n + 1 \in 1..(n + 1)
  OBVIOUS
<1>2. rest \in Seq(Bytes) /\ Len(rest) = n + 1 - i
  BY <1>1, FromFacts
<1>3. CASE j <= Len(rest)
  <2>1. j \in 1..(Len(rest) + 1) /\ j \in 1..(n + 2 - i) /\ i + j - 1 \in 1..(n + 1)
    BY <1>1, <1>2, <1>3
  <2>2. end = From(bytes, i + j - 1)
    BY <1>1, <2>1, FromFrom
  <2>3. end \in Seq(Bytes) /\ Len(end) = n + 1 - (i + j - 1)
    BY <2>1, <2>2, FromFacts
  <2> HIDE DEF end
  <2>4. n + 1 - Len(end) = i + j - 1 /\ Len(end) \in 0..(n - 1)
    BY <1>1, <1>2, <1>3, <2>3
  <2>5. Leaves(bytes, [ok |-> TRUE, rest |-> end])
    BY <2>2, <2>4 DEF Leaves
  <2> QED BY <2>3, <2>5 DEF end
<1>4. CASE j > Len(rest)
  <2>1. end = <<>>
    <3> HIDE DEF rest
    <3> QED BY <1>2, <1>4 DEF From
  <2>2. From(bytes, n + 1) = <<>>
    BY <1>1, FromFacts
  <2> HIDE DEF end
  <2>3. n + 1 - Len(end) = n + 1 /\ Len(end) \in 0..(n - 1) /\ end \in Seq(Bytes)
    BY <1>1, <2>1
  <2>4. Leaves(bytes, [ok |-> TRUE, rest |-> end])
    BY <2>1, <2>2, <2>3 DEF Leaves
  <2> QED BY <2>3, <2>4 DEF end
<1>5. Len(rest) \in Nat
  BY <1>2
<1> QED BY <1>3, <1>4, <1>5

(* An entry is taken off the front of what is left, which gets shorter.     *)
LEMMA FrameFacts ==
  ASSUME NEW bytes \in Seq(Bytes), bytes # <<>>
  PROVE  /\ Frame(bytes) \in Entry \cup {Refused}
         /\ Frame(bytes).ok => Frame(bytes) \in Entry
         /\ Leaves(bytes, Frame(bytes))
<1> DEFINE length == ReadVarint(Tail(bytes))
           rest == From(bytes, 2 + length.size)
           framed == [ok |-> TRUE, whole |-> length.value <= Len(rest),
                      body |-> UpTo(rest, length.value), rest |-> From(rest, length.value + 1)]
<1>1. Tail(bytes) \in Seq(Bytes) /\ Len(Tail(bytes)) = Len(bytes) - 1 /\ Len(bytes) \in Nat
  OBVIOUS
<1>2. length.ok \in BOOLEAN /\ (length.ok => length.value \in Nat /\ length.size \in 1..(Len(bytes) - 1))
  BY <1>1, VarintFacts
<1>3. Frame(bytes) = IF bytes[1] # Top THEN Refused
                     ELSE IF ~length.ok \/ length.value > MaxBody THEN Refused ELSE framed
  BY DEF Frame
<1>4. CASE Frame(bytes) = Refused
  BY <1>4 DEF Refused, Leaves
<1>5. CASE length.ok /\ Frame(bytes) = framed
  <2> HIDE DEF length
  <2> DEFINE i == 2 + length.size
             j == length.value + 1
  <2>1. rest \in Seq(Bytes) /\ Len(rest) \in 0..(Len(bytes) - 2) /\ rest = From(bytes, i)
        /\ i \in 3..(Len(bytes) + 1) /\ Len(rest) = Len(bytes) + 1 - i
    <3>1. i \in 3..(Len(bytes) + 1) /\ i \in 1..(Len(bytes) + 1)
      BY <1>1, <1>2, <1>5
    <3> HIDE DEF i
    <3>2. From(bytes, i) \in Seq(Bytes) /\ Len(From(bytes, i)) = Len(bytes) + 1 - i
      BY <3>1, FromFacts
    <3>3. Len(bytes) + 1 - i \in 0..(Len(bytes) - 2)
      BY <1>1, <3>1
    <3> QED BY <3>1, <3>2, <3>3 DEF i
  <2> HIDE DEF rest, i
  <2>2. From(rest, j) \in Seq(Bytes) /\ Leaves(bytes, [ok |-> TRUE, rest |-> From(rest, j)])
    BY <1>1, <1>2, <1>5, <2>1, EndOfEnd
  <2>3. UpTo(rest, length.value) \in Seq(Bytes)
    BY <1>2, <1>5, <2>1 DEF UpTo
  <2>4. framed \in Entry
    BY <1>2, <1>5, <2>1, <2>2, <2>3 DEF Entry
  <2>5. framed.rest = From(rest, j) /\ framed.ok
    OBVIOUS
  <2> HIDE DEF framed, j
  <2>6. Leaves(bytes, framed)
    BY <2>2, <2>5 DEF Leaves
  <2> QED BY <1>5, <2>4, <2>6
<1> QED BY <1>3, <1>4, <1>5

(* The entries of a file are the first one, and those of what it leaves. *)
LEMMA FramesUnfold ==
  ASSUME NEW bytes \in Seq(Bytes)
  PROVE  Frames(bytes) =
           IF bytes = <<>> THEN [ok |-> TRUE, list |-> <<>>]
           ELSE IF Frame(bytes).ok THEN Join(Frame(bytes), Frames(Frame(bytes).rest))
           ELSE Refused
<1> DEFINE P == Entry \cup {Refused}
           step == [b \in Some |-> Frame(b)]
<1>1. \A b \in Some : b \in Seq(Bytes) /\ b # <<>>
  BY DEF Some
<1>2. step \in [Some -> P] /\ \A b \in Some : Leaves(b, step[b])
  BY <1>1, FrameFacts
<1>3. ASSUME NEW b \in Seq(Bytes) PROVE Frames(b) = Parts(Starts(b, step))
  <2>1. \A i \in DOMAIN b : step[From(b, i)] = Frame(From(b, i))
    <3> SUFFICES ASSUME NEW i \in DOMAIN b PROVE From(b, i) \in Some
      OBVIOUS
    <3>1. i \in 1..(Len(b) + 1) /\ i # Len(b) + 1
      OBVIOUS
    <3> QED BY <3>1, FromFacts DEF Some
  <2> HIDE DEF step
  <2>2. Starts(b, step) = [i \in DOMAIN b |-> Frame(From(b, i))]
    BY <2>1 DEF Starts
  <2> QED BY <2>2 DEF Frames
<1>4. CASE bytes = <<>>
  <2> HIDE DEF step, P
  <2> QED BY <1>2, <1>3, <1>4, StartsUnfold
<1>5. CASE bytes # <<>>
  <2>1. step[bytes] = Frame(bytes) /\ (Frame(bytes).ok => Frame(bytes).rest \in Seq(Bytes))
    BY <1>5, FrameFacts DEF Some, Entry
  <2> HIDE DEF step, P
  <2> QED BY <1>2, <1>3, <1>5, <2>1, StartsUnfold
<1> QED BY <1>4, <1>5

(* A file is split into entries, or refused. *)
LEMMA FramesFacts ==
  ASSUME NEW bytes \in Seq(Bytes)
  PROVE  /\ Frames(bytes).ok \in BOOLEAN
         /\ Frames(bytes).ok => Frames(bytes).list \in Seq(Entry)
<1> DEFINE Right(b) == Frames(b).ok \in BOOLEAN /\ (Frames(b).ok => Frames(b).list \in Seq(Entry))
           T == {n \in Nat : \A b \in Seq(Bytes) : Len(b) <= n => Right(b)}
<1>1. ASSUME NEW b \in Seq(Bytes), b # <<>> /\ Frame(b).ok => Right(Frame(b).rest)
      PROVE  Right(b)
  <2> DEFINE L == Seq(Entry)
             part == Frame(b)
             others == Frames(part.rest)
  <2>1. CASE b = <<>>
    <3>1. Frames(b) = [ok |-> TRUE, list |-> <<>>]
      BY <2>1, FramesUnfold
    <3> QED BY <3>1
  <2>2. CASE b # <<>> /\ ~part.ok
    <3>1. Frames(b) = Refused
      BY <2>2, FramesUnfold
    <3> QED BY <3>1 DEF Refused
  <2>3. CASE b # <<>> /\ part.ok
    <3>1. Frames(b) = Join(part, others)
      BY <2>3, FramesUnfold
    <3>2. part \in Entry
      BY <2>3, FrameFacts
    <3>3. others.ok \in BOOLEAN /\ (others.ok => others.list \in L)
      BY <1>1, <2>3
    <3> HIDE DEF part, others
    <3>4. others.ok => <<part>> \o others.list \in L
      BY <3>2, <3>3
    <3> HIDE DEF L
    <3>5. Frames(b).ok \in BOOLEAN /\ (Frames(b).ok => Frames(b).list \in L)
      BY <3>1, <3>3, <3>4 DEF Join, Refused
    <3> QED BY <3>5 DEF L
  <2> QED BY <2>1, <2>2, <2>3
<1>2. 0 \in T
  <2> SUFFICES ASSUME NEW b \in Seq(Bytes), Len(b) <= 0 PROVE Right(b)
    OBVIOUS
  <2>1. b = <<>>
    OBVIOUS
  <2> HIDE DEF Right
  <2> QED BY <1>1, <2>1
<1>3. ASSUME NEW n \in T PROVE n + 1 \in T
  <2> SUFFICES ASSUME NEW b \in Seq(Bytes), Len(b) <= n + 1, b # <<>>, Frame(b).ok PROVE Right(Frame(b).rest)
    <3> HIDE DEF Right
    <3> QED BY <1>1
  <2> DEFINE rest == Frame(b).rest
  <2>1. rest \in Seq(Bytes) /\ Len(rest) \in 0..(Len(b) - 1)
    BY FrameFacts DEF Entry, Leaves
  <2> HIDE DEF rest, Right
  <2>2. Len(rest) <= n
    BY <2>1
  <2> QED BY <2>1, <2>2 DEF rest
<1>4. T = Nat
  <2> HIDE DEF T
  <2>1. T \subseteq Nat BY DEF T
  <2> QED BY <1>2, <1>3, <2>1, NatSetInduction
<1> HIDE DEF Right
<1>5. Len(bytes) \in Nat
  OBVIOUS
<1>6. Right(bytes)
  BY <1>4, <1>5
<1> QED BY <1>6 DEF Right

(* What the index takes for the tag of an entry, the search takes for it.   *)
LEMMA SameTag ==
  ASSUME NEW body \in Seq(Bytes), EntryTag(body).ok
  PROVE  EntryCode(body).ok /\ EntryCode(body).tag = EntryTag(body).tag
<1> DEFINE length == ReadVarint(Tail(body))
           code == From(body, 2 + length.size)
           tag == SubSeq(code, 1, length.value)
<1>1. body # <<>> /\ body[1] = 6
  BY DEF EntryTag, Refused, CodeField
<1>2. length = ReadVarintBytes(Tail(body))
  <2>1. Tail(body) \in Seq(Bytes)
    BY <1>1
  <2> QED BY <2>1, ReadersOfVarints
<1> HIDE DEF length
<1>3. /\ length.ok /\ ~(length.value > Len(code))
      /\ EntryTag(body) = [ok |-> TRUE, tag |-> Upper(tag)]
  <2>1. EntryTag(body) = IF length.ok
                         THEN IF length.value >= MaxTag \/ length.value > Len(code) THEN Refused
                              ELSE [ok |-> TRUE, tag |-> Upper(tag)]
                         ELSE Refused
    BY <1>1 DEF EntryTag, CodeField, length
  <2> HIDE DEF code, tag
  <2> QED BY <2>1 DEF Refused
<1>4. 6 % 4 = 2
  OBVIOUS
<1>5. Field(body) = [ok |-> TRUE, tag |-> 6, value |-> tag, rest |-> From(code, length.value + 1)]
  BY <1>1, <1>2, <1>3, <1>4 DEF Field
<1>6. EntryCode(body) = [ok |-> TRUE, tag |-> Upper(tag), rest |-> From(code, length.value + 1)]
  BY <1>1, <1>5 DEF EntryCode, CodeField
<1> QED BY <1>3, <1>6

(* Where no entry has the tag that is asked for nothing is found. *)
LEMMA NothingFound ==
  ASSUME NEW bytes \in Seq(Bytes), ScanTags(bytes).ok,
         NEW tag \in Seq(Bytes), tag # <<>>, Upper(tag) \notin ScanTags(bytes).tags,
         NEW address
  PROVE  PrefixesContaining(bytes, tag, address) = [ok |-> TRUE, found |-> <<>>]
<1> DEFINE frames == Frames(bytes)
           list == frames.list
           empty == [ok |-> TRUE, found |-> <<>>]
           here(entry) ==
             IF ~entry.ok THEN Refused
             ELSE IF entry.tag = Upper(tag) THEN PrefixesOf(entry.rest, address) ELSE empty
           scans == [i \in DOMAIN list |-> here(EntryCode(list[i].body))]
           founds == [i \in DOMAIN scans |-> scans[i].found]
<1>1. /\ frames.ok /\ \A i \in DOMAIN list : list[i].whole
      /\ \A i \in DOMAIN list : EntryTag(list[i].body).ok
      /\ ScanTags(bytes).tags = {EntryTag(list[i].body).tag : i \in DOMAIN list} \ {<<>>}
  <2>1. ScanTags(bytes) = IF frames.ok /\ \A i \in DOMAIN list : list[i].whole THEN TagsOf(list) ELSE Refused
    BY DEF ScanTags
  <2>2. TagsOf(list) = IF \E i \in DOMAIN list : ~EntryTag(list[i].body).ok THEN Refused
                       ELSE [ok |-> TRUE, tags |-> {EntryTag(list[i].body).tag : i \in DOMAIN list} \ {<<>>}]
    BY DEF TagsOf
  <2> HIDE DEF list, frames
  <2> QED BY <2>1, <2>2 DEF Refused
<1>2. list \in Seq(Entry)
  BY <1>1, FramesFacts
<1> HIDE DEF list, frames
<1>3. Upper(tag) # <<>>
  BY DEF Upper
<1>4. \A i \in DOMAIN list : scans[i] = empty
  <2> SUFFICES ASSUME NEW i \in DOMAIN list PROVE here(EntryCode(list[i].body)) = empty
    OBVIOUS
  <2> DEFINE body == list[i].body
  <2>1. body \in Seq(Bytes)
    <3>1. list[i] \in Entry
      BY <1>2
    <3> QED BY <3>1 DEF Entry
  <2>2. EntryTag(body).ok /\ EntryTag(body).tag # Upper(tag)
    BY <1>1, <1>3
  <2> HIDE DEF body
  <2>3. EntryCode(body).ok /\ EntryCode(body).tag # Upper(tag)
    BY <2>1, <2>2, SameTag
  <2> QED BY <2>3 DEF body
<1>5. DOMAIN scans = DOMAIN list
  OBVIOUS
<1>6. ScanPrefixes(bytes, tag, address) =
        IF frames.ok /\ \A i \in DOMAIN list : list[i].whole
        THEN IF \E i \in DOMAIN scans : ~scans[i].ok THEN Refused
             ELSE [ok |-> TRUE, found |-> FlattenSeq(founds)]
        ELSE Refused
  BY DEF ScanPrefixes, AllFound, Nothing, frames, list
<1> HIDE DEF scans
<1>7. FlattenSeq(founds) = <<>>
  <2> DEFINE S == Seq(Bytes)
  <2>1. <<>> \in S /\ Len(list) \in Nat /\ DOMAIN list = 1..Len(list)
    BY <1>2
  <2> HIDE DEF S
  <2>2. founds \in Seq(S) /\ DOMAIN founds = DOMAIN list /\ \A i \in DOMAIN list : founds[i] = <<>>
    BY <1>4, <1>5, <2>1
  <2> HIDE DEF founds
  <2> QED BY <2>2, FlattenNothing DEF S
<1>8. ScanPrefixes(bytes, tag, address) = empty
  <2> HIDE DEF founds
  <2> QED BY <1>1, <1>4, <1>5, <1>6, <1>7
<1>9. FirstOnes(<<>>, ToSet(<<>>)) = <<>>
  <2> DEFINE ones == [i \in DOMAIN <<>> |->
               IF <<>>[i] \in ToSet(<<>>) /\ \A j \in 1..(i - 1) : <<>>[j] # <<>>[i] THEN << <<>>[i] >> ELSE <<>>]
  <2>1. ones = <<>>
    OBVIOUS
  <2>2. FirstOnes(<<>>, ToSet(<<>>)) = FlattenSeq(ones)
    BY DEF FirstOnes
  <2> QED BY <2>1, <2>2, FlattenEmpty
<1>10. /\ ScanPrefixes(bytes, tag, address).ok
       /\ ScanPrefixes(bytes, tag, address).found = <<>>
  BY <1>8
<1> HIDE DEF founds, empty
<1>11. PrefixesContaining(bytes, tag, address) =
         [ok |-> TRUE, found |-> FirstOnes(ScanPrefixes(bytes, tag, address).found,
                                           ToSet(ScanPrefixes(bytes, tag, address).found))]
  BY <1>10 DEF PrefixesContaining
<1> QED BY <1>9, <1>10, <1>11

-----------------------------------------------------------------------------
(* The order of targets.                                                    *)
First(s, i) == \A j \in 1..(i - 1) : s[j] # s[i]

(* What is in a list is first somewhere. *)
LEMMA FirstExists ==
  ASSUME NEW S, NEW s \in Seq(S), NEW i \in DOMAIN s
  PROVE  \E j \in DOMAIN s : First(s, j) /\ s[j] = s[i]
<1> DEFINE T == {t \in Seq(S) : \A k \in DOMAIN t : \E j \in DOMAIN t : First(t, j) /\ t[j] = t[k]}
<1>1. <<>> \in T
  OBVIOUS
<1>2. ASSUME NEW t \in T \cap Seq(S), NEW x \in S PROVE Append(t, x) \in T
  <2> DEFINE u == Append(t, x)
  <2>1. /\ u \in Seq(S) /\ Len(t) \in Nat /\ Len(u) = Len(t) + 1 /\ u[Len(t) + 1] = x
        /\ \A k \in 1..Len(t) : u[k] = t[k]
        /\ DOMAIN t = 1..Len(t) /\ DOMAIN u = 1..(Len(t) + 1)
    OBVIOUS
  <2> HIDE DEF u
  <2>2. \A j \in DOMAIN t : First(t, j) => j \in DOMAIN u /\ First(u, j) /\ u[j] = t[j]
    BY <2>1 DEF First
  <2>3. ASSUME NEW k \in DOMAIN u PROVE \E j \in DOMAIN u : First(u, j) /\ u[j] = u[k]
    <3>1. CASE k \in DOMAIN t
      <4>1. PICK j \in DOMAIN t : First(t, j) /\ t[j] = t[k]
        BY <3>1
      <4> QED BY <2>1, <2>2, <3>1, <4>1
    <3>2. CASE k = Len(t) + 1 /\ \E l \in DOMAIN t : t[l] = x
      <4>1. PICK l \in DOMAIN t : t[l] = x
        BY <3>2
      <4>2. PICK j \in DOMAIN t : First(t, j) /\ t[j] = t[l]
        OBVIOUS
      <4> QED BY <2>1, <2>2, <3>2, <4>1, <4>2
    <3>3. CASE k = Len(t) + 1 /\ ~\E l \in DOMAIN t : t[l] = x
      <4>1. First(u, k)
        BY <2>1, <3>3 DEF First
      <4> QED BY <4>1
    <3> QED BY <2>1, <3>1, <3>2, <3>3
  <2> QED BY <2>1, <2>3 DEF u
<1> HIDE DEF T
<1>3. Seq(S) \subseteq T
  BY <1>1, <1>2, SeqSetInduction
<1> QED BY <1>3 DEF T

(* FirstOnes keeps what is kept at the places where it is first, in order.  *)
LEMMA FirstOnesFacts ==
  ASSUME NEW S, NEW kept, NEW s \in Seq(S)
  PROVE  /\ FirstOnes(s, kept) \in Seq(S)
         /\ \A i \in DOMAIN s : s[i] \in kept /\ First(s, i) =>
              \E p \in DOMAIN FirstOnes(s, kept) : FirstOnes(s, kept)[p] = s[i]
         /\ \A p \in DOMAIN FirstOnes(s, kept) :
              \E i \in DOMAIN s : First(s, i) /\ s[i] \in kept /\ FirstOnes(s, kept)[p] = s[i]
         /\ \A p, q \in DOMAIN FirstOnes(s, kept) : p < q =>
              \E i, j \in DOMAIN s : /\ i < j /\ First(s, i) /\ First(s, j)
                                     /\ FirstOnes(s, kept)[p] = s[i] /\ FirstOnes(s, kept)[q] = s[j]
<1> DEFINE piece(t, i) == IF t[i] \in kept /\ First(t, i) THEN <<t[i]>> ELSE <<>>
           pieces(t) == [i \in DOMAIN t |-> piece(t, i)]
           F1(t, f) == f \in Seq(S)
           F2(t, f) == \A i \in DOMAIN t : t[i] \in kept /\ First(t, i) => \E p \in DOMAIN f : f[p] = t[i]
           F3(t, f) == \A p \in DOMAIN f : \E i \in DOMAIN t : First(t, i) /\ t[i] \in kept /\ f[p] = t[i]
           F4(t, f) == \A p, q \in DOMAIN f : p < q =>
                         \E i, j \in DOMAIN t : i < j /\ First(t, i) /\ First(t, j) /\ f[p] = t[i] /\ f[q] = t[j]
           F(t, f) == F1(t, f) /\ F2(t, f) /\ F3(t, f) /\ F4(t, f)
           T == {t \in Seq(S) : F(t, FlattenSeq(pieces(t)))}
<1>1. <<>> \in T
  <2>1. pieces(<<>>) = <<>>
    OBVIOUS
  <2>2. F(<<>>, <<>>)
    OBVIOUS
  <2> HIDE DEF F, pieces
  <2> QED BY <2>1, <2>2, FlattenEmpty
<1>2. ASSUME NEW t \in T \cap Seq(S), NEW x \in S PROVE Append(t, x) \in T
  <2> DEFINE u == Append(t, x)
             n == Len(t)
             f == FlattenSeq(pieces(t))
             g == FlattenSeq(pieces(u))
  <2>1. /\ u \in Seq(S) /\ n \in Nat /\ Len(u) = n + 1 /\ u[n + 1] = x
        /\ \A k \in 1..n : u[k] = t[k] /\ t[k] \in S
        /\ DOMAIN t = 1..n /\ DOMAIN u = 1..(n + 1)
    OBVIOUS
  <2> HIDE DEF u, n
  <2>2. \A i \in 1..n : (First(u, i) <=> First(t, i)) /\ piece(u, i) = piece(t, i)
    BY <2>1 DEF First
  <2> DEFINE Q == Seq(S)
             last == piece(u, n + 1)
  <2>3. pieces(t) \in Seq(Q) /\ last \in Q
    <3>1. \A i \in 1..n : piece(t, i) \in Q
      BY <2>1
    <3>2. last \in Q
      BY <2>1
    <3> HIDE DEF piece, Q
    <3> QED BY <2>1, <3>1, <3>2
  <2>4. pieces(u) = Append(pieces(t), last)
    <3> HIDE DEF piece, Q
    <3> QED BY <2>1, <2>2, <2>3
  <2>5. g = f \o last
    <3> DEFINE before == pieces(t)
    <3>1. before \in Seq(Seq(S)) /\ last \in Seq(S)
      BY <2>3 DEF Q
    <3> HIDE DEF pieces, last, before
    <3>2. FlattenSeq(Append(before, last)) = FlattenSeq(before) \o last
      BY <3>1, FlattenAppend
    <3> QED BY <2>4, <3>2 DEF before
  <2>6. F(t, f)
    BY DEF f
  <2> HIDE DEF f, g, pieces
  <2>7. f \in Seq(S) /\ Len(f) \in Nat /\ DOMAIN f = 1..Len(f)
    BY <2>6
  (* What holds of t and f, said of u. *)
  <2>8. /\ \A i \in 1..n : u[i] \in kept /\ First(u, i) => \E p \in DOMAIN f : f[p] = u[i]
        /\ \A p \in DOMAIN f : \E i \in 1..n : First(u, i) /\ u[i] \in kept /\ f[p] = u[i]
    <3> HIDE DEF piece, last
    <3>1. ASSUME NEW i \in 1..n, u[i] \in kept, First(u, i) PROVE \E p \in DOMAIN f : f[p] = u[i]
      <4>1. i \in DOMAIN t /\ t[i] \in kept /\ First(t, i) /\ u[i] = t[i]
        BY <2>1, <2>2, <3>1
      <4>2. \E p \in DOMAIN f : f[p] = t[i]
        BY <2>6, <4>1
      <4> QED BY <4>1, <4>2
    <3>2. ASSUME NEW p \in DOMAIN f PROVE \E i \in 1..n : First(u, i) /\ u[i] \in kept /\ f[p] = u[i]
      <4>1. PICK i \in DOMAIN t : First(t, i) /\ t[i] \in kept /\ f[p] = t[i]
        BY <2>6
      <4> QED BY <2>1, <2>2, <4>1
    <3> QED BY <3>1, <3>2
  <2>9. ASSUME NEW p \in DOMAIN f, NEW q \in DOMAIN f, p < q
        PROVE  \E i, j \in 1..n : i < j /\ First(u, i) /\ First(u, j) /\ f[p] = u[i] /\ f[q] = u[j]
    <3>1. PICK i \in DOMAIN t, j \in DOMAIN t : i < j /\ First(t, i) /\ First(t, j) /\ f[p] = t[i] /\ f[q] = t[j]
      BY <2>6, <2>9
    <3>2. i \in 1..n /\ j \in 1..n
      BY <2>1
    <3>3. First(u, i) /\ First(u, j) /\ u[i] = t[i] /\ u[j] = t[j]
      BY <2>1, <2>2, <3>1, <3>2
    <3> HIDE DEF piece
    <3> QED BY <3>1, <3>2, <3>3
  <2>10. n + 1 \in DOMAIN u /\ \A i \in 1..n : i \in DOMAIN u /\ i < n + 1
    BY <2>1
  <2>11. CASE last = <<>>
    <3>1. g = f
      <4> HIDE DEF last, piece
      <4>1. g = f \o <<>>
        BY <2>5, <2>11
      <4> QED BY <2>7, <4>1
    <3>2. ~(u[n + 1] \in kept /\ First(u, n + 1))
      BY <2>11
    <3> HIDE DEF last, piece
    <3>3. \A i \in DOMAIN u : u[i] \in kept /\ First(u, i) => i \in 1..n
      BY <2>1, <3>2
    <3>4. F2(u, g)
      BY <2>8, <3>1, <3>3
    <3>5. F3(u, g)
      BY <2>8, <2>10, <3>1
    <3>6. F4(u, g)
      BY <2>9, <2>10, <3>1
    <3> HIDE DEF F2, F3, F4
    <3> QED BY <2>1, <2>7, <3>1, <3>4, <3>5, <3>6 DEF g, u
  <2>12. CASE last # <<>>
    <3> DEFINE m == Len(f)
    <3>1. last = <<x>> /\ First(u, n + 1) /\ x \in kept
      BY <2>1, <2>12
    <3> HIDE DEF last, piece
    <3>2. /\ g \in Seq(S) /\ m \in Nat /\ DOMAIN f = 1..m /\ DOMAIN g = 1..(m + 1) /\ g[m + 1] = x
          /\ \A p \in 1..m : g[p] = f[p]
      BY <2>5, <2>7, <3>1
    <3> HIDE DEF m
    <3>3. F2(u, g)
      <4> SUFFICES ASSUME NEW i \in DOMAIN u, u[i] \in kept, First(u, i) PROVE \E p \in DOMAIN g : g[p] = u[i]
        OBVIOUS
      <4>1. CASE i \in 1..n
        <5>1. PICK p \in DOMAIN f : f[p] = u[i]
          BY <2>8, <4>1
        <5>2. p \in DOMAIN g /\ g[p] = u[i]
          BY <3>2, <5>1
        <5> QED BY <5>2
      <4>2. CASE i = n + 1
        <5>1. m + 1 \in DOMAIN g /\ g[m + 1] = u[i]
          BY <2>1, <3>2, <4>2
        <5> QED BY <5>1
      <4> QED BY <2>1, <4>1, <4>2
    <3>4. F3(u, g)
      <4> SUFFICES ASSUME NEW p \in DOMAIN g PROVE \E i \in DOMAIN u : First(u, i) /\ u[i] \in kept /\ g[p] = u[i]
        OBVIOUS
      <4>1. CASE p \in 1..m
        BY <2>8, <2>10, <3>2, <4>1
      <4>2. CASE p = m + 1
        BY <2>1, <2>10, <3>1, <3>2, <4>2
      <4> QED BY <3>2, <4>1, <4>2
    <3>5. ASSUME NEW p \in DOMAIN g, NEW q \in DOMAIN g, p < q
          PROVE  \E i, j \in DOMAIN u : i < j /\ First(u, i) /\ First(u, j) /\ g[p] = u[i] /\ g[q] = u[j]
      <4>1. CASE q \in 1..m
        <5>1. p \in DOMAIN f /\ q \in DOMAIN f /\ g[p] = f[p] /\ g[q] = f[q]
          BY <3>2, <3>5, <4>1
        <5>2. PICK i \in 1..n, j \in 1..n : i < j /\ First(u, i) /\ First(u, j) /\ f[p] = u[i] /\ f[q] = u[j]
          BY <2>9, <3>5, <5>1
        <5> QED BY <2>10, <5>1, <5>2
      <4>2. CASE q = m + 1
        <5>1. p \in 1..m
          BY <3>2, <3>5, <4>2
        <5>2. PICK i \in 1..n : First(u, i) /\ f[p] = u[i]
          BY <2>8, <3>2, <5>1
        <5>3. i \in DOMAIN u /\ n + 1 \in DOMAIN u /\ i < n + 1 /\ First(u, i) /\ g[p] = u[i] /\ g[q] = u[n + 1]
          BY <2>1, <2>10, <3>2, <4>2, <5>1, <5>2
        <5> QED BY <3>1, <5>3
      <4> QED BY <3>2, <4>1, <4>2
    <3>6. F4(u, g)
      BY <3>5
    <3> HIDE DEF F2, F3, F4
    <3> QED BY <2>1, <3>2, <3>3, <3>4, <3>6 DEF g, u
  <2> QED BY <2>11, <2>12
<1> HIDE DEF T
<1>3. Seq(S) \subseteq T
  BY <1>1, <1>2, SeqSetInduction
<1>4. F(s, FlattenSeq(pieces(s)))
  BY <1>3 DEF T
<1>5. FirstOnes(s, kept) = FlattenSeq(pieces(s))
  BY DEF FirstOnes, First
<1> HIDE DEF pieces
<1> QED BY <1>4, <1>5

(* The priority of a target that is kept is its place in the order. *)
LEMMA PriorityFacts ==
  ASSUME NEW S, NEW kept, NEW s \in Seq(S), NEW i \in DOMAIN s, First(s, i), s[i] \in kept
  PROVE  /\ Priority(FirstOnes(s, kept), s[i]) \in DOMAIN FirstOnes(s, kept)
         /\ FirstOnes(s, kept)[Priority(FirstOnes(s, kept), s[i])] = s[i]
         /\ Priority(FirstOnes(s, kept), s[i]) \in Nat
<1> DEFINE names == FirstOnes(s, kept)
<1>1. names \in Seq(S)
  BY FirstOnesFacts
<1>2. \E p \in DOMAIN names : names[p] = s[i]
  BY FirstOnesFacts
<1> HIDE DEF names
<1>3. Contains(names, s[i])
  BY <1>1, <1>2 DEF Contains
<1>4. Priority(names, s[i]) = CHOOSE p \in DOMAIN names : names[p] = s[i]
  BY <1>3 DEF Priority
<1>5. Priority(names, s[i]) \in DOMAIN names /\ names[Priority(names, s[i])] = s[i]
  BY <1>2, <1>4
<1>6. DOMAIN names \subseteq Nat
  BY <1>1
<1> QED BY <1>5, <1>6 DEF names

(* Two targets in use are in the order of the places where they are first.  *)
LEMMA PrioritiesFollowPlaces ==
  ASSUME NEW S, NEW kept, NEW s \in Seq(S),
         NEW i \in DOMAIN s, First(s, i), s[i] \in kept,
         NEW j \in DOMAIN s, First(s, j), s[j] \in kept
  PROVE  /\ Priority(FirstOnes(s, kept), s[i]) < Priority(FirstOnes(s, kept), s[j]) <=> i < j
         /\ Priority(FirstOnes(s, kept), s[i]) = Priority(FirstOnes(s, kept), s[j]) => s[i] = s[j]
<1> DEFINE names == FirstOnes(s, kept)
           p == Priority(names, s[i])
           q == Priority(names, s[j])
<1>1. p \in DOMAIN names /\ names[p] = s[i] /\ p \in Nat
  BY PriorityFacts
<1>2. q \in DOMAIN names /\ names[q] = s[j] /\ q \in Nat
  BY PriorityFacts
<1>3. \A k, l \in DOMAIN names : k < l =>
        \E a, b \in DOMAIN s : a < b /\ First(s, a) /\ First(s, b) /\ names[k] = s[a] /\ names[l] = s[b]
  BY FirstOnesFacts
<1> HIDE DEF names, p, q
<1>4. \A a, b \in DOMAIN s : First(s, a) /\ First(s, b) /\ s[a] = s[b] => a = b
  <2> SUFFICES ASSUME NEW a \in DOMAIN s, NEW b \in DOMAIN s, First(s, a), First(s, b), s[a] = s[b] PROVE a = b
    OBVIOUS
  <2>1. a \in Nat /\ b \in Nat /\ a >= 1 /\ b >= 1
    OBVIOUS
  <2>2. ~(a < b) /\ ~(b < a)
    BY <2>1 DEF First
  <2> QED BY <2>1, <2>2
<1>5. DOMAIN s \subseteq Nat
  OBVIOUS
<1>6. ASSUME p < q PROVE i < j
  <2>1. PICK a \in DOMAIN s, b \in DOMAIN s :
          a < b /\ First(s, a) /\ First(s, b) /\ names[p] = s[a] /\ names[q] = s[b]
    BY <1>1, <1>2, <1>3, <1>6
  <2>2. a = i /\ b = j
    BY <1>1, <1>2, <1>4, <2>1
  <2> QED BY <2>1, <2>2
<1>7. ASSUME q < p PROVE j < i
  <2>1. PICK b \in DOMAIN s, a \in DOMAIN s :
          b < a /\ First(s, b) /\ First(s, a) /\ names[q] = s[b] /\ names[p] = s[a]
    BY <1>1, <1>2, <1>3, <1>7
  <2>2. a = i /\ b = j
    BY <1>1, <1>2, <1>4, <2>1
  <2> QED BY <2>1, <2>2
<1>8. p = q => i = j
  BY <1>1, <1>2, <1>4
<1>9. i \in Nat /\ j \in Nat
  BY <1>5
<1>10. p < q <=> i < j
  BY <1>1, <1>2, <1>6, <1>7, <1>8, <1>9
<1>11. p = q => s[i] = s[j]
  BY <1>8
<1> QED BY <1>10, <1>11 DEF p, q, names

(* As long as the list they are taken from stays, two targets keep their    *)
(* order, whatever other targets come into use or go out of it.             *)
LEMMA OrderStays ==
  ASSUME NEW S, NEW s \in Seq(S), NEW before, NEW after,
         NEW m \in before \cap after, NEW n \in before \cap after, m \in ToSet(s), n \in ToSet(s)
  PROVE  LET was(x) == Priority(FirstOnes(s, before), x)
             is(x) == Priority(FirstOnes(s, after), x)
         IN  /\ was(m) \in Nat /\ was(n) \in Nat /\ is(m) \in Nat /\ is(n) \in Nat
             /\ was(m) < was(n) <=> is(m) < is(n)
             /\ was(m) = was(n) => m = n
<1>1. PICK i \in DOMAIN s : First(s, i) /\ s[i] = m
  <2>1. PICK k \in DOMAIN s : s[k] = m
    BY DEF ToSet
  <2> QED BY <2>1, FirstExists
<1>2. PICK j \in DOMAIN s : First(s, j) /\ s[j] = n
  <2>1. PICK k \in DOMAIN s : s[k] = n
    BY DEF ToSet
  <2> QED BY <2>1, FirstExists
<1>3. s[i] \in before /\ s[i] \in after /\ s[j] \in before /\ s[j] \in after
  BY <1>1, <1>2
<1>4. /\ Priority(FirstOnes(s, before), s[i]) \in Nat /\ Priority(FirstOnes(s, before), s[j]) \in Nat
      /\ Priority(FirstOnes(s, after), s[i]) \in Nat /\ Priority(FirstOnes(s, after), s[j]) \in Nat
  BY <1>1, <1>2, <1>3, PriorityFacts
<1>5. /\ Priority(FirstOnes(s, before), s[i]) < Priority(FirstOnes(s, before), s[j]) <=> i < j
      /\ Priority(FirstOnes(s, before), s[i]) = Priority(FirstOnes(s, before), s[j]) => s[i] = s[j]
  BY <1>1, <1>2, <1>3, PrioritiesFollowPlaces
<1>6. Priority(FirstOnes(s, after), s[i]) < Priority(FirstOnes(s, after), s[j]) <=> i < j
  BY <1>1, <1>2, <1>3, PrioritiesFollowPlaces
<1> QED BY <1>1, <1>2, <1>4, <1>5, <1>6

-----------------------------------------------------------------------------
(* The winner.                                                              *)
Beats(c, d) == c.priority < d.priority \/ (c.priority = d.priority /\ c.specific >= d.specific)

Named(c) == [target |-> c.target, rule |-> c.rule]

(* A winner is one of the candidates and none of the others goes before it. *)
LEMMA WinnerFacts ==
  ASSUME NEW candidates, Winner(candidates) # None
  PROVE  \E c \in candidates : Winner(candidates) = Named(c) /\ \A d \in candidates : Beats(c, d)
<1> DEFINE first == {c \in candidates : \A d \in candidates : Beats(c, d)}
<1>1. Winner(candidates) = IF first = {} THEN None ELSE Named(CHOOSE c \in first : TRUE)
  BY DEF Winner, Beats, Named
<1>2. first # {}
  BY <1>1
<1>3. (CHOOSE c \in first : TRUE) \in first
  BY <1>2
<1> HIDE DEF first
<1>4. Winner(candidates) = Named(CHOOSE c \in first : TRUE)
  BY <1>1, <1>2
<1> QED BY <1>3, <1>4 DEF first

(* A winner gives way only to a rule that has come, or because its own is   *)
(* gone: if both rules are there before and after, and what the sort looks  *)
(* at puts them in the same order, the winner is the same.                  *)
LEMMA WinnerStays ==
  ASSUME NEW before, NEW after,
         \A c \in before \cup after : c.priority \in Nat /\ c.specific \in Nat,
         \A c \in before, d \in after : c.rule = d.rule => c.specific = d.specific,
         \A c \in before, d \in before : c.specific = d.specific => c.rule = d.rule,
         \A c \in before, d \in before, e \in after, f \in after :
           c.target = e.target /\ d.target = f.target =>
             /\ c.priority < d.priority <=> e.priority < f.priority
             /\ c.priority = d.priority => c.target = d.target,
         Winner(before) # Winner(after)
  PROVE  Winner(before) \notin RulesFor(after) \/ Winner(after) \notin RulesFor(before)
<1> SUFFICES ASSUME Winner(before) \in RulesFor(after), Winner(after) \in RulesFor(before) PROVE FALSE
  OBVIOUS
<1>1. \A x : Named(x) # None
  <2>1. ASSUME NEW x, Named(x) = None PROVE FALSE
    <3>1. "target" \in DOMAIN Named(x) /\ "target" \notin DOMAIN None
      BY DEF Named, None
    <3> QED BY <2>1, <3>1
  <2> QED BY <2>1
<1>2. PICK e \in after : Winner(before) = Named(e)
  BY DEF RulesFor, Named
<1>3. PICK d \in before : Winner(after) = Named(d)
  BY DEF RulesFor, Named
<1>4. PICK c \in before : Winner(before) = Named(c) /\ \A x \in before : Beats(c, x)
  BY <1>1, <1>2, WinnerFacts
<1>5. PICK f \in after : Winner(after) = Named(f) /\ \A x \in after : Beats(f, x)
  BY <1>1, <1>3, WinnerFacts
<1>6. /\ c.target = e.target /\ c.rule = e.rule /\ d.target = f.target /\ d.rule = f.rule
  BY <1>2, <1>3, <1>4, <1>5 DEF Named
<1>7. Beats(c, d) /\ Beats(f, e)
  BY <1>4, <1>5
<1>8. /\ c.priority \in Nat /\ d.priority \in Nat /\ e.priority \in Nat /\ f.priority \in Nat
      /\ c.specific \in Nat /\ d.specific \in Nat /\ c.specific = e.specific /\ d.specific = f.specific
  BY <1>6
<1>9. /\ c.priority < d.priority <=> e.priority < f.priority
      /\ d.priority < c.priority <=> f.priority < e.priority
      /\ c.priority = d.priority => c.target = d.target
  BY <1>6
<1>10. c.priority = d.priority /\ c.specific = d.specific
  BY <1>7, <1>8, <1>9 DEF Beats
<1>11. c.target = d.target /\ c.rule = d.rule
  BY <1>9, <1>10
<1> QED BY <1>3, <1>4, <1>11 DEF Named

-----------------------------------------------------------------------------
(* The candidates.                                                          *)
FileOf(value) == {NoFile} \cup Seq(GroupsOf(value))

CIDRs == [ip : Seq(Bytes), bits : 0..(Limit - 1)]

Rules(ds, bs, po) == [domains |-> ds, blocks |-> bs, order |-> po]

(* An enabled group is one of a known target. *)
LEMMA EnabledFacts ==
  ASSUME NEW value, NEW f \in FileOf(value), NEW g \in Enabled(f)
  PROVE  g \in GroupsOf(value) /\ g.target \in Targets /\ g.target \in NamesOf(Enabled(f))
<1> DEFINE G == GroupsOf(value)
<1>1. Groups(f) \in Seq(G)
  <2>1. <<>> \in Seq(G)
    OBVIOUS
  <2> QED BY <2>1 DEF Groups, FileOf
<1>2. g \in G
  <2>1. g \in ToSet(Groups(f))
    BY DEF Enabled
  <2>2. PICK i \in DOMAIN Groups(f) : g = Groups(f)[i]
    BY <2>1 DEF ToSet
  <2> HIDE DEF G
  <2> QED BY <1>1, <2>2
<1> QED BY <1>2 DEF GroupsOf, NamesOf

(* What a candidate for a domain says. *)
LEMMA DomainCandidateFacts ==
  ASSUME NEW ds \in FileOf(Seq(Labels)), NEW bs, NEW po, NEW domain \in Seq(Labels),
         NEW c \in DomainCandidates(Rules(ds, bs, po), domain)
  PROVE  /\ c.target \in Used(ds, <<>>) /\ c.target \in Targets
         /\ c.rule \in Seq(Labels) /\ Matches(domain, c.rule)
         /\ c.specific = Specificity(domain, c.rule)
         /\ c.priority = Priority(FirstOnes(po \o Names, Used(ds, <<>>)), c.target)
<1> DEFINE names == TargetOrder(ds, <<>>, po)
           candidate(g, rule) ==
             [target |-> g.target, rule |-> rule, exact |-> rule = domain,
              priority |-> Priority(names, g.target), specific |-> Specificity(domain, rule)]
<1>1. PICK g \in Enabled(ds) : c \in {candidate(g, rule) : rule \in {r \in ToSet(g.values) : Matches(domain, r)}}
  BY DEF DomainCandidates, Rules
<1>2. PICK rule \in ToSet(g.values) : Matches(domain, rule) /\ c = candidate(g, rule)
  BY <1>1
<1>3. g \in GroupsOf(Seq(Labels)) /\ g.target \in Targets /\ g.target \in NamesOf(Enabled(ds))
  BY EnabledFacts
<1>4. rule \in Seq(Labels)
  <2> DEFINE L == Seq(Labels)
  <2>1. g.values \in Seq(L)
    BY <1>3 DEF GroupsOf
  <2>2. PICK i \in DOMAIN g.values : rule = g.values[i]
    BY DEF ToSet
  <2> HIDE DEF L
  <2>3. rule \in L
    BY <2>1, <2>2
  <2> QED BY <2>3 DEF L
<1>5. /\ c.target = g.target /\ c.rule = rule /\ c.specific = Specificity(domain, rule)
      /\ c.priority = Priority(names, g.target)
  BY <1>2
<1> QED BY <1>2, <1>3, <1>4, <1>5 DEF Used, TargetOrder

(* Of the rules that match a domain no two are equally specific. *)
LEMMA SpecificRules ==
  ASSUME NEW domain \in Seq(Labels), NEW r \in Seq(Labels), NEW s \in Seq(Labels),
         Matches(domain, r), Matches(domain, s)
  PROVE  /\ Specificity(domain, r) \in Nat
         /\ Specificity(domain, r) = Specificity(domain, s) => r = s
<1>1. /\ Len(r) \in Nat /\ Len(s) \in Nat /\ Len(domain) \in Nat
      /\ Len(r) <= Len(domain) /\ SubSeq(r, 1, Len(r)) = SubSeq(domain, 1, Len(r)) /\ SubSeq(r, 1, Len(r)) = r
      /\ Len(s) <= Len(domain) /\ SubSeq(s, 1, Len(s)) = SubSeq(domain, 1, Len(s)) /\ SubSeq(s, 1, Len(s)) = s
  BY PrefixFacts DEF Matches, IsPrefix
<1>2. Len(r) \in Nat /\ Len(s) \in Nat
  BY <1>1
<1>3. Len(r) = Len(s) => r = s
  BY <1>1
<1>6. CASE domain = r /\ domain = s
  BY <1>1, <1>6 DEF Specificity
<1>7. CASE domain = r /\ domain # s
  <2>1. Specificity(domain, r) = Len(r) + 1 /\ Specificity(domain, s) = Len(s) /\ Len(s) <= Len(r)
    BY <1>1, <1>7 DEF Specificity
  <2>2. Specificity(domain, r) \in Nat /\ Specificity(domain, r) # Specificity(domain, s)
    BY <1>2, <2>1
  <2> QED BY <2>2
<1>8. CASE domain # r /\ domain = s
  <2>1. Specificity(domain, r) = Len(r) /\ Specificity(domain, s) = Len(s) + 1 /\ Len(r) <= Len(s)
    BY <1>1, <1>8 DEF Specificity
  <2>2. Specificity(domain, r) \in Nat /\ Specificity(domain, r) # Specificity(domain, s)
    BY <1>2, <2>1
  <2> QED BY <2>2
<1>9. CASE domain # r /\ domain # s
  <2>1. Specificity(domain, r) = Len(r) /\ Specificity(domain, s) = Len(s)
    BY <1>9 DEF Specificity
  <2> QED BY <1>1, <1>3, <2>1
<1> QED BY <1>6, <1>7, <1>8, <1>9

(* What a candidate for an address says. *)
LEMMA CIDRCandidateFacts ==
  ASSUME NEW ds, NEW bs \in FileOf(CIDRs), NEW po, NEW address,
         NEW c \in CIDRCandidates(Rules(ds, bs, po), address)
  PROVE  /\ c.target \in Used(ds, bs) /\ c.target \in Targets
         /\ c.specific = c.rule.bits /\ c.rule.bits \in Nat /\ Holds(c.rule, address)
         /\ c.priority = Priority(FirstOnes(po \o Names, Used(ds, bs)), c.target)
<1> DEFINE names == TargetOrder(ds, bs, po)
           prefixes(b) == {Masked(IP(x.ip), x.bits) : x \in ToSet(b.values)}
<1>1. PICK b \in Enabled(bs) : c \in {Candidate(names, b.target, p) : p \in {q \in prefixes(b) : Holds(q, address)}}
  BY DEF CIDRCandidates, Rules
<1>2. PICK p \in prefixes(b) : Holds(p, address) /\ c = Candidate(names, b.target, p)
  BY <1>1
<1>3. /\ b \in GroupsOf(CIDRs) /\ b.target \in Targets
      /\ b.target \in NamesOf(Enabled(bs))
  BY EnabledFacts
<1>4. p.bits \in Nat
  <2>1. b.values \in Seq(CIDRs)
    BY <1>3 DEF GroupsOf
  <2>2. PICK x \in ToSet(b.values) : p = Masked(IP(x.ip), x.bits)
    OBVIOUS
  <2>3. PICK i \in DOMAIN b.values : x = b.values[i]
    BY DEF ToSet
  <2>4. x \in CIDRs
    BY <2>1, <2>3
  <2>5. x.bits \in Nat
    BY <2>4 DEF CIDRs
  <2> QED BY <2>2, <2>5 DEF Masked
<1>5. c.target = b.target /\ c.rule = p /\ c.specific = p.bits /\ c.priority = Priority(names, b.target)
  BY <1>2 DEF Candidate
<1> QED BY <1>2, <1>3, <1>4, <1>5 DEF Used, TargetOrder

(* Every target has a place in PolicyOrder and the names after it. *)
LEMMA PlacesFacts ==
  ASSUME NEW po, po \in Seq(ToSet(po))
  PROVE  /\ po \o Names \in Seq(ToSet(po) \cup Targets)
         /\ \A n \in Targets : n \in ToSet(po \o Names)
<1> DEFINE S == ToSet(po) \cup Targets
<1>1. po \in Seq(S) /\ Names \in Seq(S) /\ Len(po) \in Nat
  BY DiagnosisAssumption
<1>2. ASSUME NEW n \in Targets PROVE n \in ToSet(po \o Names)
  <2>1. PICK i \in DOMAIN Names : Names[i] = n
    BY DEF Targets, ToSet
  <2>2. Len(po) + i \in DOMAIN (po \o Names) /\ (po \o Names)[Len(po) + i] = n
    <3> HIDE DEF S
    <3> QED BY <1>1, <2>1
  <2> QED BY <2>2 DEF ToSet
<1> HIDE DEF S
<1>3. po \o Names \in Seq(S)
  BY <1>1
<1> QED BY <1>2, <1>3 DEF S

(* The answer about a domain moves only with the rules that match it. *)
LEMMA DomainAnswerStays ==
  ASSUME NEW ds \in FileOf(Seq(Labels)), NEW ds1 \in FileOf(Seq(Labels)), NEW bs, NEW bs1,
         NEW po, po \in Seq(ToSet(po)), NEW domain \in Seq(Labels)
  PROVE  LET before == DomainCandidates(Rules(ds, bs, po), domain)
             after == DomainCandidates(Rules(ds1, bs1, po), domain)
         IN  Winner(before) # Winner(after) =>
               Winner(before) \notin RulesFor(after) \/ Winner(after) \notin RulesFor(before)
<1> DEFINE before == DomainCandidates(Rules(ds, bs, po), domain)
           after == DomainCandidates(Rules(ds1, bs1, po), domain)
           s == po \o Names
           S == ToSet(po) \cup Targets
           used == Used(ds, <<>>)
           used1 == Used(ds1, <<>>)
<1>1. s \in Seq(S) /\ \A n \in Targets : n \in ToSet(s)
  BY PlacesFacts
<1>2. \A c \in before : /\ c.target \in used /\ c.target \in Targets /\ c.rule \in Seq(Labels)
                        /\ Matches(domain, c.rule) /\ c.specific = Specificity(domain, c.rule)
                        /\ c.priority = Priority(FirstOnes(s, used), c.target)
  BY DomainCandidateFacts
<1>3. \A c \in after : /\ c.target \in used1 /\ c.target \in Targets /\ c.rule \in Seq(Labels)
                       /\ Matches(domain, c.rule) /\ c.specific = Specificity(domain, c.rule)
                       /\ c.priority = Priority(FirstOnes(s, used1), c.target)
  BY DomainCandidateFacts
<1> HIDE DEF before, after, s, S, used, used1
<1>4. \A c \in before \cup after : c.priority \in Nat /\ c.specific \in Nat
  <2>1. \A c \in before : c.priority \in Nat
    BY <1>1, <1>2, OrderStays
  <2>2. \A c \in after : c.priority \in Nat
    BY <1>1, <1>3, OrderStays
  <2> QED BY <1>2, <1>3, <2>1, <2>2, SpecificRules
<1>5. \A c \in before, d \in after : c.rule = d.rule => c.specific = d.specific
  BY <1>2, <1>3
<1>6. \A c \in before, d \in before : c.specific = d.specific => c.rule = d.rule
  BY <1>2, SpecificRules
<1>7. \A c \in before, d \in before, e \in after, f \in after :
        c.target = e.target /\ d.target = f.target =>
          /\ c.priority < d.priority <=> e.priority < f.priority
          /\ c.priority = d.priority => c.target = d.target
  <2> SUFFICES ASSUME NEW c \in before, NEW d \in before, NEW e \in after, NEW f \in after,
                      c.target = e.target, d.target = f.target
               PROVE  /\ c.priority < d.priority <=> e.priority < f.priority
                      /\ c.priority = d.priority => c.target = d.target
    OBVIOUS
  <2>1. c.target \in used \cap used1 /\ d.target \in used \cap used1 /\ c.target \in ToSet(s) /\ d.target \in ToSet(s)
    BY <1>1, <1>2, <1>3
  <2>2. /\ Priority(FirstOnes(s, used), c.target) < Priority(FirstOnes(s, used), d.target) <=>
             Priority(FirstOnes(s, used1), c.target) < Priority(FirstOnes(s, used1), d.target)
        /\ Priority(FirstOnes(s, used), c.target) = Priority(FirstOnes(s, used), d.target) => c.target = d.target
    BY <1>1, <2>1, OrderStays
  <2> QED BY <1>2, <1>3, <2>2
<1>8. Winner(before) # Winner(after) =>
        Winner(before) \notin RulesFor(after) \/ Winner(after) \notin RulesFor(before)
  BY <1>4, <1>5, <1>6, <1>7, WinnerStays
<1> QED BY <1>8 DEF before, after

(* The answer about an address moves only with the prefixes that hold it. *)
LEMMA AddressAnswerStays ==
  ASSUME NEW bs \in FileOf(CIDRs), NEW bs1 \in FileOf(CIDRs),
         NEW ds, NEW ds1, NEW po, po \in Seq(ToSet(po)), NEW address
  PROVE  LET before == CIDRCandidates(Rules(ds, bs, po), address)
             after == CIDRCandidates(Rules(ds1, bs1, po), address)
         IN  Winner(before) # Winner(after) =>
               Winner(before) \notin RulesFor(after) \/ Winner(after) \notin RulesFor(before)
<1> DEFINE before == CIDRCandidates(Rules(ds, bs, po), address)
           after == CIDRCandidates(Rules(ds1, bs1, po), address)
           s == po \o Names
           S == ToSet(po) \cup Targets
           used == Used(ds, bs)
           used1 == Used(ds1, bs1)
<1>1. s \in Seq(S) /\ \A n \in Targets : n \in ToSet(s)
  BY PlacesFacts
<1>2. \A c \in before : /\ c.target \in used /\ c.target \in Targets
                        /\ c.specific = c.rule.bits /\ c.rule.bits \in Nat /\ Holds(c.rule, address)
                        /\ c.priority = Priority(FirstOnes(s, used), c.target)
  BY CIDRCandidateFacts
<1>3. \A c \in after : /\ c.target \in used1 /\ c.target \in Targets
                       /\ c.specific = c.rule.bits /\ c.rule.bits \in Nat /\ Holds(c.rule, address)
                       /\ c.priority = Priority(FirstOnes(s, used1), c.target)
  BY CIDRCandidateFacts
<1> HIDE DEF before, after, s, S, used, used1
<1>4. \A c \in before \cup after : c.priority \in Nat /\ c.specific \in Nat
  <2>1. \A c \in before : c.priority \in Nat
    BY <1>1, <1>2, OrderStays
  <2>2. \A c \in after : c.priority \in Nat
    BY <1>1, <1>3, OrderStays
  <2> QED BY <1>2, <1>3, <2>1, <2>2
<1>5. \A c \in before, d \in after : c.rule = d.rule => c.specific = d.specific
  BY <1>2, <1>3
(* A prefix that holds the address is what its bits make of the address.    *)
<1>6. \A c \in before, d \in before : c.specific = d.specific => c.rule = d.rule
  BY <1>2 DEF Holds
<1>7. \A c \in before, d \in before, e \in after, f \in after :
        c.target = e.target /\ d.target = f.target =>
          /\ c.priority < d.priority <=> e.priority < f.priority
          /\ c.priority = d.priority => c.target = d.target
  <2> SUFFICES ASSUME NEW c \in before, NEW d \in before, NEW e \in after, NEW f \in after,
                      c.target = e.target, d.target = f.target
               PROVE  /\ c.priority < d.priority <=> e.priority < f.priority
                      /\ c.priority = d.priority => c.target = d.target
    OBVIOUS
  <2>1. c.target \in used \cap used1 /\ d.target \in used \cap used1 /\ c.target \in ToSet(s) /\ d.target \in ToSet(s)
    BY <1>1, <1>2, <1>3
  <2>2. /\ Priority(FirstOnes(s, used), c.target) < Priority(FirstOnes(s, used), d.target) <=>
             Priority(FirstOnes(s, used1), c.target) < Priority(FirstOnes(s, used1), d.target)
        /\ Priority(FirstOnes(s, used), c.target) = Priority(FirstOnes(s, used), d.target) => c.target = d.target
    BY <1>1, <2>1, OrderStays
  <2> QED BY <1>2, <1>3, <2>2
<1>8. Winner(before) # Winner(after) =>
        Winner(before) \notin RulesFor(after) \/ Winner(after) \notin RulesFor(before)
  BY <1>4, <1>5, <1>6, <1>7, WinnerStays
<1> QED BY <1>8 DEF before, after

-----------------------------------------------------------------------------
(* The types.                                                               *)

(* What is written is bytes. *)
LEMMA DelimitedType ==
  ASSUME NEW field \in Bytes, NEW bytes \in Seq(Bytes)
  PROVE  Delimited(field, bytes) \in Seq(Bytes)
<1>1. Len(bytes) \in Nat
  OBVIOUS
<1>2. Varint(Len(bytes)) \in Seq(Bytes)
  BY <1>1, WrittenNumber
<1>3. <<field>> \in Seq(Bytes)
  OBVIOUS
<1> QED BY <1>2, <1>3 DEF Delimited

(* What others write into a .dat file are bytes. *)
LEMMA EncodeType ==
  ASSUME NEW e \in Entries
  PROVE  Encode(e) \in Seq(Bytes)
<1>1. e.code \in Seq(Bytes) /\ e.extra \in Seq(Bytes) /\ e.cidrs \in Seq(CIDRs)
  <2>1. e \in [code : Seq(Bytes), extra : Seq(Bytes), cidrs : Seq(CIDRs)]
    BY GeoDatAssumption DEF CIDRs
  <2> QED BY <2>1
<1>2. Top \in Bytes /\ CodeField \in Bytes /\ IPField \in Bytes /\ CIDRField \in Bytes /\ BitsField \in Bytes
  BY DEF Top, CodeField, IPField, CIDRField, BitsField, Bytes
<1>3. ASSUME NEW c \in CIDRs PROVE EncodeCIDR(c) \in Seq(Bytes)
  <2> DEFINE bits == IF c.bits = 0 THEN <<>> ELSE <<BitsField>> \o Varint(c.bits)
  <2>1. c.ip \in Seq(Bytes) /\ c.bits \in Nat
    BY DEF CIDRs
  <2>2. Varint(c.bits) \in Seq(Bytes)
    BY <2>1, WrittenNumber
  <2>3. bits \in Seq(Bytes)
    BY <1>2, <2>2
  <2>4. Delimited(IPField, c.ip) \in Seq(Bytes)
    BY <1>2, <2>1, DelimitedType
  <2> HIDE DEF bits
  <2>5. Delimited(IPField, c.ip) \o bits \in Seq(Bytes)
    BY <2>3, <2>4
  <2>6. Delimited(CIDRField, Delimited(IPField, c.ip) \o bits) \in Seq(Bytes)
    BY <1>2, <2>5, DelimitedType
  <2> QED BY <2>6 DEF EncodeCIDR, bits
<1> DEFINE L == Seq(Bytes)
           pieces == [i \in DOMAIN e.cidrs |-> EncodeCIDR(e.cidrs[i])]
<1>4. pieces \in Seq(L)
  <2> HIDE DEF L
  <2>1. \A i \in DOMAIN e.cidrs : EncodeCIDR(e.cidrs[i]) \in L
    BY <1>1, <1>3 DEF L
  <2> QED BY <1>1, <2>1
<1> HIDE DEF pieces
<1>5. FlattenSeq(pieces) \in Seq(Bytes)
  BY <1>4, FlattenType
<1>6. Delimited(CodeField, e.code) \in Seq(Bytes)
  BY <1>1, <1>2, DelimitedType
<1>7. Delimited(CodeField, e.code) \o e.extra \o FlattenSeq(pieces) \in Seq(Bytes)
  BY <1>1, <1>5, <1>6
<1>8. Delimited(Top, Delimited(CodeField, e.code) \o e.extra \o FlattenSeq(pieces)) \in Seq(Bytes)
  BY <1>2, <1>7, DelimitedType
<1> QED BY <1>8 DEF Encode, Body, pieces

(* Whatever others do to the file, it has bytes. *)
LEMMA DatTypeStep ==
  ASSUME DatTypeOK, DatNext
  PROVE  DatTypeOK'
<1>1. stored \in Seq(Entries) /\ Len(stored) <= MaxEntries /\ data \in Seq(Bytes)
  BY DEF DatTypeOK
<1>2. ASSUME NEW e \in Entries, AddEntry(e) PROVE DatTypeOK'
  <2>1. Encode(e) \in Seq(Bytes)
    BY EncodeType
  <2>2. data' \in Seq(Bytes)
    BY <1>1, <1>2, <2>1 DEF AddEntry
  <2>3. stored' \in Seq(Entries) /\ Len(stored') <= MaxEntries
    BY <1>1, <1>2, GeoDatAssumption DEF AddEntry
  <2> QED BY <1>2, <2>2, <2>3 DEF DatTypeOK, AddEntry
<1>3. ASSUME NEW n \in 0..(Len(data) - 1), Cut(n) PROVE DatTypeOK'
  <2>1. SubSeq(data, 1, n) \in Seq(Bytes)
    BY <1>1
  <2> QED BY <1>1, <1>3, <2>1 DEF DatTypeOK, Cut
<1>4. ASSUME NEW i \in DOMAIN data, NEW b \in Raw, Damage(i, b) PROVE DatTypeOK'
  <2>1. [data EXCEPT ![i] = b] \in Seq(Bytes)
    BY <1>1, GeoDatAssumption
  <2> QED BY <1>1, <1>4, <2>1 DEF DatTypeOK, Damage
<1>5. ASSUME NEW b \in Raw, AddByte(b) PROVE DatTypeOK'
  <2>1. Append(data, b) \in Seq(Bytes)
    BY <1>1, GeoDatAssumption
  <2> QED BY <1>1, <1>5, <2>1 DEF DatTypeOK, AddByte
<1> QED BY <1>2, <1>3, <1>4, <1>5 DEF DatNext

(* A target that is switched off is a group without rules. *)
LEMMA SwitchedOffType ==
  ASSUME NEW value, NEW g \in GroupsOf(value)
  PROVE  /\ SwitchedOff(g) \in GroupsOf(value)
         /\ SwitchedOff(g).tags = <<>> /\ SwitchedOff(g).values = <<>>
<1>1. g.target \in Targets
  BY DEF GroupsOf
<1>2. <<>> \in Seq(Seq(Bytes)) /\ <<>> \in Seq(value)
  OBVIOUS
<1> QED BY <1>1, <1>2 DEF SwitchedOff, GroupsOf

(* A group that comes, goes, or is switched leaves a list of groups. *)
LEMMA GroupsType ==
  ASSUME NEW value, NEW f \in FileOf(value)
  PROVE  /\ Groups(f) \in Seq(GroupsOf(value))
         /\ \A g \in GroupsOf(value) : Append(Groups(f), g) \in FileOf(value)
         /\ \A i \in DOMAIN Groups(f) : /\ RemoveAt(f, i) \in FileOf(value)
                                       /\ [f EXCEPT ![i].enabled = ~@] \in FileOf(value)
                                       /\ [f EXCEPT ![i] = SwitchedOff(@)] \in FileOf(value)
<1> DEFINE G == GroupsOf(value)
<1>1. Groups(f) \in Seq(G) /\ (f # NoFile => f \in Seq(G) /\ Groups(f) = f)
  <2>1. <<>> \in Seq(G)
    OBVIOUS
  <2> QED BY <2>1 DEF Groups, FileOf
<1>2. \A g \in G : Append(Groups(f), g) \in Seq(G)
  BY <1>1
<1>3. ASSUME NEW i \in DOMAIN Groups(f) PROVE /\ RemoveAt(f, i) \in Seq(G) /\ [f EXCEPT ![i].enabled = ~@] \in Seq(G)
            /\ [f EXCEPT ![i] = SwitchedOff(@)] \in Seq(G)
  <2>1. f \in Seq(G) /\ i \in DOMAIN f /\ i \in 1..Len(f) /\ Len(f) \in Nat
    <3>1. f # NoFile
      BY DEF Groups
    <3> QED BY <1>1, <3>1
  <2>2. f[i] \in G
    BY <2>1
  <2>3. [f[i] EXCEPT !.enabled = ~@] \in G /\ SwitchedOff(f[i]) \in G
    <3>1. [f[i] EXCEPT !.enabled = ~@] \in G
      BY <2>2 DEF GroupsOf
    <3> QED BY <2>2, <3>1, SwitchedOffType
  <2> HIDE DEF G
  <2>4. RemoveAt(f, i) \in Seq(G)
    <3>1. SubSeq(f, 1, i - 1) \in Seq(G) /\ SubSeq(f, i + 1, Len(f)) \in Seq(G)
      BY <2>1
    <3> QED BY <3>1 DEF RemoveAt
  <2>5. [f EXCEPT ![i].enabled = ~@] \in Seq(G) /\ [f EXCEPT ![i] = SwitchedOff(@)] \in Seq(G)
    BY <2>1, <2>3
  <2> QED BY <2>4, <2>5
<1> QED BY <1>1, <1>2, <1>3 DEF FileOf

(* Whatever others do to the rules, the files have groups. *)
LEMMA RuleTypeStep ==
  ASSUME domains \in FileOf(Seq(Labels)), blocks \in FileOf(CIDRs), order \in {<<>>} \cup PolicyOrders, RuleNext
  PROVE  domains' \in FileOf(Seq(Labels)) /\ blocks' \in FileOf(CIDRs) /\ order' \in {<<>>} \cup PolicyOrders
<1>1. ASSUME NEW g \in DomainGroups, AddDomains(g) PROVE domains' \in FileOf(Seq(Labels)) /\ UNCHANGED <<blocks, order>>
  <2>1. g \in GroupsOf(Seq(Labels))
    BY DiagnosisAssumption DEF RuleGroups
  <2> QED BY <1>1, <2>1, GroupsType DEF AddDomains
<1>2. ASSUME NEW b \in Blocks, AddBlock(b) PROVE blocks' \in FileOf(CIDRs) /\ UNCHANGED <<domains, order>>
  <2>1. b \in GroupsOf(CIDRs)
    BY DiagnosisAssumption DEF PrefixBlocks, CIDRs
  <2> QED BY <1>2, <2>1, GroupsType DEF AddBlock
<1>3. ASSUME NEW i \in DOMAIN Groups(domains), EditDomains(i)
      PROVE  domains' \in FileOf(Seq(Labels)) /\ UNCHANGED <<blocks, order>>
  <2>1. RemoveAt(domains, i) \in FileOf(Seq(Labels)) /\ [domains EXCEPT ![i] = SwitchedOff(@)] \in FileOf(Seq(Labels))
    BY GroupsType
  <2> QED BY <1>3, <2>1 DEF EditDomains
<1>4. ASSUME NEW i \in DOMAIN Groups(blocks), EditBlocks(i)
      PROVE  blocks' \in FileOf(CIDRs) /\ UNCHANGED <<domains, order>>
  <2>1. RemoveAt(blocks, i) \in FileOf(CIDRs) /\ [blocks EXCEPT ![i].enabled = ~@] \in FileOf(CIDRs)
    BY GroupsType
  <2> QED BY <1>4, <2>1 DEF EditBlocks
<1>5. ASSUME NEW o \in PolicyOrders, SetOrder(o) PROVE order' \in PolicyOrders /\ UNCHANGED <<domains, blocks>>
  BY <1>5 DEF SetOrder
<1> QED BY <1>1, <1>2, <1>3, <1>4, <1>5 DEF RuleNext

(* The type invariant, in the terms of the lemmas. *)
LEMMA TypeIs ==
  TypeOK <=> /\ domains \in FileOf(Seq(Labels)) /\ blocks \in FileOf(CIDRs)
             /\ order \in {<<>>} \cup PolicyOrders /\ DatTypeOK
BY DEF TypeOK, FileOf, CIDRs, RuleGroups, PrefixBlocks

(* Whatever others write, the files hold groups of rules of known targets,  *)
(* and geoip.dat bytes.                                                     *)
THEOREM TypeCorrect == Spec => []TypeOK
<1>1. Init => TypeOK
  <2> SUFFICES ASSUME Init PROVE TypeOK
    OBVIOUS
  <2>1. <<>> \in Seq(RuleGroups) /\ <<>> \in Seq(PrefixBlocks) /\ <<>> \in Seq(Entries) /\ <<>> \in Seq(Bytes)
    OBVIOUS
  <2>2. Len(<<>>) <= MaxEntries
    BY GeoDatAssumption
  <2> QED BY <2>1, <2>2 DEF Init, RuleInit, DatInit, TypeOK, DatTypeOK
<1>2. TypeOK /\ [Next]_diagVars => TypeOK'
  <2> SUFFICES ASSUME TypeOK, [Next]_diagVars PROVE TypeOK'
    OBVIOUS
  <2>1. CASE DatNext /\ UNCHANGED ruleVars
    BY <2>1, DatTypeStep DEF TypeOK, ruleVars
  <2>2. CASE RuleNext /\ UNCHANGED datVars
    <3>1. /\ domains' \in FileOf(Seq(Labels)) /\ blocks' \in FileOf(CIDRs)
          /\ order' \in {<<>>} \cup PolicyOrders
      BY <2>2, RuleTypeStep, TypeIs
    <3>2. DatTypeOK'
      BY <2>2 DEF TypeOK, DatTypeOK, datVars
    <3> QED BY <3>1, <3>2 DEF TypeOK, FileOf, CIDRs, RuleGroups, PrefixBlocks
  <2>3. CASE UNCHANGED diagVars
    BY <2>3 DEF TypeOK, DatTypeOK, diagVars, ruleVars, datVars
  <2> QED BY <2>1, <2>2, <2>3 DEF Next
<1> QED BY <1>1, <1>2, PTL DEF Spec

-----------------------------------------------------------------------------
(* What holds of every state of these types.                                *)

(* The two readers of varints, with their different limits, return the same *)
(* of any bytes, and every number of 8 bits is read back, whatever follows. *)
THEOREM VarintsAreRead == Spec => []VarintIsExact
<1>1. TypeOK => VarintIsExact
  <2> SUFFICES ASSUME TypeOK PROVE VarintIsExact
    OBVIOUS
  <2>1. data \in Seq(Bytes)
    BY DEF TypeOK, DatTypeOK
  <2>2. ReadVarint(data) = ReadVarintBytes(data)
    BY <2>1, ReadersOfVarints
  <2>3. \A v \in Numbers : ReadVarint(Varint(v) \o data) = [ok |-> TRUE, value |-> v, size |-> Len(Varint(v))]
    BY <2>1, VarintIsReadBack, GeoDatAssumption
  <2> QED BY <2>2, <2>3 DEF VarintIsExact
<1> QED BY <1>1, TypeCorrect, PTL

(* A file that the index accepts, whatever its bytes are, is not refused by *)
(* the search for a tag the index does not have, and has no prefix for it.  *)
THEOREM IndexAndSearchAgree == Spec => []ReadersAgree
<1>1. TypeOK => ReadersAgree
  <2> SUFFICES ASSUME TypeOK, ScanTags(data).ok, NEW tag \in Wanted, NEW address \in Addresses,
                      Upper(tag) \notin ScanTags(data).tags, tag # <<>>
               PROVE  /\ PrefixesContaining(data, tag, address).ok
                      /\ PrefixesContaining(data, tag, address).found = <<>>
    BY DEF ReadersAgree
  <2>1. data \in Seq(Bytes) /\ tag \in Seq(Bytes)
    BY GeoDatAssumption DEF TypeOK, DatTypeOK
  <2>2. PrefixesContaining(data, tag, address) = [ok |-> TRUE, found |-> <<>>]
    BY <2>1, NothingFound
  <2> QED BY <2>2
<1> QED BY <1>1, TypeCorrect, PTL

(* For any rules and targets, and any PolicyOrder: a diagnosis of a domain, *)
(* or of an address by its prefixes, changes its answer only when the rule  *)
(* of the old answer is gone or that of the new one has come.               *)
THEOREM AnswersStay == Spec => AnswersMoveWithTheirRules
<1> DEFINE moved(before, after) ==
      Winner(before) # Winner(after) =>
        Winner(before) \notin RulesFor(after) \/ Winner(after) \notin RulesFor(before)
             A == order' = order =>
                    /\ \A d \in Domains : moved(DomainCandidates(Now, d), DomainCandidates(Then, d))
                    /\ \A a \in Addresses : moved(CIDRCandidates(Now, a), CIDRCandidates(Then, a))
<1>1. TypeOK /\ TypeOK' => A
  <2> SUFFICES ASSUME TypeOK, TypeOK', order' = order PROVE A
    OBVIOUS
  <2>1. domains \in FileOf(Seq(Labels)) /\ blocks \in FileOf(CIDRs)
    BY TypeIs
  <2>2. domains' \in FileOf(Seq(Labels)) /\ blocks' \in FileOf(CIDRs)
    BY DEF TypeOK, FileOf, CIDRs, RuleGroups, PrefixBlocks
  <2>3. order \in Seq(ToSet(order))
    <3>1. <<>> \in Seq(ToSet(<<>>))
      OBVIOUS
    <3> QED BY <3>1, DiagnosisAssumption DEF TypeOK
  <2>4. Now = Rules(domains, blocks, order) /\ Then = Rules(domains', blocks', order)
    BY DEF Now, Then, Rules
  <2>5. \A d \in Domains : d \in Seq(Labels)
    BY DiagnosisAssumption
  <2>6. ASSUME NEW d \in Domains PROVE moved(DomainCandidates(Now, d), DomainCandidates(Then, d))
    BY <2>1, <2>2, <2>3, <2>4, <2>5, DomainAnswerStays
  <2>7. ASSUME NEW a \in Addresses PROVE moved(CIDRCandidates(Now, a), CIDRCandidates(Then, a))
    BY <2>1, <2>2, <2>3, <2>4, AddressAnswerStays
  <2> QED BY <2>6, <2>7
<1> QED BY <1>1, TypeCorrect, PTL DEF AnswersMoveWithTheirRules

-----------------------------------------------------------------------------
(* The inventory and the counts of the pages.                               *)

(* The sums that make up a total. *)
LEMMA TotalFunction ==
  ASSUME NEW s \in Seq(Nat)
  PROVE  \E f \in [0..Len(s) -> Nat] :
           Total(s) = f[Len(s)] /\ f[0] = 0 /\ \A i \in 1..Len(s) : f[i] = f[i - 1] + s[i]
<1> DEFINE n == Len(s)
           step == [p \in (1..n) \X Nat |-> p[2] + s[p[1]]]
           Is(f) == f = [i \in 0..n |-> IF i = 0 THEN 0 ELSE f[i - 1] + s[i]]
           upTo == CHOOSE f : Is(f)
<1>1. n \in Nat /\ \A i \in 1..n : s[i] \in Nat
  OBVIOUS
<1>2. \A i \in 1..n, v \in Nat : step[<<i, v>>] = v + s[i] /\ step[<<i, v>>] \in Nat
  BY <1>1
<1>3. PICK f \in [0..n -> Nat] : \A i \in 0..n : f[i] = IF i = 0 THEN 0 ELSE step[<<i, f[i - 1]>>]
  <2> DEFINE S == Nat
  <2>1. Within(step, n, S)
    BY <1>2 DEF Within
  <2>2. n \in Nat /\ 0 \in S
    BY <1>1
  <2> HIDE DEF step, n, S
  <2>3. PICK f \in [0..n -> S] : Follows(f, n, 0, step)
    BY <2>1, <2>2, Recursion
  <2>4. \A i \in 0..n : f[i] = IF i = 0 THEN 0 ELSE step[<<i, f[i - 1]>>]
    BY <2>3 DEF Follows
  <2> QED BY <2>3, <2>4 DEF S
<1>4. \A i \in 0..n : f[i] = IF i = 0 THEN 0 ELSE f[i - 1] + s[i]
  <2> HIDE DEF step
  <2>1. f[0] = 0
    <3> HIDE DEF n
    <3>1. 0 \in 0..n
      BY <1>1
    <3> QED BY <1>3, <3>1
  <2>2. ASSUME NEW i \in 1..n PROVE f[i] = f[i - 1] + s[i]
    <3>1. i # 0 /\ i \in 0..n /\ i - 1 \in 0..n /\ f[i - 1] \in Nat
      BY <1>1
    <3>2. step[<<i, f[i - 1]>>] = f[i - 1] + s[i]
      BY <1>2, <3>1
    <3> QED BY <1>3, <3>1, <3>2
  <2> HIDE DEF n
  <2>3. \A i \in 0..n : i = 0 \/ i \in 1..n
    BY <1>1
  <2> QED BY <2>1, <2>2, <2>3
<1>5. Is(f)
  BY <1>4
<1>6. Is(upTo)
  <2> HIDE DEF Is
  <2> QED BY <1>5
<1>7. Total(s) = upTo[n]
  BY DEF Total
<1> HIDE DEF upTo
<1>8. \A i \in 0..n : upTo[i] = IF i = 0 THEN 0 ELSE upTo[i - 1] + s[i]
  BY <1>6
<1> DEFINE T == {m \in Nat : m <= n => upTo[m] \in Nat}
<1>9. T = Nat
  <2>1. 0 \in T
    BY <1>1, <1>8
  <2>2. ASSUME NEW m \in T PROVE m + 1 \in T
    <3> SUFFICES ASSUME m + 1 <= n PROVE upTo[m + 1] \in Nat
      OBVIOUS
    <3>1. m \in Nat /\ m + 1 \in 0..n /\ m + 1 # 0 /\ m + 1 - 1 = m /\ upTo[m] \in Nat /\ s[m + 1] \in Nat
      BY <1>1
    <3>2. upTo[m + 1] = upTo[m] + s[m + 1]
      BY <1>8, <3>1
    <3> QED BY <3>1, <3>2
  <2> HIDE DEF T
  <2>3. T \subseteq Nat BY DEF T
  <2> QED BY <2>1, <2>2, <2>3, NatSetInduction
<1>10. upTo \in [0..n -> Nat]
  <2>1. \A i \in 0..n : upTo[i] \in Nat
    BY <1>1, <1>9
  <2>2. upTo = [i \in 0..n |-> upTo[i]]
    BY <1>6
  <2> QED BY <2>1, <2>2
<1>11. upTo[0] = 0 /\ \A i \in 1..n : upTo[i] = upTo[i - 1] + s[i]
  BY <1>1, <1>8
<1> QED BY <1>7, <1>10, <1>11

(* The sum of a list grows with its elements. *)
LEMMA TotalFacts ==
  ASSUME NEW s \in Seq(Nat)
  PROVE  /\ Total(s) \in Nat
         /\ s = <<>> => Total(s) = 0
         /\ \A x \in Nat : Total(Append(s, x)) = Total(s) + x
<1>1. PICK f \in [0..Len(s) -> Nat] :
        Total(s) = f[Len(s)] /\ f[0] = 0 /\ \A i \in 1..Len(s) : f[i] = f[i - 1] + s[i]
  BY TotalFunction
<1>2. Len(s) \in Nat /\ Len(s) \in 0..Len(s) /\ (s = <<>> => Len(s) = 0)
  OBVIOUS
<1>3. ASSUME NEW x \in Nat PROVE Total(Append(s, x)) = Total(s) + x
  <2> DEFINE t == Append(s, x)
             n == Len(s)
  <2>1. t \in Seq(Nat) /\ Len(t) = n + 1 /\ n \in Nat /\ t[n + 1] = x /\ \A i \in 1..n : t[i] = s[i]
    BY AppendFacts
  <2> HIDE DEF t
  <2>2. PICK g \in [0..Len(t) -> Nat] :
          Total(t) = g[Len(t)] /\ g[0] = 0 /\ \A i \in 1..Len(t) : g[i] = g[i - 1] + t[i]
    BY <2>1, TotalFunction
  <2> DEFINE T == {m \in Nat : m <= n => g[m] = f[m]}
  <2>3. T = Nat
    <3>1. 0 \in T
      BY <1>1, <2>2
    <3>2. ASSUME NEW m \in T PROVE m + 1 \in T
      <4> SUFFICES ASSUME m + 1 <= n PROVE g[m + 1] = f[m + 1]
        OBVIOUS
      <4>1. m \in Nat /\ m + 1 \in 1..n /\ m + 1 \in 1..Len(t) /\ m + 1 - 1 = m /\ g[m] = f[m]
        BY <2>1
      <4>2. g[m + 1] = g[m] + t[m + 1] /\ f[m + 1] = f[m] + s[m + 1]
        BY <1>1, <2>2, <4>1
      <4> QED BY <2>1, <4>1, <4>2
    <3> HIDE DEF T
    <3>3. T \subseteq Nat BY DEF T
    <3> QED BY <3>1, <3>2, <3>3, NatSetInduction
  <2>4. g[n] = f[n]
    BY <2>1, <2>3
  <2>5. n + 1 \in 1..Len(t) /\ n + 1 - 1 = n
    BY <2>1
  <2>6. g[n + 1] = g[n] + x
    <3> HIDE DEF T, n
    <3>1. g[n + 1] = g[n + 1 - 1] + t[n + 1]
      BY <2>1, <2>2, <2>5
    <3> QED BY <2>1, <2>5, <3>1
  <2> QED BY <1>1, <2>1, <2>2, <2>4, <2>6 DEF t
<1> QED BY <1>1, <1>2, <1>3

(* One enabled group enables its target. *)
LEMMA MergedEnabled ==
  ASSUME NEW all, Len(all) \in Nat, \A i \in 1..Len(all) : all[i].enabled \in BOOLEAN, NEW n
  PROVE  EnabledIn(all, n) <=> \E i \in 1..Len(all) : all[i].target = n /\ all[i].enabled
<1> DEFINE m == Len(all)
<1>0. m \in Nat /\ \A i \in 1..m : all[i].enabled \in BOOLEAN
  OBVIOUS
<1> DEFINE next(v, i) == IF all[i].target = n THEN MergeEnabled(v, all[i].enabled) ELSE v
           Is(f) == f = [i \in 0..m |-> IF i = 0 THEN FALSE ELSE next(f[i - 1], i)]
           step == [p \in (1..m) \X BOOLEAN |-> next(p[2], p[1])]
           upTo == CHOOSE f : Is(f)
           Enables(k) == \E i \in 1..k : all[i].target = n /\ all[i].enabled
<1>9. EnabledIn(all, n) = upTo[m]
  BY DEF EnabledIn
<1> HIDE DEF m
<1>1. ASSUME NEW i \in 1..m, NEW v \in BOOLEAN PROVE next(v, i) \in BOOLEAN
  BY <1>0 DEF MergeEnabled
<1>2. ASSUME NEW i \in 1..m, NEW v \in BOOLEAN PROVE step[<<i, v>>] = next(v, i)
  <2>1. <<i, v>> \in (1..m) \X BOOLEAN
    OBVIOUS
  <2> HIDE DEF next
  <2> QED BY <2>1
<1>3. PICK f \in [0..m -> BOOLEAN] : Follows(f, m, FALSE, step)
  <2> DEFINE S == BOOLEAN
  <2>1. Within(step, m, S)
    <3> HIDE DEF step, next
    <3> QED BY <1>1, <1>2 DEF Within
  <2>2. FALSE \in S
    OBVIOUS
  <2> HIDE DEF step, S
  <2>3. \E f \in [0..m -> S] : Follows(f, m, FALSE, step)
    BY <1>0, <2>1, <2>2, Recursion
  <2> QED BY <2>3 DEF S
<1>4. Is(f)
  <2> SUFFICES ASSUME NEW i \in 0..m PROVE f[i] = IF i = 0 THEN FALSE ELSE next(f[i - 1], i)
    <3> HIDE DEF next
    <3> QED OBVIOUS
  <2>1. f[i] = IF i = 0 THEN FALSE ELSE step[<<i, f[i - 1]>>]
    <3> HIDE DEF step
    <3> QED BY <1>3 DEF Follows
  <2>2. i # 0 => i \in 1..m /\ i - 1 \in 0..m
    BY <1>0
  <2>3. i # 0 => f[i - 1] \in BOOLEAN
    BY <2>2
  <2>4. i # 0 => step[<<i, f[i - 1]>>] = next(f[i - 1], i)
    <3> HIDE DEF step, next
    <3> QED BY <1>2, <2>2, <2>3
  <2> HIDE DEF step, next
  <2> QED BY <2>1, <2>4
<1>5. Is(upTo)
  <2> HIDE DEF Is
  <2> QED BY <1>4
<1> DEFINE T == {k \in Nat : k <= m => upTo[k] \in BOOLEAN /\ (upTo[k] <=> Enables(k))}
<1>6. T = Nat
  <2> HIDE DEF upTo, next
  <2>1. 0 \in T
    <3>1. upTo[0] = FALSE /\ ~Enables(0)
      BY <1>0, <1>5
    <3> HIDE DEF Enables
    <3> QED BY <3>1
  <2>2. ASSUME NEW k \in T PROVE k + 1 \in T
    <3> SUFFICES ASSUME k + 1 <= m PROVE upTo[k + 1] \in BOOLEAN /\ (upTo[k + 1] <=> Enables(k + 1))
      <4> HIDE DEF Enables
      <4> QED OBVIOUS
    <3>1. k \in Nat /\ k + 1 \in 1..m /\ k + 1 # 0 /\ k + 1 - 1 = k
      BY <1>0
    <3>2. upTo[k] \in BOOLEAN /\ (upTo[k] <=> Enables(k))
      <4> HIDE DEF Enables
      <4> QED BY <1>0, <3>1
    <3>3. upTo[k + 1] = next(upTo[k], k + 1)
      <4>1. k + 1 \in 0..m
        BY <3>1
      <4>2. ASSUME NEW i \in 0..m, i # 0 PROVE upTo[i] = next(upTo[i - 1], i)
        <5> HIDE DEF T, Enables, next
        <5> QED BY <1>5, <4>2
      <4> HIDE DEF T, Enables, next, Is
      <4>3. upTo[k + 1] = next(upTo[k + 1 - 1], k + 1)
        BY <3>1, <4>1, <4>2
      <4> QED BY <3>1, <4>3
    <3>4. Enables(k + 1) <=> Enables(k) \/ (all[k + 1].target = n /\ all[k + 1].enabled)
      <4>1. \A i \in 1..(k + 1) : i \in 1..k \/ i = k + 1
        BY <3>1
      <4>2. \A i \in 1..k : i \in 1..(k + 1)
        BY <3>1
      <4>3. k + 1 \in 1..(k + 1)
        BY <3>1
      <4> QED BY <4>1, <4>2, <4>3
    <3>5. all[k + 1].enabled \in BOOLEAN
      BY <1>0, <3>1
    <3> HIDE DEF Enables, T, Is
    <3>6. CASE all[k + 1].target = n /\ all[k + 1].enabled
      <4>1. upTo[k + 1] = TRUE
        BY <3>3, <3>6 DEF next, MergeEnabled
      <4> QED BY <3>4, <3>6, <4>1
    <3>7. CASE ~(all[k + 1].target = n /\ all[k + 1].enabled)
      <4>1. upTo[k + 1] = upTo[k]
        BY <3>3, <3>7 DEF next, MergeEnabled
      <4> QED BY <3>2, <3>4, <3>7, <4>1
    <3> QED BY <3>6, <3>7
  <2> HIDE DEF T
  <2>3. T \subseteq Nat BY DEF T
  <2> QED BY <2>1, <2>2, <2>3, NatSetInduction
<1>7. upTo[m] <=> Enables(m)
  <2> HIDE DEF upTo, Enables
  <2> QED BY <1>0, <1>6
<1> QED BY <1>7, <1>9 DEF m

(* The rules of one target. *)
CountFor(groups, n) ==
  Total([i \in DOMAIN groups |-> IF groups[i].target = n THEN Count(groups[i]) ELSE 0])

(* What the inventory shows. *)
LEMMA InventoryFacts ==
  ASSUME domains \in FileOf(Seq(Labels)), blocks \in FileOf(CIDRs)
  PROVE  /\ DOMAIN Inventory = NamesOf(ToSet(Groups(domains))) \cup NamesOf(ToSet(Groups(blocks))) \cup ToSet(order)
         /\ \A n \in DOMAIN Inventory :
              /\ Inventory[n].enabled <=> n \in Used(domains, blocks)
              /\ Inventory[n].domainRules = CountFor(Groups(domains), n)
              /\ Inventory[n].cidrRules = CountFor(Groups(blocks), n)
<1> DEFINE ds == Groups(domains)
           bs == Groups(blocks)
           all == ds \o bs
           m == Len(all)
           shown == NamesOf(ToSet(ds)) \cup NamesOf(ToSet(bs)) \cup ToSet(order)
<1>1. Inventory = [n \in shown |-> [enabled |-> EnabledIn(all, n), domainRules |-> CountFor(ds, n),
                                     cidrRules |-> CountFor(bs, n)]]
  BY DEF Inventory, CountFor
<1> DEFINE D == GroupsOf(Seq(Labels))
           B == GroupsOf(CIDRs)
<1>2. ds \in Seq(D) /\ bs \in Seq(B)
  <2> HIDE DEF ds, bs, D, B
  <2> QED BY GroupsType DEF ds, bs, D, B
<1>3. \A g \in D \cup B : g.enabled \in BOOLEAN
  BY DEF GroupsOf
<1> HIDE DEF D, B, ds, bs
<1>4. /\ m = Len(ds) + Len(bs) /\ m \in Nat /\ Len(ds) \in Nat /\ Len(bs) \in Nat /\ DOMAIN all = 1..m
      /\ \A i \in 1..Len(ds) : all[i] = ds[i]
      /\ \A i \in 1..Len(bs) : all[Len(ds) + i] = bs[i]
      /\ DOMAIN ds = 1..Len(ds) /\ DOMAIN bs = 1..Len(bs)
  BY <1>2
<1>5. \A i \in 1..m : i \in 1..Len(ds) \/ (i - Len(ds) \in 1..Len(bs) /\ i = Len(ds) + (i - Len(ds)))
  <2> HIDE DEF m
  <2> QED BY <1>4
<1>6. \A i \in 1..m : all[i] \in D \cup B
  <2> HIDE DEF m
  <2> QED BY <1>2, <1>4, <1>5
<1>7. \A i \in 1..m : all[i].enabled \in BOOLEAN
  <2> HIDE DEF m, all
  <2> QED BY <1>3, <1>6
<1>8. ASSUME NEW n PROVE EnabledIn(all, n) <=> \E i \in 1..m : all[i].target = n /\ all[i].enabled
  <2> HIDE DEF all
  <2> QED BY <1>4, <1>7, MergedEnabled
<1>9. ASSUME NEW n
      PROVE  n \in Used(domains, blocks) <=> \E i \in 1..m : all[i].target = n /\ all[i].enabled
  <2>1. n \in Used(domains, blocks) <=> \/ \E i \in 1..Len(ds) : ds[i].target = n /\ ds[i].enabled
                                        \/ \E i \in 1..Len(bs) : bs[i].target = n /\ bs[i].enabled
    BY <1>4 DEF Used, Enabled, NamesOf, ToSet, ds, bs
  <2>2. \A i \in 1..Len(ds) : i \in 1..m /\ all[i] = ds[i]
    <3> HIDE DEF all, m
    <3> QED BY <1>4
  <2>3. \A i \in 1..Len(bs) : Len(ds) + i \in 1..m /\ all[Len(ds) + i] = bs[i]
    <3> SUFFICES ASSUME NEW i \in 1..Len(bs) PROVE Len(ds) + i \in 1..m /\ all[Len(ds) + i] = bs[i]
      OBVIOUS
    <3>1. i \in Nat /\ 1 <= i /\ i <= Len(bs)
      BY <1>4
    <3> HIDE DEF all, m
    <3>2. all[Len(ds) + i] = bs[i]
      BY <1>4
    <3> QED BY <1>4, <3>1, <3>2
  <2> HIDE DEF all, m
  <2>4. ASSUME NEW i \in 1..m, all[i].target = n, all[i].enabled
        PROVE  \/ \E j \in 1..Len(ds) : ds[j].target = n /\ ds[j].enabled
               \/ \E j \in 1..Len(bs) : bs[j].target = n /\ bs[j].enabled
    <3>1. CASE i \in 1..Len(ds)
      BY <2>2, <2>4, <3>1
    <3>2. CASE i - Len(ds) \in 1..Len(bs) /\ i = Len(ds) + (i - Len(ds))
      <4> DEFINE j == i - Len(ds)
      <4>1. j \in 1..Len(bs) /\ all[Len(ds) + j] = bs[j] /\ i = Len(ds) + j
        BY <2>3, <3>2
      <4> HIDE DEF j
      <4> QED BY <2>4, <4>1
    <3> QED BY <1>5, <3>1, <3>2
  <2> QED BY <2>1, <2>2, <2>3, <2>4
<1>10. ASSUME NEW n \in DOMAIN Inventory
       PROVE  /\ Inventory[n].enabled <=> n \in Used(domains, blocks)
              /\ Inventory[n].domainRules = CountFor(ds, n) /\ Inventory[n].cidrRules = CountFor(bs, n)
  <2> HIDE DEF all, shown
  <2>1. /\ Inventory[n].enabled = EnabledIn(all, n)
        /\ Inventory[n].domainRules = CountFor(ds, n) /\ Inventory[n].cidrRules = CountFor(bs, n)
    BY <1>1
  <2> QED BY <1>8, <1>9, <2>1
<1>11. DOMAIN Inventory = shown
  BY <1>1
<1> QED BY <1>10, <1>11 DEF ds, bs

(* The sum of two lists, place by place, has the sum of both. *)
LEMMA TotalPlus ==
  ASSUME NEW s \in Seq(Nat), NEW t \in Seq(Nat), NEW u \in Seq(Nat),
         Len(s) = Len(u), Len(t) = Len(u), \A i \in 1..Len(u) : u[i] = s[i] + t[i]
  PROVE  Total(u) = Total(s) + Total(t)
<1> DEFINE n == Len(u)
<1>1. n \in Nat /\ n = Len(s) /\ n = Len(t) /\ \A i \in 1..n : s[i] \in Nat /\ t[i] \in Nat
  OBVIOUS
<1>2. PICK f \in [0..n -> Nat] : Total(s) = f[n] /\ f[0] = 0 /\ \A i \in 1..n : f[i] = f[i - 1] + s[i]
  <2>1. \E f \in [0..Len(s) -> Nat] :
          Total(s) = f[Len(s)] /\ f[0] = 0 /\ \A i \in 1..Len(s) : f[i] = f[i - 1] + s[i]
    BY TotalFunction
  <2>2. n = Len(s)
    OBVIOUS
  <2> HIDE DEF n
  <2> QED BY <2>1, <2>2
<1>3. PICK g \in [0..n -> Nat] : Total(t) = g[n] /\ g[0] = 0 /\ \A i \in 1..n : g[i] = g[i - 1] + t[i]
  <2>1. \E g \in [0..Len(t) -> Nat] :
          Total(t) = g[Len(t)] /\ g[0] = 0 /\ \A i \in 1..Len(t) : g[i] = g[i - 1] + t[i]
    BY TotalFunction
  <2>2. n = Len(t)
    OBVIOUS
  <2> HIDE DEF n
  <2> QED BY <2>1, <2>2
<1>4. PICK h \in [0..n -> Nat] : Total(u) = h[n] /\ h[0] = 0 /\ \A i \in 1..n : h[i] = h[i - 1] + u[i]
  BY TotalFunction
<1> HIDE DEF n
<1> DEFINE T == {m \in Nat : m <= n => h[m] = f[m] + g[m]}
<1>5. 0 \in T
  BY <1>1, <1>2, <1>3, <1>4
<1>6. ASSUME NEW m \in T PROVE m + 1 \in T
  <2> SUFFICES ASSUME m + 1 <= n PROVE h[m + 1] = f[m + 1] + g[m + 1]
    OBVIOUS
  <2>1. m \in Nat /\ m + 1 \in 1..n /\ m + 1 - 1 = m /\ m \in 0..n /\ h[m] = f[m] + g[m]
    BY <1>1
  <2>2. f[m + 1] = f[m + 1 - 1] + s[m + 1] /\ g[m + 1] = g[m + 1 - 1] + t[m + 1] /\ h[m + 1] = h[m + 1 - 1] + u[m + 1]
    BY <1>2, <1>3, <1>4, <2>1
  <2>3. u[m + 1] = s[m + 1] + t[m + 1] /\ s[m + 1] \in Nat /\ t[m + 1] \in Nat /\ f[m] \in Nat /\ g[m] \in Nat
    BY <1>1, <2>1 DEF n
  <2> QED BY <2>1, <2>2, <2>3
<1>7. T = Nat
  <2> HIDE DEF T
  <2>1. T \subseteq Nat BY DEF T
  <2> QED BY <1>5, <1>6, <2>1, NatSetInduction
<1>8. h[n] = f[n] + g[n]
  <2>1. n \in T
    BY <1>1, <1>7
  <2> QED BY <1>1, <2>1
<1> QED BY <1>2, <1>3, <1>4, <1>8

(* A list of zeros but for one place has that for its sum. *)
LEMMA TotalOne ==
  ASSUME NEW s \in Seq(Nat), NEW k \in DOMAIN s, \A i \in DOMAIN s \ {k} : s[i] = 0
  PROVE  Total(s) = s[k]
<1> DEFINE n == Len(s)
<1>1. n \in Nat /\ DOMAIN s = 1..n /\ k \in 1..n /\ s[k] \in Nat
  OBVIOUS
<1>2. PICK f \in [0..n -> Nat] : Total(s) = f[n] /\ f[0] = 0 /\ \A i \in 1..n : f[i] = f[i - 1] + s[i]
  BY TotalFunction
<1> HIDE DEF n
<1> DEFINE T == {m \in Nat : m <= n => f[m] = IF m < k THEN 0 ELSE s[k]}
<1>3. 0 \in T
  BY <1>1, <1>2
<1>4. ASSUME NEW m \in T PROVE m + 1 \in T
  <2> SUFFICES ASSUME m + 1 <= n PROVE f[m + 1] = IF m + 1 < k THEN 0 ELSE s[k]
    OBVIOUS
  <2>1. m \in Nat /\ k \in Nat /\ m + 1 \in 1..n /\ m + 1 - 1 = m /\ f[m] = IF m < k THEN 0 ELSE s[k]
    BY <1>1
  <2>2. f[m + 1] = f[m + 1 - 1] + s[m + 1]
    BY <1>2, <2>1
  <2>3. m + 1 # k => s[m + 1] = 0
    BY <1>1, <2>1
  <2> QED BY <1>1, <2>1, <2>2, <2>3
<1>5. T = Nat
  <2> HIDE DEF T
  <2>1. T \subseteq Nat BY DEF T
  <2> QED BY <1>3, <1>4, <2>1, NatSetInduction
<1>6. f[n] = s[k]
  BY <1>1, <1>5
<1> QED BY <1>2, <1>6

(* The rules of each group, and of each of the names.                       *)
Counts(groups) == [j \in DOMAIN groups |-> Count(groups[j])]

CountsByName(names, groups) ==
  [i \in DOMAIN names |->
     Total([j \in DOMAIN groups |-> IF groups[j].target = names[i] THEN Count(groups[j]) ELSE 0])]

(* Counted by their targets, the rules of the groups are all counted once.  *)
LEMMA CountByTarget ==
  ASSUME NEW S, NEW names \in Seq(S), Distinct(names),
         NEW G, \A g \in G : g.target \in ToSet(names) /\ Count(g) \in Nat, NEW groups \in Seq(G)
  PROVE  Total(CountsByName(names, groups)) = Total(Counts(groups))
<1> DEFINE of(gs, i) == [j \in DOMAIN gs |-> IF gs[j].target = names[i] THEN Count(gs[j]) ELSE 0]
           counts(gs) == [j \in DOMAIN gs |-> Count(gs[j])]
           totals(gs) == [i \in DOMAIN names |-> Total(of(gs, i))]
           T == {gs \in Seq(G) : Total(totals(gs)) = Total(counts(gs))}
           n == Len(names)
<1>1. n \in Nat /\ DOMAIN names = 1..n
  OBVIOUS
<1>2. ASSUME NEW gs \in Seq(G)
      PROVE  counts(gs) \in Seq(Nat) /\ \A i \in 1..n : of(gs, i) \in Seq(Nat)
  <2>1. \A j \in DOMAIN gs : gs[j] \in G
    OBVIOUS
  <2>2. \A j \in DOMAIN gs : Count(gs[j]) \in Nat
    BY <2>1
  <2>3. Len(gs) \in Nat /\ DOMAIN gs = 1..Len(gs)
    OBVIOUS
  <2> QED BY <2>2, <2>3
<1>3. ASSUME NEW gs \in Seq(G) PROVE totals(gs) \in Seq(Nat) /\ Len(totals(gs)) = n
  <2> HIDE DEF of
  <2>1. \A i \in 1..n : Total(of(gs, i)) \in Nat
    BY <1>2, TotalFacts
  <2> QED BY <1>1, <2>1
<1>4. <<>> \in T
  <2>1. counts(<<>>) = <<>> /\ \A i \in 1..n : of(<<>>, i) = <<>>
    OBVIOUS
  <2>2. Total(counts(<<>>)) = 0 /\ \A i \in 1..n : Total(of(<<>>, i)) = 0
    <3> HIDE DEF of, counts
    <3>1. <<>> \in Seq(Nat)
      OBVIOUS
    <3>2. Total(<<>>) = 0
      BY <3>1, TotalFacts
    <3> QED BY <2>1, <3>2
  <2> DEFINE zero == [i \in 1..n |-> 0]
  <2>3. totals(<<>>) = zero
    <3> HIDE DEF of
    <3> QED BY <1>1, <2>2
  <2>4. Total(zero) = Total(zero) + Total(zero)
    <3>1. zero \in Seq(Nat) /\ Len(zero) = n /\ \A i \in 1..n : zero[i] = zero[i] + zero[i]
      BY <1>1
    <3> HIDE DEF zero
    <3> QED BY <3>1, TotalPlus
  <2>5. Total(zero) \in Nat
    <3>1. zero \in Seq(Nat)
      BY <1>1
    <3> HIDE DEF zero
    <3> QED BY <3>1, TotalFacts
  <2>6. <<>> \in Seq(G)
    OBVIOUS
  <2> HIDE DEF totals, counts, zero
  <2> QED BY <2>2, <2>3, <2>4, <2>5, <2>6
<1>5. ASSUME NEW gs \in T \cap Seq(G), NEW g \in G PROVE Append(gs, g) \in T
  <2> DEFINE more == Append(gs, g)
             this(i) == IF g.target = names[i] THEN Count(g) ELSE 0
             added == [i \in DOMAIN names |-> this(i)]
  <2>1. more \in Seq(G) /\ gs \in Seq(G) /\ Len(gs) \in Nat /\ DOMAIN gs = 1..Len(gs)
        /\ DOMAIN more = 1..(Len(gs) + 1) /\ more[Len(gs) + 1] = g /\ \A j \in 1..Len(gs) : more[j] = gs[j]
    OBVIOUS
  <2>2. Count(g) \in Nat /\ g.target \in ToSet(names)
    OBVIOUS
  <2> HIDE DEF more, T
  <2>3. counts(more) = Append(counts(gs), Count(g))
    <3> DEFINE u == counts(gs)
    <3>1. u \in Seq(Nat) /\ Len(u) = Len(gs) /\ \A j \in 1..Len(gs) : u[j] = Count(gs[j])
      BY <1>2, <2>1
    <3> HIDE DEF u
    <3> QED BY <2>1, <2>2, <3>1
  <2>4. ASSUME NEW i \in 1..n PROVE of(more, i) = Append(of(gs, i), this(i))
    <3> DEFINE u == of(gs, i)
    <3>1. u \in Seq(Nat) /\ Len(u) = Len(gs)
          /\ \A j \in 1..Len(gs) : u[j] = IF gs[j].target = names[i] THEN Count(gs[j]) ELSE 0
      BY <1>2, <2>1
    <3> HIDE DEF u
    <3> QED BY <2>1, <2>2, <3>1
  <2>5. Total(counts(more)) = Total(counts(gs)) + Count(g)
    <3> HIDE DEF counts
    <3> QED BY <1>2, <2>1, <2>2, <2>3, TotalFacts
  <2>6. \A i \in 1..n : this(i) \in Nat /\ Total(of(more, i)) = Total(of(gs, i)) + this(i)
    <3>1. \A i \in 1..n : this(i) \in Nat
      BY <2>2
    <3> HIDE DEF of, this
    <3> QED BY <1>2, <2>1, <2>4, <3>1, TotalFacts
  <2>7. added \in Seq(Nat) /\ Len(added) = n /\ \A i \in 1..n : added[i] = this(i)
    <3>1. \A i \in 1..n : this(i) \in Nat
      BY <2>6
    <3> HIDE DEF this, n
    <3> QED BY <1>1, <3>1
  <2>8. Total(added) = Count(g)
    <3>1. PICK k \in 1..n : names[k] = g.target
      BY <1>1, <2>2 DEF ToSet
    <3>2. added[k] = Count(g) /\ \A i \in 1..n \ {k} : added[i] = 0
      <4>1. \A i \in 1..n \ {k} : names[i] # g.target
        BY <1>1, <3>1 DEF Distinct
      <4> QED BY <1>1, <3>1, <4>1
    <3>3. DOMAIN added = 1..n
      BY <1>1
    <3> HIDE DEF added
    <3> QED BY <2>7, <3>2, <3>3, TotalOne
  <2>9. \A i \in 1..n : totals(more)[i] = totals(gs)[i] + added[i]
    <3> HIDE DEF of, this
    <3> QED BY <1>1, <2>6
  <2>10. Total(totals(more)) = Total(totals(gs)) + Total(added)
    <3> DEFINE was == totals(gs)
               is == totals(more)
    <3> HIDE DEF n, totals, added
    <3>1. was \in Seq(Nat) /\ is \in Seq(Nat) /\ Len(was) = n /\ Len(is) = n
      BY <1>3, <2>1
    <3>2. \A i \in 1..Len(is) : is[i] = was[i] + added[i]
      BY <2>9, <3>1
    <3>3. Len(was) = Len(is) /\ Len(added) = Len(is) /\ added \in Seq(Nat)
      BY <2>7, <3>1
    <3> HIDE DEF was, is, T, of, counts, this
    <3>4. Total(is) = Total(was) + Total(added)
      BY <3>1, <3>2, <3>3, TotalPlus
    <3> QED BY <3>4 DEF was, is
  <2>11. Total(totals(gs)) = Total(counts(gs))
    BY DEF T
  <2> HIDE DEF totals, counts, added
  <2> QED BY <2>1, <2>5, <2>8, <2>10, <2>11 DEF T, more
<1>6. Seq(G) \subseteq T
  <2> HIDE DEF T
  <2> QED BY <1>4, <1>5, SeqSetInduction
<1> QED BY <1>6 DEF T, Counts, CountsByName

(* What is kept of a sequence, each once. *)
LEMMA OnceFacts ==
  ASSUME NEW S, NEW s \in Seq(S), NEW kept
  PROVE  /\ FirstOnes(s, kept) \in Seq(S)
         /\ Distinct(FirstOnes(s, kept))
         /\ ToSet(FirstOnes(s, kept)) = kept \cap ToSet(s)
<1> DEFINE names == FirstOnes(s, kept)
<1>1. /\ names \in Seq(S)
      /\ \A i \in DOMAIN s : s[i] \in kept /\ First(s, i) => \E p \in DOMAIN names : names[p] = s[i]
      /\ \A p \in DOMAIN names : \E i \in DOMAIN s : First(s, i) /\ s[i] \in kept /\ names[p] = s[i]
      /\ \A p, q \in DOMAIN names : p < q =>
           \E i, j \in DOMAIN s : i < j /\ First(s, i) /\ First(s, j) /\ names[p] = s[i] /\ names[q] = s[j]
  BY FirstOnesFacts
<1> HIDE DEF names
<1>2. \A p \in DOMAIN names : names[p] \in kept \cap ToSet(s)
  BY <1>1 DEF ToSet
<1>3. ASSUME NEW n \in kept \cap ToSet(s) PROVE n \in ToSet(names)
  <2>1. PICK i \in DOMAIN s : s[i] = n
    BY <1>3 DEF ToSet
  <2>2. PICK j \in DOMAIN s : First(s, j) /\ s[j] = s[i]
    BY <2>1, FirstExists
  <2> QED BY <1>1, <2>1, <2>2 DEF ToSet
<1>4. ToSet(names) = kept \cap ToSet(s)
  <2>1. \A n \in ToSet(names) : n \in kept \cap ToSet(s)
    BY <1>2 DEF ToSet
  <2> QED BY <1>3, <2>1
<1>5. ASSUME NEW p \in DOMAIN names, NEW q \in DOMAIN names, p < q PROVE names[p] # names[q]
  <2>1. PICK i, j \in DOMAIN s : i < j /\ First(s, i) /\ First(s, j) /\ names[p] = s[i] /\ names[q] = s[j]
    BY <1>1, <1>5
  <2>2. i \in 1..(j - 1)
    BY <2>1
  <2> QED BY <2>1, <2>2 DEF First
<1>6. Distinct(names)
  <2>1. \A p, q \in DOMAIN names : p < q \/ q < p \/ p = q
    BY <1>1
  <2> QED BY <1>5, <2>1 DEF Distinct
<1> QED BY <1>1, <1>4, <1>6 DEF names

(* The order of a diagnosis has every target in use once. *)
LEMMA NamesInUse ==
  ASSUME NEW ds \in FileOf(Seq(Labels)), NEW bs \in FileOf(CIDRs), NEW po, po \in Seq(ToSet(po))
  PROVE  /\ TargetOrder(ds, bs, po) \in Seq(ToSet(po) \cup Targets)
         /\ Distinct(TargetOrder(ds, bs, po))
         /\ ToSet(TargetOrder(ds, bs, po)) = Used(ds, bs)
         /\ Used(ds, bs) \subseteq Targets
<1> DEFINE S == ToSet(po) \cup Targets
           s == po \o Names
           kept == Used(ds, bs)
<1>1. s \in Seq(S) /\ \A n \in Targets : n \in ToSet(s)
  BY PlacesFacts
<1>2. kept \subseteq Targets
  BY EnabledFacts DEF Used, NamesOf
<1> HIDE DEF s, S, kept
<1>3. /\ FirstOnes(s, kept) \in Seq(S) /\ Distinct(FirstOnes(s, kept))
      /\ ToSet(FirstOnes(s, kept)) = kept \cap ToSet(s)
  BY <1>1, OnceFacts
<1> QED BY <1>1, <1>2, <1>3 DEF TargetOrder, s, kept, S

(* The first of some names that is among the members. *)
LEMMA FirstInFacts ==
  ASSUME NEW S, NEW names \in Seq(S), NEW members
  PROVE  /\ FirstIn(names, members) = {} <=> \A n \in ToSet(names) : n \notin members
         /\ \A k \in DOMAIN names : names[k] \in members /\ (\A i \in 1..(k - 1) : names[i] \notin members) =>
              FirstIn(names, members) = {names[k]}
         /\ FirstIn(names, members) \subseteq ToSet(names) \cap members
<1> DEFINE held == {i \in DOMAIN names : names[i] \in members}
           k == Min(held)
<1>1. DOMAIN names \subseteq Nat /\ \A i \in DOMAIN names, j \in DOMAIN names : i < j => i \in 1..(j - 1)
  OBVIOUS
<1>2. held # {} => k \in held /\ \A i \in held : k <= i
  BY <1>1, LeastOf
<1>3. FirstIn(names, members) = IF held = {} THEN {} ELSE {names[k]}
  BY DEF FirstIn
<1> HIDE DEF k
<1>4. CASE held = {}
  BY <1>3, <1>4 DEF ToSet
<1>5. CASE held # {}
  <2>1. k \in DOMAIN names /\ names[k] \in members /\ \A i \in held : k <= i
    BY <1>2, <1>5
  <2>2. ASSUME NEW j \in DOMAIN names, names[j] \in members, \A i \in 1..(j - 1) : names[i] \notin members
        PROVE  k = j
    <3>1. k <= j /\ ~(k < j) /\ k \in Nat /\ j \in Nat
      BY <1>1, <2>1, <2>2
    <3> QED BY <3>1
  <2>3. FirstIn(names, members) = {names[k]} /\ names[k] \in ToSet(names)
    BY <1>3, <1>5, <2>1 DEF ToSet
  <2> HIDE DEF held
  <2> QED BY <2>1, <2>2, <2>3
<1> QED BY <1>4, <1>5

(* A candidate of a tag names a target in use. *)
LEMMA GeoIPCandidateFacts ==
  ASSUME NEW ds, NEW bs \in FileOf(CIDRs), NEW po, NEW address,
         NEW c \in GeoIPCandidates(Rules(ds, bs, po), address)
  PROVE  c.target \in Used(ds, bs)
<1> DEFINE names == TargetOrder(ds, bs, po)
<1>1. PICK b \in Enabled(bs) : \E p : c = Candidate(names, b.target, p)
  BY DEF GeoIPCandidates, Rules
<1>2. b.target \in NamesOf(Enabled(bs))
  BY EnabledFacts
<1> QED BY <1>1, <1>2 DEF Candidate, Used

(* Whatever a diagnosis of an address names is in use. *)
LEMMA DiagnosedInUse ==
  ASSUME domains \in FileOf(Seq(Labels)), blocks \in FileOf(CIDRs), order \in Seq(ToSet(order)),
         blocks # NoFile, NEW address, NEW members
  PROVE  DiagnoseIP(address, members).target \subseteq Used(domains, blocks)
<1> DEFINE names == TargetOrder(domains, blocks, order)
           candidates == CIDRCandidates(Now, address) \cup GeoIPCandidates(Now, address)
           winner == Winner(candidates)
           runtime == FirstIn(names, members)
<1>1. runtime \subseteq Used(domains, blocks)
  <2>1. names \in Seq(ToSet(order) \cup Targets) /\ ToSet(names) = Used(domains, blocks)
    BY NamesInUse
  <2> HIDE DEF names
  <2> QED BY <2>1, FirstInFacts
<1>2. winner # None => winner.target \in Used(domains, blocks)
  <2> SUFFICES ASSUME winner # None PROVE winner.target \in Used(domains, blocks)
    OBVIOUS
  <2> HIDE DEF candidates
  <2>1. PICK c \in candidates : winner = Named(c)
    BY WinnerFacts
  <2>2. Now = Rules(domains, blocks, order)
    BY DEF Now, Rules
  <2>3. c.target \in Used(domains, blocks)
    <3>1. CASE c \in CIDRCandidates(Rules(domains, blocks, order), address)
      BY <3>1, CIDRCandidateFacts
    <3>2. CASE c \in GeoIPCandidates(Rules(domains, blocks, order), address)
      BY <3>2, GeoIPCandidateFacts
    <3> QED BY <2>2, <3>1, <3>2 DEF candidates
  <2> QED BY <2>1, <2>3 DEF Named
<1>3. DiagnoseIP(address, members) =
        [matched |-> winner # None \/ runtime # {},
         target |-> IF runtime # {} THEN runtime ELSE IF winner = None THEN {} ELSE {winner.target}]
  BY DEF DiagnoseIP, ConfiguredWinner, RuntimeTarget
<1> HIDE DEF winner, runtime
<1> QED BY <1>1, <1>2, <1>3

(* The order of a diagnosis, which parts of the order the file may have.    *)
LEMMA OrderType ==
  ASSUME TypeOK
  PROVE  order \in Seq(ToSet(order))
<1>1. CASE order = <<>>
  BY <1>1
<1>2. CASE order \in PolicyOrders
  BY <1>2, DiagnosisAssumption
<1> QED BY <1>1, <1>2 DEF TypeOK

(* A group has a number of rules. *)
LEMMA CountIsNat ==
  ASSUME NEW value, NEW g \in GroupsOf(value)
  PROVE  Count(g) \in Nat
<1> DEFINE m == Len(g.values)
           n == Len(g.tags)
<1>1. g.values \in Seq(value) /\ g.tags \in Seq(Seq(Bytes))
  BY DEF GroupsOf
<1>2. m \in Nat /\ n \in Nat
  BY <1>1
<1>3. Count(g) = m + n
  BY DEF Count
<1> HIDE DEF m, n
<1> QED BY <1>2, <1>3

(* The rules of disabled groups. *)
DisabledRules(groups) ==
  Total([i \in DOMAIN groups |-> IF groups[i].enabled THEN 0 ELSE Count(groups[i])])

(* The rules of a file are those of its enabled and of its disabled groups. *)
LEMMA CountByState ==
  ASSUME NEW value, NEW f \in FileOf(value)
  PROVE  /\ Total(Counts(Groups(f))) = RuleCount(f) + DisabledRules(Groups(f))
         /\ (\A i \in DOMAIN Groups(f) : Groups(f)[i].enabled \/ Count(Groups(f)[i]) = 0) =>
              Total(Counts(Groups(f))) = RuleCount(f)
<1> DEFINE gs == Groups(f)
           n == Len(gs)
           on == [i \in DOMAIN gs |-> IF gs[i].enabled THEN Count(gs[i]) ELSE 0]
           off == [i \in DOMAIN gs |-> IF gs[i].enabled THEN 0 ELSE Count(gs[i])]
           counts == [i \in DOMAIN gs |-> Count(gs[i])]
<1>1. gs \in Seq(GroupsOf(value))
  BY GroupsType
<1>2. n \in Nat /\ DOMAIN gs = 1..n /\ \A i \in 1..n : gs[i] \in GroupsOf(value)
  <2> HIDE DEF gs
  <2> QED BY <1>1
<1>3. \A i \in 1..n : Count(gs[i]) \in Nat
  <2> HIDE DEF gs, n
  <2> QED BY <1>2, CountIsNat
<1> HIDE DEF gs, n
<1>4. on \in Seq(Nat) /\ off \in Seq(Nat) /\ counts \in Seq(Nat)
  BY <1>2, <1>3
<1>5. Len(on) = n /\ Len(off) = n /\ Len(counts) = n
  BY <1>2
<1>6. \A i \in 1..n : counts[i] = on[i] + off[i]
  BY <1>2, <1>3
<1>7. (\A i \in DOMAIN gs : gs[i].enabled \/ Count(gs[i]) = 0) => counts = on
  BY <1>2
<1>8. RuleCount(f) = Total(on) /\ DisabledRules(gs) = Total(off) /\ Counts(gs) = counts
  BY DEF RuleCount, DisabledRules, Counts, gs
<1> HIDE DEF on, off, counts
<1>9. Total(counts) = Total(on) + Total(off)
  BY <1>4, <1>5, <1>6, TotalPlus
<1> QED BY <1>7, <1>8, <1>9 DEF gs

(* Counted by the names of all targets, the rules of a file are all there,  *)
(* also if the names without a group are left out.                          *)
LEMMA CountByNames ==
  ASSUME NEW value, NEW f \in FileOf(value), NEW shown, NamesOf(ToSet(Groups(f))) \subseteq shown
  PROVE  Total([i \in DOMAIN Names |-> IF Names[i] \in shown THEN CountFor(Groups(f), Names[i]) ELSE 0])
           = Total(Counts(Groups(f)))
<1> DEFINE gs == Groups(f)
           G == GroupsOf(value)
<1>1. gs \in Seq(G) /\ \A g \in G : g.target \in ToSet(Names) /\ Count(g) \in Nat
  BY GroupsType, CountIsNat DEF GroupsOf, Targets
<1>2. Names \in Seq(Targets) /\ Distinct(Names)
  BY DiagnosisAssumption DEF Distinct
<1> HIDE DEF gs, G
<1>3. Total(CountsByName(Names, gs)) = Total(Counts(gs))
  BY <1>1, <1>2, CountByTarget
<1>4. ASSUME NEW n, n \notin shown PROVE CountFor(gs, n) = 0
  <2> DEFINE zero == [j \in DOMAIN gs |-> 0]
             of == [j \in DOMAIN gs |-> IF gs[j].target = n THEN Count(gs[j]) ELSE 0]
  <2>1. \A j \in DOMAIN gs : gs[j].target # n
    BY <1>4 DEF NamesOf, ToSet, gs
  <2>2. of = zero
    BY <2>1
  <2>3. zero \in Seq(Nat) /\ \A j \in DOMAIN zero : zero[j] = 0 + 0
    BY <1>1
  <2>4. CountFor(gs, n) = Total(of)
    BY DEF CountFor
  <2> HIDE DEF zero, of
  <2>5. Total(zero) = Total(zero) + Total(zero) /\ Total(zero) \in Nat
    <3>1. \A j \in 1..Len(zero) : zero[j] = zero[j] + zero[j]
      BY <2>3
    <3> QED BY <2>3, <3>1, TotalPlus, TotalFacts
  <2> QED BY <2>2, <2>4, <2>5
<1>5. [i \in DOMAIN Names |-> IF Names[i] \in shown THEN CountFor(gs, Names[i]) ELSE 0]
        = [i \in DOMAIN Names |-> CountFor(gs, Names[i])]
  BY <1>4
<1>6. CountsByName(Names, gs) = [i \in DOMAIN Names |-> CountFor(gs, Names[i])]
  BY DEF CountsByName, CountFor
<1> QED BY <1>3, <1>5, <1>6 DEF gs

(* A disabled target of domain.conf has no rules. *)
OffIsEmpty ==
  \A i \in DOMAIN Groups(domains) : Groups(domains)[i].enabled \/ Count(Groups(domains)[i]) = 0

LEMMA OffStep ==
  ASSUME domains \in FileOf(Seq(Labels)), OffIsEmpty, RuleNext
  PROVE  OffIsEmpty'
<1> DEFINE ds == Groups(domains)
           G == GroupsOf(Seq(Labels))
           Fine(g) == g.enabled \/ Count(g) = 0
<1>1. ds \in Seq(G) /\ \A i \in 1..Len(ds) : Fine(ds[i])
  BY GroupsType DEF OffIsEmpty
<1>2. ASSUME NEW gs \in Seq(G), domains' = gs, \A i \in 1..Len(gs) : Fine(gs[i])
      PROVE  OffIsEmpty'
  <2>1. Groups(domains') = gs \/ Groups(domains') = <<>>
    BY <1>2 DEF Groups
  <2> QED BY <1>2, <2>1 DEF OffIsEmpty
<1>3. ASSUME NEW g \in DomainGroups, AddDomains(g) PROVE OffIsEmpty'
  <2>1. g \in G /\ g.enabled
    BY DiagnosisAssumption DEF RuleGroups
  <2>2. domains' = Append(ds, g)
    BY <1>3 DEF AddDomains
  <2> HIDE DEF ds, G, Fine
  <2>3. /\ Append(ds, g) \in Seq(G)
        /\ \A i \in 1..Len(Append(ds, g)) : \/ i \in 1..Len(ds) /\ Append(ds, g)[i] = ds[i]
                                           \/ Append(ds, g)[i] = g
    BY <1>1, <2>1
  <2>4. \A i \in 1..Len(Append(ds, g)) : Fine(Append(ds, g)[i])
    BY <1>1, <2>1, <2>3 DEF Fine
  <2> QED BY <1>2, <2>2, <2>3, <2>4
<1>4. ASSUME NEW i \in DOMAIN ds, EditDomains(i) PROVE OffIsEmpty'
  <2>1. domains = ds /\ i \in 1..Len(ds)
    <3>1. domains # NoFile
      BY <1>4 DEF Groups
    <3> QED BY <1>1, <3>1 DEF Groups
  <2>2. domains' = RemoveAt(ds, i) \/ domains' = [ds EXCEPT ![i] = SwitchedOff(@)]
    BY <1>4, <2>1 DEF EditDomains
  <2>3. Fine(SwitchedOff(ds[i])) /\ SwitchedOff(ds[i]) \in G
    <3>1. ds[i] \in G
      BY <1>1, <2>1
    <3>2. /\ SwitchedOff(ds[i]).tags = <<>> /\ SwitchedOff(ds[i]).values = <<>>
          /\ SwitchedOff(ds[i]) \in G
      BY <3>1, SwitchedOffType
    <3> QED BY <3>2 DEF Count
  <2> HIDE DEF ds, G, Fine
  <2>4. CASE domains' = RemoveAt(ds, i)
    <3>1. /\ RemoveAt(ds, i) \in Seq(G)
          /\ \A k \in 1..Len(RemoveAt(ds, i)) : \E j \in 1..Len(ds) : RemoveAt(ds, i)[k] = ds[j]
      <4> DEFINE a == SubSeq(ds, 1, i - 1)
                 b == SubSeq(ds, i + 1, Len(ds))
      <4>1. a \in Seq(G) /\ b \in Seq(G) /\ RemoveAt(ds, i) = a \o b
        BY <1>1, <2>1 DEF RemoveAt
      <4>2. \A k \in 1..Len(a) : k \in 1..Len(ds) /\ a[k] = ds[k]
        BY <1>1, <2>1
      <4>3. \A k \in 1..Len(b) : k + i \in 1..Len(ds) /\ b[k] = ds[k + i]
        BY <1>1, <2>1
      <4> HIDE DEF a, b
      <4>4. /\ RemoveAt(ds, i) \in Seq(G) /\ Len(RemoveAt(ds, i)) = Len(a) + Len(b)
            /\ Len(a) \in Nat /\ Len(b) \in Nat
        BY <4>1
      <4>5. ASSUME NEW k \in 1..Len(RemoveAt(ds, i)) PROVE \E j \in 1..Len(ds) : RemoveAt(ds, i)[k] = ds[j]
        <5>1. CASE k \in 1..Len(a)
          BY <4>1, <4>2, <5>1
        <5>2. CASE k - Len(a) \in 1..Len(b)
          <6>1. RemoveAt(ds, i)[k] = b[k - Len(a)]
            BY <4>1, <4>4, <5>2
          <6> QED BY <4>3, <5>2, <6>1
        <5> QED BY <4>4, <5>1, <5>2
      <4> QED BY <4>4, <4>5
    <3> QED BY <1>1, <1>2, <2>4, <3>1
  <2>5. CASE domains' = [ds EXCEPT ![i] = SwitchedOff(@)]
    <3> DEFINE gs == [ds EXCEPT ![i] = SwitchedOff(@)]
    <3>1. gs \in Seq(G) /\ Len(gs) = Len(ds) /\ gs[i] = SwitchedOff(ds[i])
          /\ \A k \in 1..Len(ds) : k # i => gs[k] = ds[k]
      BY <1>1, <2>1, <2>3
    <3> HIDE DEF gs
    <3>2. \A k \in 1..Len(gs) : Fine(gs[k])
      BY <1>1, <2>3, <3>1
    <3> QED BY <1>2, <2>5, <3>1, <3>2 DEF gs
  <2> QED BY <2>2, <2>4, <2>5
<1>5. ASSUME UNCHANGED domains PROVE OffIsEmpty'
  BY <1>5 DEF OffIsEmpty
<1> QED BY <1>3, <1>4, <1>5 DEF RuleNext, AddBlock, EditBlocks, SetOrder

LEMMA OffAlways == Spec => []OffIsEmpty
<1>1. Init => OffIsEmpty
  BY DEF Init, RuleInit, OffIsEmpty, Groups
<1>2. TypeOK /\ OffIsEmpty /\ [Next]_diagVars => OffIsEmpty'
  <2> SUFFICES ASSUME TypeOK, OffIsEmpty, [Next]_diagVars PROVE OffIsEmpty'
    OBVIOUS
  <2>1. CASE RuleNext
    BY <2>1, OffStep, TypeIs
  <2>2. CASE UNCHANGED domains
    BY <2>2 DEF OffIsEmpty
  <2> QED BY <2>1, <2>2 DEF Next, diagVars, ruleVars
<1> QED BY <1>1, <1>2, TypeCorrect, PTL DEF Spec

(* The pages agree in every state in which the files hold groups. *)
LEMMA TargetsAgreeAlways ==
  ASSUME TypeOK, OffIsEmpty
  PROVE  TargetsAgree
<1> DEFINE names == TargetOrder(domains, blocks, order)
           used == {n \in DOMAIN Inventory : Inventory[n].enabled}
           ds == Groups(domains)
           bs == Groups(blocks)
           shown == DOMAIN Inventory
           S == ToSet(order) \cup Targets
           U == Used(domains, blocks)
<1>1. /\ domains \in FileOf(Seq(Labels)) /\ blocks \in FileOf(CIDRs)
      /\ order \in Seq(ToSet(order))
  BY TypeIs, OrderType
<1>2. names \in Seq(S) /\ Distinct(names) /\ ToSet(names) = U /\ U \subseteq Targets
  BY <1>1, NamesInUse
<1>3. /\ shown = NamesOf(ToSet(ds)) \cup NamesOf(ToSet(bs)) \cup ToSet(order)
      /\ \A n \in shown : /\ Inventory[n].enabled <=> n \in U
                          /\ Inventory[n].domainRules = CountFor(ds, n)
                          /\ Inventory[n].cidrRules = CountFor(bs, n)
  BY <1>1, InventoryFacts
<1>4. U \subseteq shown
  <2>1. U = NamesOf(Enabled(domains)) \cup NamesOf(Enabled(blocks))
    BY DEF Used
  <2>2. Enabled(domains) \subseteq ToSet(ds) /\ Enabled(blocks) \subseteq ToSet(bs)
    BY DEF Enabled
  <2>3. \A A, B : A \subseteq B => NamesOf(A) \subseteq NamesOf(B)
    BY DEF NamesOf
  <2> HIDE DEF U, ds, bs, shown
  <2> QED BY <1>3, <2>1, <2>2, <2>3
<1> HIDE DEF names, U
<1>5. used = U
  BY <1>3, <1>4
<1>6. Len(names) = Cardinality(U)
  BY <1>2, DistinctCardinality
<1>7. Total([i \in DOMAIN Names |-> IF Names[i] \in shown THEN Inventory[Names[i]].domainRules ELSE 0])
        = RuleCount(domains)
  <2>1. Total([i \in DOMAIN Names |-> IF Names[i] \in shown THEN CountFor(ds, Names[i]) ELSE 0])
          = Total(Counts(ds))
    <3>1. NamesOf(ToSet(ds)) \subseteq shown
      BY <1>3
    <3> HIDE DEF shown
    <3> QED BY <1>1, <3>1, CountByNames
  <2>2. Total(Counts(ds)) = RuleCount(domains)
    BY <1>1, CountByState DEF OffIsEmpty
  <2>3. [i \in DOMAIN Names |-> IF Names[i] \in shown THEN Inventory[Names[i]].domainRules ELSE 0]
          = [i \in DOMAIN Names |-> IF Names[i] \in shown THEN CountFor(ds, Names[i]) ELSE 0]
    <3> HIDE DEF ds, bs, shown
    <3> QED BY <1>3
  <2> QED BY <2>1, <2>2, <2>3
<1>8. Total([i \in DOMAIN Names |-> IF Names[i] \in shown THEN Inventory[Names[i]].cidrRules ELSE 0])
        = RuleCount(blocks) + DisabledRules(bs)
  <2>1. Total([i \in DOMAIN Names |-> IF Names[i] \in shown THEN CountFor(bs, Names[i]) ELSE 0])
          = Total(Counts(bs))
    <3>1. NamesOf(ToSet(bs)) \subseteq shown
      BY <1>3
    <3> HIDE DEF shown
    <3> QED BY <1>1, <3>1, CountByNames
  <2>2. Total(Counts(bs)) = RuleCount(blocks) + DisabledRules(bs)
    BY <1>1, CountByState
  <2>3. [i \in DOMAIN Names |-> IF Names[i] \in shown THEN Inventory[Names[i]].cidrRules ELSE 0]
          = [i \in DOMAIN Names |-> IF Names[i] \in shown THEN CountFor(bs, Names[i]) ELSE 0]
    <3> HIDE DEF ds, bs, shown
    <3> QED BY <1>3
  <2> QED BY <2>1, <2>2, <2>3
<1>9. \A members \in SUBSET Targets, a \in Addresses :
        blocks # NoFile => DiagnoseIP(a, members).target \subseteq U
  BY <1>1, DiagnosedInUse DEF U
<1>10. ToSet(names) = used /\ Len(names) = Cardinality(used)
  BY <1>2, <1>5, <1>6
<1>11. \A members \in SUBSET Targets, a \in Addresses :
         blocks # NoFile => DiagnoseIP(a, members).target \subseteq used
  BY <1>5, <1>9
<1> QED BY <1>7, <1>8, <1>10, <1>11 DEF TargetsAgree, DisabledRules, names

(* The pages agree about the targets in use; about the rules of domain.conf *)
(* they agree, and about those of ip.list but for the rules of disabled     *)
(* blocks, which the inventory counts and the overview does not             *)
(* (targetInventory, countDomainRules, countCIDRRules).                     *)
THEOREM PagesAgree == Spec => []TargetsAgree
<1>1. TypeOK /\ OffIsEmpty => TargetsAgree
  BY TargetsAgreeAlways
<1> QED BY <1>1, TypeCorrect, OffAlways, PTL

-----------------------------------------------------------------------------
(* What was written is read back: the entries.                              *)

(* What is in two sequences put together can be taken apart. *)
LEMMA ConcatParts ==
  ASSUME NEW S, NEW s \in Seq(S), NEW t \in Seq(S)
  PROVE  /\ From(s \o t, Len(s) + 1) = t
         /\ SubSeq(s \o t, 1, Len(s)) = s /\ UpTo(s \o t, Len(s)) = s
<1> DEFINE d == s \o t
<1>1. d \in Seq(S) /\ Len(d) = Len(s) + Len(t) /\ Len(s) \in Nat /\ Len(t) \in Nat
      /\ (\A i \in 1..Len(s) : d[i] = s[i]) /\ (\A i \in 1..Len(t) : d[Len(s) + i] = t[i])
  BY ConcatFacts
<1> HIDE DEF d
<1>2. From(d, Len(s) + 1) = t
  <2> DEFINE u == From(d, Len(s) + 1)
             k == Len(s) + 1
  <2>1. k \in 1..(Len(d) + 1) /\ Len(d) + 1 - k = Len(t)
    BY <1>1
  <2>0. d \in Seq(S)
    BY <1>1
  <2> HIDE DEF k
  <2>2. u \in Seq(S) /\ Len(u) = Len(d) + 1 - k /\ \A j \in 1..(Len(d) + 1 - k) : u[j] = d[k + j - 1]
    <3> HIDE DEF u
    <3>1. From(d, k) \in Seq(S) /\ Len(From(d, k)) = Len(d) + 1 - k
          /\ \A j \in 1..(Len(d) + 1 - k) : From(d, k)[j] = d[k + j - 1]
      BY <2>0, <2>1, FromFacts
    <3> QED BY <3>1 DEF u, k
  <2> HIDE DEF u
  <2> USE DEF k
  <2>3. \A j \in 1..Len(t) : k + j - 1 = Len(s) + j
    BY <1>1
  <2>4. \A j \in 1..Len(t) : u[j] = t[j]
    BY <1>1, <2>1, <2>2, <2>3
  <2>5. u = t
    BY <2>1, <2>2, <2>4, SameSequence
  <2> QED BY <2>5 DEF u
<1>3. SubSeq(d, 1, Len(s)) = s
  <2> DEFINE u == SubSeq(d, 1, Len(s))
  <2>1. u \in Seq(S) /\ Len(u) = Len(s) /\ \A i \in 1..Len(s) : u[i] = s[i]
    BY <1>1
  <2> HIDE DEF u
  <2>2. u = s
    BY <2>1, SameSequence
  <2> QED BY <2>2 DEF u
<1>4. UpTo(d, Len(s)) = s
  <2>1. ~(Len(s) > Len(d))
    BY <1>1
  <2> QED BY <1>3, <2>1 DEF UpTo
<1> QED BY <1>2, <1>3, <1>4 DEF d

(* A field is read back, whatever follows it. *)
LEMMA ReadDelimited ==
  ASSUME NEW field \in Bytes, NEW x \in Seq(Bytes), Len(x) < Limit, NEW b \in Seq(Bytes)
  PROVE  /\ Delimited(field, x) \o b \in Seq(Bytes)
         /\ Delimited(field, x) \o b # <<>>
         /\ (Delimited(field, x) \o b)[1] = field
         /\ ReadVarint(Tail(Delimited(field, x) \o b)) =
              [ok |-> TRUE, value |-> Len(x), size |-> Len(Varint(Len(x)))]
         /\ From(Delimited(field, x) \o b, 2 + Len(Varint(Len(x)))) = x \o b
<1> DEFINE v == Varint(Len(x))
           d == Delimited(field, x) \o b
           h == <<field>> \o v
           r == x \o b
<1>0. Len(x) \in Nat
  OBVIOUS
<1>1. Len(x) \in Nat /\ Len(x) \in 0..(Limit - 1) /\ Limit \in Nat
  <2> DEFINE n == Len(x)
  <2>1. n \in Nat /\ n < Limit
    BY <1>0
  <2> HIDE DEF n
  <2>2. n \in 0..(Limit - 1) /\ Limit \in Nat
    BY <2>1 DEF Limit
  <2> QED BY <1>0, <2>2 DEF n
<1>2. v \in Seq(Bytes) /\ Len(v) \in 1..3
  BY <1>1, WrittenNumber
<1> HIDE DEF v
<1>3. <<field>> \in Seq(Bytes) /\ h \in Seq(Bytes) /\ Len(h) = 1 + Len(v) /\ h[1] = field /\ Len(v) \in Nat
  BY <1>2
<1>4. r \in Seq(Bytes)
  OBVIOUS
<1>5. d = h \o r
  BY <1>3, ConcatAssoc DEF Delimited, v
<1>6. d = <<field>> \o (v \o r)
  <2> HIDE DEF r
  <2> QED BY <1>2, <1>3, <1>4, <1>5, ConcatAssoc
<1> HIDE DEF d, r, h
<1>7. v \o r \in Seq(Bytes)
  BY <1>2, <1>4
<1>8. d \in Seq(Bytes) /\ d # <<>> /\ d[1] = field /\ Tail(d) = v \o r
  <2> DEFINE w == v \o r
  <2> HIDE DEF w
  <2> QED BY <1>6, <1>7 DEF w
<1>9. ReadVarint(v \o r) = [ok |-> TRUE, value |-> Len(x), size |-> Len(v)]
  BY <1>1, <1>4, VarintIsReadBack DEF v
<1>10. From(d, 2 + Len(v)) = r
  <2>1. 2 + Len(v) = Len(h) + 1
    BY <1>3
  <2> QED BY <1>3, <1>4, <1>5, <2>1, ConcatParts
<1> QED BY <1>8, <1>9, <1>10 DEF d, v, r

(* The two steps of a reader: what it reads first, and what that leads to. *)
LEMMA FrameForm ==
  ASSUME NEW bytes, NEW n, NEW size, NEW rest,
         bytes[1] = Top, ReadVarint(Tail(bytes)) = [ok |-> TRUE, value |-> n, size |-> size],
         rest = From(bytes, 2 + size)
  PROVE  Frame(bytes) = IF n > MaxBody THEN Refused
                        ELSE [ok |-> TRUE, whole |-> n <= Len(rest), body |-> UpTo(rest, n), rest |-> From(rest, n + 1)]
<1> DEFINE length == ReadVarint(Tail(bytes))
<1>1. Frame(bytes) = IF bytes[1] # Top THEN Refused
                     ELSE IF ~length.ok \/ length.value > MaxBody THEN Refused
                     ELSE [ok |-> TRUE, whole |-> length.value <= Len(From(bytes, 2 + length.size)),
                           body |-> UpTo(From(bytes, 2 + length.size), length.value),
                           rest |-> From(From(bytes, 2 + length.size), length.value + 1)]
  BY DEF Frame
<1>2. length.ok /\ length.value = n /\ length.size = size
  OBVIOUS
<1> HIDE DEF length
<1> QED BY <1>1, <1>2

(* The field at the start of some bytes, by the number that is read after   *)
(* its tag.                                                                 *)
LEMMA FieldForm ==
  ASSUME NEW body, NEW n, NEW size, NEW after,
         ReadVarintBytes(Tail(body)) = [ok |-> TRUE, value |-> n, size |-> size],
         after = From(body, 2 + size)
  PROVE  /\ body[1] % 4 = 2 =>
              Field(body) = IF n > Len(after) THEN Refused
                            ELSE [ok |-> TRUE, tag |-> body[1], value |-> SubSeq(after, 1, n),
                                  rest |-> From(after, n + 1)]
         /\ body[1] % 4 = 0 => Field(body) = [ok |-> TRUE, tag |-> body[1], value |-> n, rest |-> after]
<1> DEFINE number == ReadVarintBytes(Tail(body))
           type == body[1] % 4
<1>1. Field(body) = IF type \notin {0, 2} THEN Refused
                    ELSE IF number.ok
                    THEN IF type = 0
                         THEN [ok |-> TRUE, tag |-> body[1], value |-> number.value,
                               rest |-> From(body, 2 + number.size)]
                         ELSE IF number.value > Len(From(body, 2 + number.size)) THEN Refused
                         ELSE [ok |-> TRUE, tag |-> body[1],
                               value |-> SubSeq(From(body, 2 + number.size), 1, number.value),
                               rest |-> From(From(body, 2 + number.size), number.value + 1)]
                    ELSE Refused
  BY DEF Field
<1>2. number.ok /\ number.value = n /\ number.size = size
  OBVIOUS
<1> HIDE DEF number, type
<1>3. (type = 2 => type \in {0, 2} /\ type # 0) /\ (type = 0 => type \in {0, 2})
  OBVIOUS
<1>4. CASE type = 2
  BY <1>1, <1>2, <1>3, <1>4 DEF type
<1>5. CASE type = 0
  BY <1>1, <1>2, <1>3, <1>5 DEF type
<1> QED BY <1>4, <1>5 DEF type

(* An entry that was written is the first entry read, unless it is too      *)
(* large.                                                                   *)
LEMMA ReadFrame ==
  ASSUME NEW x \in Seq(Bytes), Len(x) < Limit, NEW b \in Seq(Bytes)
  PROVE  Frame(Delimited(Top, x) \o b) =
           IF Len(x) > MaxBody THEN Refused ELSE [ok |-> TRUE, whole |-> TRUE, body |-> x, rest |-> b]
<1> DEFINE d == Delimited(Top, x) \o b
           length == ReadVarint(Tail(d))
           size == Len(Varint(Len(x)))
           after == From(d, 2 + length.size)
<1>0. d = Delimited(Top, x) \o b /\ size = Len(Varint(Len(x)))
  OBVIOUS
<1>1. d[1] = Top /\ length = [ok |-> TRUE, value |-> Len(x), size |-> size] /\ From(d, 2 + size) = x \o b
  <2>1. Top \in Bytes
    BY DEF Top, Bytes
  <2> QED BY <1>0, <2>1, ReadDelimited DEF length
<1> HIDE DEF d, length, size
<1>2. Frame(d) = IF Len(x) > MaxBody THEN Refused
                 ELSE [ok |-> TRUE, whole |-> Len(x) <= Len(after),
                       body |-> UpTo(after, Len(x)), rest |-> From(after, Len(x) + 1)]
  <2>1. d[1] = Top /\ ReadVarint(Tail(d)) = [ok |-> TRUE, value |-> Len(x), size |-> size]
        /\ after = From(d, 2 + size)
    BY <1>1 DEF length
  <2> HIDE DEF after
  <2> QED BY <2>1, FrameForm
<1>3. after = x \o b
  BY <1>1
<1> HIDE DEF after
<1>4. Len(x) <= Len(after) /\ UpTo(after, Len(x)) = x /\ From(after, Len(x) + 1) = b
  BY <1>3, ConcatFacts, ConcatParts
<1>5. (Len(x) <= Len(after)) = TRUE
  BY <1>4
<1> QED BY <1>2, <1>4, <1>5 DEF d

(* A field that was written with its length is the first field read. *)
LEMMA ReadField ==
  ASSUME NEW field \in Bytes, field % 4 = 2, NEW x \in Seq(Bytes), Len(x) < Limit, NEW b \in Seq(Bytes)
  PROVE  Field(Delimited(field, x) \o b) = [ok |-> TRUE, tag |-> field, value |-> x, rest |-> b]
<1> DEFINE d == Delimited(field, x) \o b
           length == ReadVarintBytes(Tail(d))
           size == Len(Varint(Len(x)))
           after == From(d, 2 + length.size)
<1>1. /\ d \in Seq(Bytes) /\ d # <<>> /\ d[1] = field
      /\ ReadVarint(Tail(d)) = [ok |-> TRUE, value |-> Len(x), size |-> size] /\ From(d, 2 + size) = x \o b
  <2>1. /\ Delimited(field, x) \o b \in Seq(Bytes)
        /\ Delimited(field, x) \o b # <<>>
        /\ (Delimited(field, x) \o b)[1] = field
        /\ ReadVarint(Tail(Delimited(field, x) \o b)) =
             [ok |-> TRUE, value |-> Len(x), size |-> Len(Varint(Len(x)))]
        /\ From(Delimited(field, x) \o b, 2 + Len(Varint(Len(x)))) = x \o b
    BY ReadDelimited
  <2> QED BY <2>1
<1>2. length = [ok |-> TRUE, value |-> Len(x), size |-> size]
  <2>1. Tail(d) \in Seq(Bytes)
    BY <1>1
  <2> HIDE DEF d
  <2> QED BY <1>1, <2>1, ReadersOfVarints
<1> HIDE DEF d, length, size
<1>3. Field(d) = IF Len(x) > Len(after) THEN Refused
                 ELSE [ok |-> TRUE, tag |-> field, value |-> SubSeq(after, 1, Len(x)),
                       rest |-> From(after, Len(x) + 1)]
  <2>1. ReadVarintBytes(Tail(d)) = [ok |-> TRUE, value |-> Len(x), size |-> size]
        /\ after = From(d, 2 + size) /\ d[1] % 4 = 2
    BY <1>1, <1>2 DEF length
  <2> HIDE DEF after
  <2> QED BY <1>1, <2>1, FieldForm
<1>4. after = x \o b
  BY <1>1, <1>2
<1> HIDE DEF after
<1>5. ~(Len(x) > Len(after)) /\ SubSeq(after, 1, Len(x)) = x /\ From(after, Len(x) + 1) = b
  BY <1>4, ConcatFacts, ConcatParts
<1> QED BY <1>3, <1>5 DEF d

(* So is the number of the bits of a prefix. *)
LEMMA ReadNumberField ==
  ASSUME NEW bits \in 0..(Limit - 1), NEW b \in Seq(Bytes)
  PROVE  /\ <<BitsField>> \o Varint(bits) \in Seq(Bytes)
         /\ Field(<<BitsField>> \o Varint(bits) \o b) = [ok |-> TRUE, tag |-> BitsField, value |-> bits, rest |-> b]
<1> DEFINE v == Varint(bits)
           h == <<BitsField>> \o v
           d == h \o b
           number == ReadVarintBytes(Tail(d))
<1>1. bits \in Nat /\ BitsField \in Bytes /\ BitsField % 4 = 0
  BY DEF Limit, BitsField, Bytes
<1>2. v \in Seq(Bytes) /\ Len(v) \in Nat
  BY <1>1, WrittenNumber
<1> HIDE DEF v
<1>3. <<BitsField>> \in Seq(Bytes) /\ h \in Seq(Bytes) /\ Len(h) = 1 + Len(v)
  BY <1>1, <1>2
<1>4. d = <<BitsField>> \o (v \o b) /\ v \o b \in Seq(Bytes)
  BY <1>2, <1>3, ConcatAssoc
<1> HIDE DEF d
<1>5. d # <<>> /\ d[1] = BitsField /\ Tail(d) = v \o b
  <2> DEFINE w == v \o b
  <2> HIDE DEF w
  <2> QED BY <1>1, <1>4 DEF w
<1>6. number = [ok |-> TRUE, value |-> bits, size |-> Len(v)]
  BY <1>4, <1>5, VarintIsReadBack, ReadersOfVarints DEF v
<1>7. From(d, 2 + Len(v)) = b
  <2>1. 2 + Len(v) = Len(h) + 1
    BY <1>2, <1>3
  <2> HIDE DEF h
  <2> QED BY <1>3, <2>1, ConcatParts DEF d
<1> HIDE DEF number
<1>8. Field(d) = [ok |-> TRUE, tag |-> BitsField, value |-> bits, rest |-> From(d, 2 + Len(v))]
  <2> DEFINE after == From(d, 2 + Len(v))
  <2>1. ReadVarintBytes(Tail(d)) = [ok |-> TRUE, value |-> bits, size |-> Len(v)]
        /\ d[1] % 4 = 0
    BY <1>1, <1>5, <1>6 DEF number
  <2> QED BY <1>5, <2>1, FieldForm
<1> QED BY <1>3, <1>7, <1>8 DEF d, h, v

(* What an entry is made of, each piece bytes. *)
Known(c) ==
  Delimited(IPField, c.ip) \o IF c.bits = 0 THEN <<>> ELSE <<BitsField>> \o Varint(c.bits)

Ranges(cidrs) == FlattenSeq([i \in DOMAIN cidrs |-> EncodeCIDR(cidrs[i])])

(* The bytes of a prefix in an entry. *)
LEMMA RangeType ==
  ASSUME NEW c \in CIDRs
  PROVE  Known(c) \in Seq(Bytes) /\ EncodeCIDR(c) = Delimited(CIDRField, Known(c)) /\ EncodeCIDR(c) \in Seq(Bytes)
<1> DEFINE bits == IF c.bits = 0 THEN <<>> ELSE <<BitsField>> \o Varint(c.bits)
<1>1. IPField \in Bytes /\ CIDRField \in Bytes /\ BitsField \in Bytes
  BY DEF IPField, CIDRField, BitsField, Bytes
<1>2. c.ip \in Seq(Bytes) /\ c.bits \in Nat
  BY DEF CIDRs
<1>3. Varint(c.bits) \in Seq(Bytes)
  BY <1>2, WrittenNumber
<1>4. bits \in Seq(Bytes)
  BY <1>1, <1>3
<1>5. Delimited(IPField, c.ip) \in Seq(Bytes)
  BY <1>1, <1>2, DelimitedType
<1> HIDE DEF bits
<1>6. Delimited(IPField, c.ip) \o bits \in Seq(Bytes)
  BY <1>4, <1>5
<1>7. Known(c) \in Seq(Bytes) /\ EncodeCIDR(c) = Delimited(CIDRField, Known(c))
  BY <1>6 DEF Known, EncodeCIDR, bits
<1> QED BY <1>1, <1>7, DelimitedType

(* The prefixes of an entry are bytes, one after the other. *)
LEMMA RangesFacts ==
  /\ Ranges(<<>>) = <<>>
  /\ \A cidrs \in Seq(CIDRs) :
       /\ Ranges(cidrs) \in Seq(Bytes)
       /\ \A c \in CIDRs : Ranges(Append(cidrs, c)) = Ranges(cidrs) \o EncodeCIDR(c)
<1> DEFINE f == [c \in CIDRs |-> EncodeCIDR(c)]
<1>1. f \in [CIDRs -> Seq(Bytes)]
  BY RangeType
<1>2. ASSUME NEW cidrs \in Seq(CIDRs) PROVE Ranges(cidrs) = MapFlat(f, cidrs)
  <2>1. \A i \in DOMAIN cidrs : cidrs[i] \in CIDRs
    OBVIOUS
  <2>2. \A i \in DOMAIN cidrs : f[cidrs[i]] = EncodeCIDR(cidrs[i])
    BY <2>1
  <2> HIDE DEF f
  <2>3. [i \in DOMAIN cidrs |-> f[cidrs[i]]] = [i \in DOMAIN cidrs |-> EncodeCIDR(cidrs[i])]
    BY <2>2
  <2> QED BY <2>3 DEF Ranges, MapFlat, MapSeq
<1>3. \A c \in CIDRs : f[c] = EncodeCIDR(c)
  OBVIOUS
<1> HIDE DEF f
<1>4. Ranges(<<>>) = <<>>
  <2>1. <<>> \in Seq(CIDRs)
    OBVIOUS
  <2> QED BY <1>2, <2>1, MapFlatEmpty
<1>5. ASSUME NEW cidrs \in Seq(CIDRs)
      PROVE  /\ Ranges(cidrs) \in Seq(Bytes)
             /\ \A c \in CIDRs : Ranges(Append(cidrs, c)) = Ranges(cidrs) \o EncodeCIDR(c)
  <2>1. Ranges(cidrs) \in Seq(Bytes)
    <3>1. MapFlat(f, cidrs) \in Seq(Bytes)
      BY <1>1, MapFlatType
    <3> QED BY <1>2, <3>1
  <2>2. ASSUME NEW c \in CIDRs PROVE Ranges(Append(cidrs, c)) = Ranges(cidrs) \o EncodeCIDR(c)
    <3>1. Append(cidrs, c) \in Seq(CIDRs)
      OBVIOUS
    <3>2. MapFlat(f, Append(cidrs, c)) = MapFlat(f, cidrs) \o f[c]
      BY <1>1, MapFlatAppend
    <3> QED BY <1>2, <1>3, <3>1, <3>2
  <2> QED BY <2>1, <2>2
<1> QED BY <1>4, <1>5

(* The body of an entry: its code, what no reader knows, and its prefixes. *)
LEMMA BodyType ==
  ASSUME NEW e \in Entries
  PROVE  /\ e.code \in Seq(Bytes) /\ e.extra \in Seq(Bytes) /\ e.cidrs \in Seq(CIDRs)
         /\ e.extra \o Ranges(e.cidrs) \in Seq(Bytes)
         /\ Body(e) = Delimited(CodeField, e.code) \o (e.extra \o Ranges(e.cidrs))
         /\ Body(e) \in Seq(Bytes) /\ Len(Body(e)) < Limit /\ Len(e.code) < Limit
         /\ Encode(e) \in Seq(Bytes) /\ Encode(e) # <<>>
<1>1. e.code \in Seq(Bytes) /\ e.extra \in Seq(Bytes) /\ e.cidrs \in Seq(CIDRs)
  <2>1. e \in [code : Seq(Bytes), extra : Seq(Bytes), cidrs : Seq(CIDRs)]
    BY GeoDatAssumption DEF CIDRs
  <2> QED BY <2>1
<1> DEFINE h == Delimited(CodeField, e.code)
           r == Ranges(e.cidrs)
<1>2. CodeField \in Bytes /\ Top \in Bytes
  BY DEF CodeField, Bytes, Top
<1>3. h \in Seq(Bytes) /\ r \in Seq(Bytes)
  BY <1>1, <1>2, DelimitedType, RangesFacts
<1>4. Body(e) = (h \o e.extra) \o r
  BY DEF Body, Ranges
<1>5. Len(Body(e)) < Limit
  BY EntriesAssumption
<1> HIDE DEF r
<1>6. Len(h) \in Nat /\ Len(e.code) \in Nat /\ Len(h) > Len(e.code)
  <2> DEFINE v == Varint(Len(e.code))
  <2>1. Len(e.code) \in Nat
    BY <1>1
  <2>2. v \in Seq(Bytes)
    BY <2>1, WrittenNumber
  <2> HIDE DEF v
  <2>3. <<CodeField>> \in Seq(Bytes) /\ Len(<<CodeField>>) = 1
    BY <1>2
  <2>4. Len(<<CodeField>> \o v \o e.code) = 1 + Len(v) + Len(e.code) /\ Len(v) \in Nat
    BY <1>1, <2>2, <2>3
  <2>5. h = <<CodeField>> \o v \o e.code
    BY DEF Delimited, v
  <2> HIDE DEF h
  <2>6. Len(h) = 1 + Len(v) + Len(e.code)
    BY <2>4, <2>5
  <2> DEFINE m == Len(e.code)
             l == Len(v)
  <2> HIDE DEF m, l
  <2>7. l \in Nat /\ m \in Nat /\ Len(h) = 1 + l + m
    BY <2>1, <2>4, <2>6 DEF m, l
  <2>8. Len(h) \in Nat /\ Len(h) > m
    BY <2>7
  <2> QED BY <2>1, <2>8 DEF m
<1> HIDE DEF h
<1>7. Body(e) = h \o (e.extra \o r)
  <2> DEFINE x == e.extra
  <2>1. x \in Seq(Bytes) /\ Body(e) = (h \o x) \o r
    BY <1>1, <1>4
  <2> HIDE DEF x
  <2>2. (h \o x) \o r = h \o (x \o r)
    BY <1>3, <2>1, ConcatAssoc
  <2> QED BY <2>1, <2>2 DEF x
<1>8. e.extra \o r \in Seq(Bytes)
  BY <1>1, <1>3
<1>9. Body(e) \in Seq(Bytes) /\ Len(Body(e)) = Len(h) + Len(e.extra \o r) /\ Len(e.extra \o r) \in Nat
  <2> DEFINE x == e.extra \o r
  <2> HIDE DEF x
  <2>1. x \in Seq(Bytes) /\ Body(e) = h \o x
    BY <1>7, <1>8 DEF x
  <2>2. Body(e) \in Seq(Bytes) /\ Len(Body(e)) = Len(h) + Len(x) /\ Len(x) \in Nat
    BY <1>3, <2>1
  <2> QED BY <2>2 DEF x
<1>10. Len(e.code) < Limit
  BY <1>5, <1>6, <1>9 DEF Limit
<1>11. Encode(e) \in Seq(Bytes) /\ Encode(e) # <<>>
  <2> DEFINE x == Body(e)
  <2>1. x \in Seq(Bytes) /\ Len(x) < Limit
    BY <1>5, <1>9
  <2> HIDE DEF x
  <2>2. <<>> \in Seq(Bytes)
    OBVIOUS
  <2>3. Delimited(Top, x) \in Seq(Bytes)
    BY <1>2, <2>1, DelimitedType
  <2>4. Delimited(Top, x) \o <<>> = Delimited(Top, x)
    BY <2>3
  <2>5. Delimited(Top, x) \o <<>> # <<>>
    BY <1>2, <2>1, <2>2, ReadDelimited
  <2> QED BY <2>3, <2>4, <2>5 DEF Encode, x
<1> QED BY <1>1, <1>5, <1>7, <1>8, <1>9, <1>10, <1>11 DEF h, r

(* A file is bytes, those of its entries one after the other. *)
LEMMA FileFacts ==
  /\ File(<<>>) = <<>>
  /\ \A es \in Seq(Entries) :
       /\ File(es) \in Seq(Bytes)
       /\ \A e \in Entries : File(Append(es, e)) = File(es) \o Encode(e)
<1> DEFINE f == [e \in Entries |-> Encode(e)]
<1>1. f \in [Entries -> Seq(Bytes)]
  BY BodyType
<1>2. ASSUME NEW es \in Seq(Entries) PROVE File(es) = MapFlat(f, es)
  <2>1. \A i \in DOMAIN es : es[i] \in Entries
    OBVIOUS
  <2>2. \A i \in DOMAIN es : f[es[i]] = Encode(es[i])
    BY <2>1
  <2> HIDE DEF f
  <2>3. [i \in DOMAIN es |-> f[es[i]]] = [i \in DOMAIN es |-> Encode(es[i])]
    BY <2>2
  <2> QED BY <2>3 DEF File, MapFlat, MapSeq
<1>3. \A e \in Entries : f[e] = Encode(e)
  OBVIOUS
<1> HIDE DEF f
<1>4. File(<<>>) = <<>>
  <2>1. <<>> \in Seq(Entries)
    OBVIOUS
  <2> QED BY <1>2, <2>1, MapFlatEmpty
<1>5. ASSUME NEW es \in Seq(Entries)
      PROVE  /\ File(es) \in Seq(Bytes)
             /\ \A e \in Entries : File(Append(es, e)) = File(es) \o Encode(e)
  <2>1. File(es) \in Seq(Bytes)
    <3>1. MapFlat(f, es) \in Seq(Bytes)
      BY <1>1, MapFlatType
    <3> QED BY <1>2, <3>1
  <2>2. ASSUME NEW e \in Entries PROVE File(Append(es, e)) = File(es) \o Encode(e)
    <3>1. Append(es, e) \in Seq(Entries)
      OBVIOUS
    <3>2. MapFlat(f, Append(es, e)) = MapFlat(f, es) \o f[e]
      BY <1>1, MapFlatAppend
    <3> QED BY <1>2, <1>3, <3>1, <3>2
  <2> QED BY <2>1, <2>2
<1> QED BY <1>4, <1>5

AllFit(es) == \A i \in DOMAIN es : Fits(es[i])

(* The parts of some entries and of what follows them. *)
Reads(es, frames, others) ==
  /\ frames.ok <=> AllFit(es) /\ others.ok
  /\ frames.ok =>
       /\ Len(frames.list) = Len(es) + Len(others.list)
       /\ \A i \in 1..Len(es) : frames.list[i].whole /\ frames.list[i].body = Body(es[i])
       /\ \A i \in 1..Len(others.list) : frames.list[Len(es) + i] = others.list[i]

(* The entries of a file that starts with one that was written. *)
LEMMA OneEntry ==
  ASSUME NEW e \in Entries, NEW b \in Seq(Bytes)
  PROVE  Frames(Encode(e) \o b) =
           IF Fits(e) THEN Join([ok |-> TRUE, whole |-> TRUE, body |-> Body(e), rest |-> b], Frames(b)) ELSE Refused
<1> DEFINE x == Body(e)
           d == Encode(e) \o b
<1>1. x \in Seq(Bytes) /\ Len(x) < Limit /\ Encode(e) = Delimited(Top, x) /\ Fits(e) = (Len(x) <= MaxBody)
  BY BodyType DEF Encode, Fits
<1>2. d \in Seq(Bytes) /\ d # <<>>
  <2> DEFINE c == Encode(e)
  <2>1. c \in Seq(Bytes) /\ c # <<>>
    BY BodyType
  <2> HIDE DEF c
  <2>2. c \o b \in Seq(Bytes) /\ c \o b # <<>>
    BY <2>1
  <2> QED BY <2>2 DEF c
<1>3. Len(x) > MaxBody <=> ~Fits(e)
  <2>1. Len(x) \in Nat /\ MaxBody \in Nat
    BY <1>1, GeoDatAssumption
  <2> DEFINE n == Len(x)
  <2>2. Fits(e) <=> n <= MaxBody
    BY DEF Fits
  <2> HIDE DEF x, n
  <2>3. n \in Nat
    BY <2>1 DEF n
  <2>4. n > MaxBody <=> ~(n <= MaxBody)
    BY <2>1, <2>3
  <2> QED BY <2>2, <2>4 DEF n
<1> HIDE DEF x
<1>4. Frame(d) = IF Fits(e) THEN [ok |-> TRUE, whole |-> TRUE, body |-> x, rest |-> b] ELSE Refused
  BY <1>1, <1>3, ReadFrame
<1> HIDE DEF d
<1>5. Frames(d) = IF Frame(d).ok THEN Join(Frame(d), Frames(Frame(d).rest)) ELSE Refused
  BY <1>2, FramesUnfold
<1>6. CASE Fits(e)
  BY <1>4, <1>5, <1>6 DEF d, x
<1>7. CASE ~Fits(e)
  BY <1>4, <1>5, <1>7 DEF d, Refused
<1> QED BY <1>6, <1>7

(* If a file is read as its entries and the rest, so is one with an entry   *)
(* more.                                                                    *)
LEMMA OneMore ==
  ASSUME NEW es \in Seq(Entries), NEW e \in Entries, NEW frames, NEW rest, NEW others,
         others.ok => others.list \in Seq(Entry), others.ok \in BOOLEAN, rest \in Seq(Bytes),
         Reads(es, frames, IF Fits(e) THEN Join([ok |-> TRUE, whole |-> TRUE, body |-> Body(e), rest |-> rest], others)
                           ELSE Refused)
  PROVE  Reads(Append(es, e), frames, others)
<1> DEFINE part == [ok |-> TRUE, whole |-> TRUE, body |-> Body(e), rest |-> rest]
           then == IF Fits(e) THEN Join(part, others) ELSE Refused
           L == Seq(Entry)
<1>1. /\ Append(es, e) \in Seq(Entries) /\ Len(es) \in Nat /\ Len(Append(es, e)) = Len(es) + 1
      /\ (\A i \in 1..Len(es) : Append(es, e)[i] = es[i]) /\ Append(es, e)[Len(es) + 1] = e
      /\ DOMAIN es = 1..Len(es) /\ DOMAIN Append(es, e) = DOMAIN es \cup {Len(es) + 1}
  BY AppendFacts
<1>2. AllFit(Append(es, e)) <=> AllFit(es) /\ Fits(e)
  BY <1>1 DEF AllFit
<1>3. part \in Entry /\ part.whole /\ part.body = Body(e)
  BY BodyType DEF Entry
<1> HIDE DEF part
<1>4. then.ok <=> Fits(e) /\ others.ok
  BY DEF Join, Refused
<1>5. then.ok => /\ others.list \in L /\ then.list = <<part>> \o others.list
  BY <1>4 DEF Join
<1>6. then.ok => /\ Len(others.list) \in Nat /\ Len(then.list) = 1 + Len(others.list)
                 /\ then.list[1] = part /\ \A i \in 1..Len(others.list) : then.list[1 + i] = others.list[i]
  <2> DEFINE o == others.list
  <2>1. <<part>> \in Seq(Entry) /\ Len(<<part>>) = 1 /\ <<part>>[1] = part
    BY <1>3
  <2> SUFFICES ASSUME then.ok
               PROVE  /\ Len(o) \in Nat /\ Len(then.list) = 1 + Len(o)
                      /\ then.list[1] = part /\ \A i \in 1..Len(o) : then.list[1 + i] = o[i]
    OBVIOUS
  <2>2. o \in Seq(Entry) /\ then.list = <<part>> \o o
    BY <1>5
  <2> HIDE DEF o, then
  <2>3. /\ Len(<<part>> \o o) = 1 + Len(o) /\ Len(o) \in Nat /\ (<<part>> \o o)[1] = part
        /\ \A i \in 1..Len(o) : (<<part>> \o o)[1 + i] = o[i]
    BY <2>1, <2>2, ConcatFacts
  <2> QED BY <2>2, <2>3
<1>7. Reads(es, frames, then)
  BY DEF part
<1> HIDE DEF then
<1> DEFINE a == Append(es, e)
           n == Len(es)
<1>8. frames.ok <=> AllFit(a) /\ others.ok
  BY <1>2, <1>4, <1>7 DEF Reads
<1> HIDE DEF a, n
<1>9. ASSUME frames.ok
      PROVE  /\ Len(frames.list) = n + 1 + Len(others.list)
             /\ \A i \in 1..(n + 1) : frames.list[i].whole /\ frames.list[i].body = Body(a[i])
             /\ \A i \in 1..Len(others.list) : frames.list[n + 1 + i] = others.list[i]
  <2>1. /\ Len(frames.list) = n + Len(then.list)
        /\ \A i \in 1..n : frames.list[i].whole /\ frames.list[i].body = Body(es[i])
        /\ \A i \in 1..Len(then.list) : frames.list[n + i] = then.list[i]
    BY <1>7, <1>9 DEF Reads, n
  <2>2. then.ok
    BY <1>7, <1>9 DEF Reads
  <2>3. n \in Nat /\ (\A i \in 1..n : a[i] = es[i]) /\ a[n + 1] = e
    BY <1>1 DEF n, a
  <2> DEFINE k == Len(others.list)
             f == frames.list
             t == then.list
  <2>4. k \in Nat /\ Len(t) = 1 + k /\ t[1] = part /\ \A i \in 1..k : t[1 + i] = others.list[i]
    BY <1>6, <2>2
  <2> HIDE DEF k
  <2>5. Len(f) = n + 1 + k
    BY <2>1, <2>3, <2>4
  <2>6. f[n + 1] = part
    <3>1. 1 \in 1..Len(t)
      BY <2>4
    <3> HIDE DEF f, t
    <3>2. f[n + 1] = t[1]
      BY <2>1, <3>1 DEF f, t
    <3> QED BY <2>4, <3>2
  <2>7. \A i \in 1..(n + 1) : i \in 1..n \/ i = n + 1
    BY <2>3
  <2>8. \A i \in 1..(n + 1) : f[i].whole /\ f[i].body = Body(a[i])
    BY <1>3, <2>1, <2>3, <2>6, <2>7
  <2>9. ASSUME NEW i \in 1..k PROVE f[n + 1 + i] = others.list[i]
    <3>1. 1 + i \in 1..(1 + k) /\ n + (1 + i) = n + 1 + i
      BY <2>3, <2>4
    <3>2. f[n + (1 + i)] = t[1 + i]
      BY <2>1, <2>4, <3>1
    <3> QED BY <2>4, <3>1, <3>2
  <2> QED BY <2>5, <2>8, <2>9 DEF k
<1>10. Len(a) = n + 1
  BY <1>1 DEF a, n
<1>11. Reads(a, frames, others)
  BY <1>8, <1>9, <1>10 DEF Reads
<1> QED BY <1>11 DEF a

(* The entries of a file are read one after the other, whatever follows.    *)
LEMMA WrittenEntries ==
  ASSUME NEW es \in Seq(Entries), NEW b \in Seq(Bytes)
  PROVE  Reads(es, Frames(File(es) \o b), Frames(b))
<1> DEFINE T == {s \in Seq(Entries) : \A r \in Seq(Bytes) : Reads(s, Frames(File(s) \o r), Frames(r))}
<1>1. <<>> \in T
  <2> SUFFICES ASSUME NEW r \in Seq(Bytes) PROVE Reads(<<>>, Frames(File(<<>>) \o r), Frames(r))
    OBVIOUS
  <2>1. File(<<>>) \o r = r
    BY FileFacts, ConcatFacts
  <2> DEFINE frames == Frames(r)
  <2>2. frames.ok \in BOOLEAN /\ (frames.ok => frames.list \in Seq(Entry))
    BY FramesFacts
  <2> HIDE DEF frames
  <2>3. frames.ok => Len(frames.list) \in Nat
    BY <2>2
  <2>4. AllFit(<<>>) /\ Len(<<>>) = 0 /\ 1..0 = {}
    BY DEF AllFit
  <2>5. Reads(<<>>, frames, frames)
    BY <2>3, <2>4 DEF Reads
  <2> QED BY <2>1, <2>5 DEF frames
<1>2. ASSUME NEW s \in T \cap Seq(Entries), NEW e \in Entries PROVE Append(s, e) \in T
  <2> SUFFICES ASSUME NEW r \in Seq(Bytes) PROVE Reads(Append(s, e), Frames(File(Append(s, e)) \o r), Frames(r))
    OBVIOUS
  <2> DEFINE c == Encode(e)
  <2>1. File(s) \in Seq(Bytes) /\ File(Append(s, e)) = File(s) \o c /\ c \in Seq(Bytes)
    BY FileFacts, BodyType
  <2>2. c \o r \in Seq(Bytes)
    BY <2>1
  <2>3. Reads(s, Frames(File(s) \o (c \o r)), Frames(c \o r))
    BY <2>2
  <2>4. Frames(c \o r) =
          IF Fits(e) THEN Join([ok |-> TRUE, whole |-> TRUE, body |-> Body(e), rest |-> r], Frames(r)) ELSE Refused
    BY OneEntry
  <2> HIDE DEF c
  <2>5. File(Append(s, e)) \o r = File(s) \o (c \o r)
    BY <2>1, ConcatAssoc
  <2>6. Frames(r).ok \in BOOLEAN /\ (Frames(r).ok => Frames(r).list \in Seq(Entry))
    BY FramesFacts
  <2> QED BY <2>3, <2>4, <2>5, <2>6, OneMore
<1> HIDE DEF T
<1>3. Seq(Entries) \subseteq T
  BY <1>1, <1>2, SeqSetInduction
<1> QED BY <1>3 DEF T

(* A file that ends within its first entry is refused, or has an entry that *)
(* is not whole.                                                            *)
Broken(frames) == frames.ok => Len(frames.list) >= 1 /\ ~frames.list[1].whole

(* What a cut leaves of an entry is broken. *)
LEMMA PartOfEntry ==
  ASSUME NEW e \in Entries, NEW k \in 1..(Len(Encode(e)) - 1)
  PROVE  Broken(Frames(SubSeq(Encode(e), 1, k)))
<1> DEFINE x == Body(e)
           v == Varint(Len(x))
           h == <<Top>> \o v
           c == Encode(e)
           b == SubSeq(c, 1, k)
<1>1. x \in Seq(Bytes) /\ Len(x) < Limit /\ Len(x) \in Nat /\ c \in Seq(Bytes) /\ Top \in Bytes
  <2>1. x \in Seq(Bytes) /\ Len(x) < Limit /\ c \in Seq(Bytes)
    BY BodyType
  <2> HIDE DEF x, c
  <2> QED BY <2>1 DEF Top, Bytes
<1>2. /\ v \in Seq(Bytes) /\ Len(v) \in 1..3 /\ \A i \in 1..(Len(v) - 1) : v[i] >= More
  BY <1>1, WrittenNumber
<1>3. c = h \o x
  BY DEF Encode, Delimited
<1> HIDE DEF x, v, c
<1> DEFINE l == Len(v)
           n == Len(x)
<1>4. h \in Seq(Bytes) /\ Len(h) = 1 + l /\ h[1] = Top /\ \A i \in 1..l : h[1 + i] = v[i]
  BY <1>1, <1>2
<1>5. l \in 1..3 /\ n \in Nat /\ n < Limit
  BY <1>1, <1>2
<1> HIDE DEF h, l, n
<1>6. Len(c) = 1 + l + n /\ k \in 1..(l + n)
  <2>1. Len(h \o x) = Len(h) + Len(x)
    BY <1>1, <1>4, ConcatFacts
  <2>2. Len(c) = 1 + l + n
    BY <1>3, <1>4, <2>1 DEF n
  <2>3. k \in 1..(Len(c) - 1)
    BY DEF c
  <2> QED BY <1>5, <2>2, <2>3
<1>7. b \in Seq(Bytes) /\ Len(b) = k /\ b # <<>> /\ \A i \in 1..k : b[i] = c[i]
  <2>1. k \in 1..Len(c)
    BY <1>5, <1>6
  <2> QED BY <1>1, <2>1
<1>8. b[1] = Top
  <2>1. (h \o x)[1] = h[1]
    <3>1. 1 \in 1..Len(h)
      BY <1>4, <1>5
    <3> QED BY <1>1, <1>4, <3>1, ConcatFacts
  <2> QED BY <1>3, <1>4, <1>6, <1>7, <2>1
<1> HIDE DEF b
<1>9. Frames(b) = IF Frame(b).ok THEN Join(Frame(b), Frames(Frame(b).rest)) ELSE Refused
  BY <1>7, FramesUnfold
<1>10. CASE k <= l
  <2> DEFINE t == Tail(b)
  <2>1. t \in Seq(Bytes) /\ Len(t) = k - 1 /\ DOMAIN t = 1..(k - 1) /\ \A i \in 1..(k - 1) : t[i] = b[i + 1]
    BY <1>7
  <2> HIDE DEF t
  <2>2. ASSUME NEW i \in DOMAIN t PROVE t[i] >= More
    <3>1. i \in 1..(k - 1) /\ i \in 1..(l - 1) /\ i \in 1..l /\ i + 1 \in 1..k /\ 1 + i = i + 1 /\ i + 1 \in 1..(1 + l)
      BY <1>5, <1>6, <1>10, <2>1
    <3>2. t[i] = (h \o x)[i + 1]
      BY <1>3, <1>7, <2>1, <3>1
    <3>3. (h \o x)[i + 1] = h[i + 1]
      BY <1>1, <1>4, <3>1, ConcatFacts
    <3>4. h[i + 1] = v[i] /\ v[i] >= More
      BY <1>2, <1>4, <3>1 DEF l
    <3> QED BY <3>2, <3>3, <3>4
  <2>3. LastBytes(t) = {}
    <3> SUFFICES ASSUME NEW i \in DOMAIN t PROVE ~(t[i] < More)
      BY DEF LastBytes
    <3>1. t[i] \in Bytes
      BY <2>1
    <3>2. t[i] \in Int /\ t[i] >= More
      BY <2>2, <3>1 DEF Bytes
    <3> QED BY <3>2 DEF More
  <2>4. ReadVarint(t) = Refused
    BY <2>3 DEF ReadVarint, NumberEnding
  <2>5. Frame(b) = Refused
    <3>1. Frame(b) = IF b[1] # Top THEN Refused
                     ELSE IF ~ReadVarint(t).ok \/ ReadVarint(t).value > MaxBody THEN Refused
                     ELSE [ok |-> TRUE, whole |-> ReadVarint(t).value <= Len(From(b, 2 + ReadVarint(t).size)),
                           body |-> UpTo(From(b, 2 + ReadVarint(t).size), ReadVarint(t).value),
                           rest |-> From(From(b, 2 + ReadVarint(t).size), ReadVarint(t).value + 1)]
      BY DEF Frame, t
    <3> QED BY <2>4, <3>1 DEF Refused
  <2> QED BY <1>9, <2>5 DEF Broken, Refused, b, c
<1>11. CASE k > l
  <2> DEFINE m == k - 1 - l
             y == SubSeq(x, 1, m)
  <2>1. m \in 0..n /\ m < n /\ Len(h) + m = k
    BY <1>4, <1>5, <1>6, <1>11
  <2>2. y \in Seq(Bytes) /\ Len(y) = m
    <3> HIDE DEF m
    <3> QED BY <1>1, <2>1 DEF n
  <2>3. b = h \o y
    <3> HIDE DEF m
    <3> QED BY <1>1, <1>3, <1>4, <2>1, SubSeqConcat DEF b, n
  <2> HIDE DEF m, y
  <2>4. b = <<Top>> \o (v \o y) /\ v \o y \in Seq(Bytes)
    <3>1. <<Top>> \in Seq(Bytes)
      BY <1>1
    <3> QED BY <1>2, <2>2, <2>3, <3>1, ConcatAssoc DEF h
  <2>5. Tail(b) = v \o y
    <3> DEFINE w == v \o y
    <3> HIDE DEF w
    <3> QED BY <2>4 DEF w
  <2>6. ReadVarint(Tail(b)) = [ok |-> TRUE, value |-> n, size |-> l]
    <3>1. n \in 0..(Limit - 1) /\ v = Varint(n)
      <4>1. v = Varint(n)
        BY DEF v, n
      <4>2. n \in 0..(Limit - 1)
        BY <1>5 DEF Limit
      <4> QED BY <4>1, <4>2
    <3> QED BY <2>2, <2>5, <3>1, VarintIsReadBack DEF l
  <2>7. From(b, 2 + l) = y
    <3>1. 2 + l = Len(h) + 1
      BY <1>4, <1>5
    <3> QED BY <1>4, <2>2, <2>3, <3>1, ConcatParts
  <2>8. Frame(b) = IF n > MaxBody THEN Refused
                   ELSE [ok |-> TRUE, whole |-> n <= Len(y), body |-> UpTo(y, n), rest |-> From(y, n + 1)]
    BY <1>8, <2>6, <2>7, FrameForm
  <2>9. Frame(b).ok => ~Frame(b).whole /\ Frame(b) \in Entry
    <3>1. ~(n <= Len(y))
      BY <1>5, <2>1, <2>2
    <3>2. Frame(b).ok => ~Frame(b).whole
      <4> DEFINE w == n <= Len(y)
      <4> HIDE DEF w
      <4>1. ~w
        BY <3>1 DEF w
      <4>2. Frame(b) = IF n > MaxBody THEN Refused
                       ELSE [ok |-> TRUE, whole |-> w, body |-> UpTo(y, n), rest |-> From(y, n + 1)]
        BY <2>8 DEF w
      <4> QED BY <4>1, <4>2 DEF Refused
    <3> QED BY <1>7, <3>2, FrameFacts
  <2> DEFINE part == Frame(b)
             others == Frames(part.rest)
  <2>10. part.ok /\ others.ok => others.list \in Seq(Entry)
    BY <2>9, FramesFacts DEF Entry
  <2> HIDE DEF part, others
  <2>11. Frames(b).ok => part.ok /\ others.ok /\ Frames(b).list = <<part>> \o others.list
    BY <1>9 DEF Join, Refused, part, others
  <2>12. Frames(b).ok => Len(Frames(b).list) >= 1 /\ Frames(b).list[1] = part
    BY <2>10, <2>11, <2>9 DEF part
  <2> QED BY <2>9, <2>11, <2>12 DEF Broken, part, b, c
<1>12. k <= l \/ k > l
  BY <1>5, <1>6
<1> QED BY <1>10, <1>11, <1>12 DEF b, c

-----------------------------------------------------------------------------
(* Where a file was cut.                                                    *)

(* The entries before a place, and where a cut lies: between two entries or *)
(* within one.                                                              *)
Before(es, n) == SubSeq(es, 1, n)

PartOfNext(es, n, b) == n < Len(es) /\ \E k \in 1..(Len(Encode(es[n + 1])) - 1) : b = SubSeq(Encode(es[n + 1]), 1, k)

CutAt(es, m) ==
  \E n \in 0..Len(es), b \in Seq(Bytes) :
    SubSeq(File(es), 1, m) = File(Before(es, n)) \o b /\ (b = <<>> \/ PartOfNext(es, n, b))

(* The entries before a place, and the one at it. *)
LEMMA BeforeFacts ==
  ASSUME NEW S, NEW es \in Seq(S), NEW n \in 0..Len(es)
  PROVE  /\ Before(es, n) \in Seq(S) /\ Len(Before(es, n)) = n
         /\ \A i \in 1..n : Before(es, n)[i] = es[i]
         /\ n < Len(es) => es[n + 1] \in S /\ Before(es, n + 1) = Append(Before(es, n), es[n + 1])
         /\ Before(es, Len(es)) = es
         /\ \A x \in S : Before(Append(es, x), n) = Before(es, n) /\ (n < Len(es) => Append(es, x)[n + 1] = es[n + 1])
<1>1. Before(es, n) \in Seq(S) /\ Len(Before(es, n)) = n /\ \A i \in 1..n : Before(es, n)[i] = es[i]
  BY DEF Before
<1>2. Before(es, Len(es)) = es
  BY PrefixFacts DEF Before
<1>3. ASSUME n < Len(es) PROVE es[n + 1] \in S /\ Before(es, n + 1) = Append(Before(es, n), es[n + 1])
  <2>1. n + 1 \in 1..Len(es) /\ n + 1 - 1 = n
    BY <1>3
  <2>2. SubSeq(es, 1, n + 1) = Append(SubSeq(es, 1, n + 1 - 1), es[n + 1]) /\ es[n + 1] \in S
    BY <2>1, PrefixFacts
  <2> QED BY <2>1, <2>2 DEF Before
<1>4. ASSUME NEW x \in S PROVE Before(Append(es, x), n) = Before(es, n) /\ (n < Len(es) => Append(es, x)[n + 1] = es[n + 1])
  <2> DEFINE a == Append(es, x)
             u == SubSeq(a, 1, n)
             v == SubSeq(es, 1, n)
  <2>1. a \in Seq(S) /\ Len(a) = Len(es) + 1 /\ \A i \in 1..Len(es) : a[i] = es[i]
    BY AppendFacts
  <2> HIDE DEF a
  <2>2. u \in Seq(S) /\ v \in Seq(S) /\ Len(u) = n /\ Len(v) = n /\ \A i \in 1..n : u[i] = v[i]
    BY <2>1
  <2> HIDE DEF u, v
  <2>3. u = v
    BY <2>2, SameSequence
  <2>4. n < Len(es) => a[n + 1] = es[n + 1]
    BY <2>1
  <2> QED BY <2>3, <2>4 DEF u, v, a, Before
<1> QED BY <1>1, <1>2, <1>3, <1>4

(* All that stands before an entry that comes last. *)
LEMMA AllBefore ==
  ASSUME NEW S, NEW es \in Seq(S), NEW x \in S
  PROVE  Before(Append(es, x), Len(es)) = es
<1>1. Len(es) \in 0..Len(es)
  OBVIOUS
<1>2. Before(es, Len(es)) = es
  BY <1>1, BeforeFacts
<1>3. Before(Append(es, x), Len(es)) = Before(es, Len(es))
  BY <1>1, BeforeFacts
<1> QED BY <1>2, <1>3

(* Every cut lies between two entries or within one. *)
LEMMA CutPlace ==
  ASSUME NEW es \in Seq(Entries), NEW m \in 0..Len(File(es))
  PROVE  CutAt(es, m)
<1> DEFINE T == {s \in Seq(Entries) : \A k \in 0..Len(File(s)) : CutAt(s, k)}
<1>1. <<>> \in T
  <2> SUFFICES ASSUME NEW k \in 0..Len(File(<<>>)) PROVE CutAt(<<>>, k)
    OBVIOUS
  <2>1. <<>> \in Seq(Entries) /\ <<>> \in Seq(Bytes) /\ Len(<<>>) = 0
    OBVIOUS
  <2>2. k = 0 /\ File(<<>>) = <<>>
    BY FileFacts
  <2>3. Before(<<>>, 0) = <<>> /\ SubSeq(File(<<>>), 1, k) = <<>>
    BY <2>2 DEF Before
  <2>4. SubSeq(File(<<>>), 1, k) = File(Before(<<>>, 0)) \o <<>> /\ 0 \in 0..Len(<<>>)
    <3>1. <<>> \o <<>> = <<>>
      BY <2>1, ConcatFacts
    <3> QED BY <2>1, <2>2, <2>3, <3>1
  <2> QED BY <2>1, <2>4 DEF CutAt
<1>2. ASSUME NEW s \in T \cap Seq(Entries), NEW e \in Entries PROVE Append(s, e) \in T
  <2> DEFINE a == Append(s, e)
             f == File(s)
             c == Encode(e)
             l == Len(f)
  <2>0. a \in Seq(Entries) /\ f \in Seq(Bytes) /\ c \in Seq(Bytes) /\ c # <<>> /\ File(a) = f \o c
        /\ Len(a) = Len(s) + 1 /\ Len(s) \in Nat /\ a[Len(s) + 1] = e
    <3>1. f \in Seq(Bytes) /\ File(a) = f \o c
      BY FileFacts
    <3>2. c \in Seq(Bytes) /\ c # <<>>
      BY BodyType
    <3>3. a \in Seq(Entries) /\ Len(a) = Len(s) + 1 /\ Len(s) \in Nat /\ a[Len(s) + 1] = e
      BY AppendFacts
    <3> QED BY <3>1, <3>2, <3>3
  <2> SUFFICES ASSUME NEW k \in 0..Len(File(a)) PROVE CutAt(a, k)
    BY <2>0
  <2> HIDE DEF a, c
  <2>1. l \in Nat /\ Len(c) \in Nat /\ Len(c) >= 1 /\ Len(f \o c) = l + Len(c)
    <3> HIDE DEF f
    <3> QED BY <2>0
  <2>2. CASE k <= l
    <3>1. k \in 0..l
      BY <2>1, <2>2
    <3>2. SubSeq(File(a), 1, k) = SubSeq(f, 1, k)
      <4> HIDE DEF f
      <4> QED BY <2>0, <3>1, SubSeqConcat DEF l
    <3>3. CutAt(s, k)
      BY <3>1
    <3>4. PICK n \in 0..Len(s), b \in Seq(Bytes) :
            SubSeq(f, 1, k) = File(Before(s, n)) \o b /\ (b = <<>> \/ PartOfNext(s, n, b))
      BY <3>3 DEF CutAt
    <3>5. n \in 0..Len(a) /\ Before(a, n) = Before(s, n) /\ (n < Len(s) => n < Len(a) /\ a[n + 1] = s[n + 1])
      <4>1. Before(Append(s, e), n) = Before(s, n) /\ (n < Len(s) => Append(s, e)[n + 1] = s[n + 1])
        BY BeforeFacts
      <4> QED BY <2>0, <4>1 DEF a
    <3>6. b = <<>> \/ PartOfNext(a, n, b)
      BY <3>4, <3>5 DEF PartOfNext
    <3> HIDE DEF f
    <3>7. SubSeq(File(a), 1, k) = File(Before(a, n)) \o b
      BY <3>2, <3>4, <3>5
    <3> QED BY <3>5, <3>6, <3>7 DEF CutAt
  <2>3. CASE k > l
    <3> DEFINE j == k - l
    <3>1. j \in 1..Len(c) /\ j \in 0..Len(c) /\ k = l + j
      BY <2>0, <2>1, <2>3
    <3>2. SubSeq(File(a), 1, k) = f \o SubSeq(c, 1, j)
      <4> HIDE DEF f, j
      <4>1. SubSeq(f \o c, 1, k) = f \o SubSeq(c, 1, j)
        <5>1. f \in Seq(Bytes) /\ c \in Seq(Bytes) /\ j \in 0..Len(c) /\ Len(f) + j = k
          BY <2>0, <3>1 DEF l
        <5> HIDE DEF l, c
        <5>2. SubSeq(f \o c, 1, Len(f) + j) = f \o SubSeq(c, 1, j)
          BY <5>1, SubSeqConcat
        <5> QED BY <5>1, <5>2
      <4> QED BY <2>0, <3>1, <4>1 DEF l
    <3> HIDE DEF j
    <3>3. SubSeq(c, 1, j) \in Seq(Bytes) /\ <<>> \in Seq(Bytes) /\ SubSeq(c, 1, Len(c)) = c
      BY <2>0, <3>1, PrefixFacts
    <3>4. CASE j = Len(c)
      <4>1. SubSeq(File(a), 1, k) = File(a) \o <<>>
        <5> HIDE DEF f
        <5>1. f \o c \in Seq(Bytes)
          BY <2>0
        <5>2. (f \o c) \o <<>> = f \o c
          BY <5>1
        <5> QED BY <2>0, <3>2, <3>3, <3>4, <5>2
      <4>2. Before(a, Len(a)) = a /\ Len(a) \in 0..Len(a)
        <5>1. Len(a) \in 0..Len(a)
          BY <2>0
        <5> QED BY <2>0, <5>1, BeforeFacts
      <4> QED BY <3>3, <4>1, <4>2 DEF CutAt
    <3>5. CASE j # Len(c)
      <4>1. Before(a, Len(s)) = s
        <5>1. s \in Seq(Entries) /\ e \in Entries
          OBVIOUS
        <5>2. Before(Append(s, e), Len(s)) = s
          BY <5>1, AllBefore
        <5> QED BY <5>2 DEF a
      <4>2. Len(s) \in 0..Len(a) /\ Len(s) < Len(a) /\ j \in 1..(Len(c) - 1)
        BY <2>0, <2>1, <3>1, <3>5
      <4>3. PartOfNext(a, Len(s), SubSeq(c, 1, j))
        BY <2>0, <4>2 DEF PartOfNext, c
      <4> QED BY <3>2, <3>3, <4>1, <4>2, <4>3 DEF CutAt
    <3> QED BY <3>4, <3>5
  <2> QED BY <2>0, <2>1, <2>2, <2>3
<1> HIDE DEF T
<1>3. Seq(Entries) \subseteq T
  BY <1>1, <1>2, SeqSetInduction
<1> QED BY <1>3 DEF T

(* A file is longer the more entries it has. *)
LEMMA FilesGrow ==
  ASSUME NEW es \in Seq(Entries)
  PROVE  /\ \A n \in 0..Len(es) : Len(File(Before(es, n))) \in Nat
         /\ \A n \in 0..Len(es) : n < Len(es) =>
              Len(File(Before(es, n + 1))) = Len(File(Before(es, n))) + Len(Encode(es[n + 1]))
         /\ \A i, j \in 0..Len(es) : i < j => Len(File(Before(es, i))) < Len(File(Before(es, j)))
<1> DEFINE size(n) == Len(File(Before(es, n)))
           l == Len(es)
<1>1. ASSUME NEW n \in 0..l PROVE size(n) \in Nat
  <2>1. File(Before(es, n)) \in Seq(Bytes)
    BY BeforeFacts, FileFacts
  <2> QED BY <2>1
<1>2. ASSUME NEW n \in 0..l, n < l
      PROVE  size(n + 1) = size(n) + Len(Encode(es[n + 1])) /\ size(n) < size(n + 1)
  <2> DEFINE c == Encode(es[n + 1])
             f == File(Before(es, n))
  <2>1. es[n + 1] \in Entries /\ Before(es, n + 1) = Append(Before(es, n), es[n + 1]) /\ Before(es, n) \in Seq(Entries)
    BY <1>2, BeforeFacts
  <2>2. File(Before(es, n + 1)) = f \o c /\ f \in Seq(Bytes) /\ c \in Seq(Bytes) /\ c # <<>>
    BY <2>1, FileFacts, BodyType
  <2> HIDE DEF c, f
  <2>3. Len(f \o c) = Len(f) + Len(c) /\ Len(f) \in Nat /\ Len(c) \in Nat /\ Len(c) >= 1
    BY <2>2
  <2>4. size(n) = Len(f) /\ size(n + 1) = Len(f \o c)
    BY <2>2 DEF f
  <2> HIDE DEF size
  <2> QED BY <2>3, <2>4 DEF c
<1>3. l \in Nat
  OBVIOUS
<1> HIDE DEF size, l
<1>4. ASSUME NEW i \in 0..l PROVE \A j \in 0..l : i < j => size(i) < size(j)
  <2> DEFINE T == {n \in Nat : n <= l /\ i < n => size(i) < size(n)}
  <2>1. 0 \in T
    BY <1>3
  <2>2. ASSUME NEW n \in T PROVE n + 1 \in T
    <3> SUFFICES ASSUME n + 1 <= l, i < n + 1 PROVE size(i) < size(n + 1)
      OBVIOUS
    <3>1. n \in 0..l /\ n < l /\ n + 1 \in 0..l
      BY <1>3
    <3>2. size(n) < size(n + 1) /\ size(n) \in Nat /\ size(n + 1) \in Nat /\ size(i) \in Nat
      BY <1>1, <1>2, <3>1
    <3>3. i = n \/ i < n
      BY <1>3
    <3> QED BY <3>1, <3>2, <3>3
  <2>3. T = Nat
    <3> HIDE DEF T
    <3>1. T \subseteq Nat BY DEF T
    <3> QED BY <2>1, <2>2, <3>1, NatSetInduction
  <2> QED BY <1>3, <2>3
<1> QED BY <1>1, <1>2, <1>4 DEF size, l

-----------------------------------------------------------------------------
(* The index.                                                               *)

(* The index reads the tag of an entry, unless it is too long. *)
LEMMA TagOfBody ==
  ASSUME NEW e \in Entries
  PROVE  EntryTag(Body(e)) = IF Short(e) THEN [ok |-> TRUE, tag |-> Upper(e.code)] ELSE Refused
<1> DEFINE x == e.code
           r == e.extra \o Ranges(e.cidrs)
           b == Body(e)
           size == Len(Varint(Len(x)))
           length == ReadVarint(Tail(b))
<1>1. x \in Seq(Bytes) /\ Len(x) < Limit /\ r \in Seq(Bytes) /\ b = Delimited(CodeField, x) \o r
  BY BodyType
<1>2. CodeField \in Bytes
  BY DEF CodeField, Bytes
<1> HIDE DEF x, r, b
<1>3. /\ b # <<>> /\ b[1] = CodeField
      /\ length = [ok |-> TRUE, value |-> Len(x), size |-> size] /\ From(b, 2 + size) = x \o r
  <2>1. /\ Delimited(CodeField, x) \o r # <<>>
        /\ (Delimited(CodeField, x) \o r)[1] = CodeField
        /\ ReadVarint(Tail(Delimited(CodeField, x) \o r)) =
             [ok |-> TRUE, value |-> Len(x), size |-> Len(Varint(Len(x)))]
        /\ From(Delimited(CodeField, x) \o r, 2 + Len(Varint(Len(x)))) = x \o r
    BY <1>1, <1>2, ReadDelimited
  <2> QED BY <1>1, <2>1
<1> HIDE DEF length, size
<1>4. EntryTag(b) = IF length.ok
                    THEN IF length.value >= MaxTag \/ length.value > Len(From(b, 2 + length.size)) THEN Refused
                         ELSE [ok |-> TRUE, tag |-> Upper(SubSeq(From(b, 2 + length.size), 1, length.value))]
                    ELSE Refused
  BY <1>3 DEF EntryTag, length
<1> DEFINE y == x \o r
           n == Len(x)
<1>5. EntryTag(b) = IF n >= MaxTag \/ n > Len(y) THEN Refused
                    ELSE [ok |-> TRUE, tag |-> Upper(SubSeq(y, 1, n))]
  <2> HIDE DEF y, n
  <2>1. length.ok /\ length.value = n /\ From(b, 2 + length.size) = y
    BY <1>3 DEF y, n
  <2> QED BY <1>4, <2>1
<1>6. ~(n > Len(y)) /\ SubSeq(y, 1, n) = x /\ n \in Nat
  BY <1>1, ConcatFacts, ConcatParts
<1> HIDE DEF y, n
<1>7. EntryTag(b) = IF n >= MaxTag THEN Refused ELSE [ok |-> TRUE, tag |-> Upper(x)]
  BY <1>5, <1>6
<1>8. Short(e) <=> n < MaxTag
  BY DEF Short, n, x
<1>9. n >= MaxTag <=> ~(n < MaxTag)
  BY <1>6, GeoDatAssumption
<1> QED BY <1>7, <1>8, <1>9 DEF b, x

(* The entries of a whole file, one part each. *)
LEMMA FileFrames ==
  ASSUME NEW es \in Seq(Entries)
  PROVE  /\ Frames(File(es)).ok <=> AllFit(es)
         /\ Frames(File(es)).ok =>
              /\ DOMAIN Frames(File(es)).list = DOMAIN es
              /\ \A i \in DOMAIN es : Frames(File(es)).list[i].whole /\ Frames(File(es)).list[i].body = Body(es[i])
<1> DEFINE f == File(es)
           frames == Frames(f)
           none == [ok |-> TRUE, list |-> <<>>]
<1>1. f \in Seq(Bytes) /\ <<>> \in Seq(Bytes)
  BY FileFacts
<1>2. f \o <<>> = f
  <2> HIDE DEF f
  <2> QED BY <1>1, ConcatFacts
<1>3. Frames(<<>>) = none
  BY <1>1, FramesUnfold
<1>4. Reads(es, Frames(f \o <<>>), Frames(<<>>))
  BY <1>1, WrittenEntries
<1>5. Reads(es, frames, none)
  <2> HIDE DEF f, none
  <2> QED BY <1>2, <1>3, <1>4
<1>6. frames.ok => frames.list \in Seq(Entry)
  BY <1>1, FramesFacts
<1> HIDE DEF frames, f
<1>7. frames.ok <=> AllFit(es)
  BY <1>5 DEF Reads
<1>8. ASSUME frames.ok
      PROVE  DOMAIN frames.list = DOMAIN es /\ \A i \in DOMAIN es : frames.list[i].whole /\ frames.list[i].body = Body(es[i])
  <2> DEFINE list == frames.list
  <2>1. list \in Seq(Entry)
    BY <1>6, <1>8
  <2>2. Len(list) = Len(es) + Len(<<>>) /\ \A i \in 1..Len(es) : list[i].whole /\ list[i].body = Body(es[i])
    BY <1>5, <1>8 DEF Reads
  <2> HIDE DEF list
  <2>3. Len(<<>>) = 0 /\ Len(es) \in Nat /\ DOMAIN es = 1..Len(es) /\ DOMAIN list = 1..Len(list)
    BY <2>1
  <2>4. DOMAIN list = DOMAIN es
    BY <2>2, <2>3
  <2> QED BY <2>2, <2>3, <2>4 DEF list
<1> QED BY <1>7, <1>8 DEF frames, f

(* The index of a whole file. *)
LEMMA IndexIsExact ==
  ASSUME NEW es \in Seq(Entries)
  PROVE  /\ ScanTags(File(es)).ok <=> \A i \in DOMAIN es : Fits(es[i]) /\ Short(es[i])
         /\ ScanTags(File(es)).ok => ScanTags(File(es)).tags = Tags(es)
<1> DEFINE frames == Frames(File(es))
           list == frames.list
<1>1. /\ frames.ok <=> AllFit(es)
      /\ frames.ok => DOMAIN list = DOMAIN es /\ \A i \in DOMAIN es : list[i].whole /\ list[i].body = Body(es[i])
  BY FileFrames
<1>2. ScanTags(File(es)) = IF frames.ok /\ \A i \in DOMAIN list : list[i].whole THEN TagsOf(list) ELSE Refused
  BY DEF ScanTags
<1>3. \A i \in DOMAIN es : es[i] \in Entries
  OBVIOUS
<1> HIDE DEF frames
<1>4. CASE ~frames.ok
  BY <1>1, <1>2, <1>4 DEF Refused, AllFit
<1>5. CASE frames.ok
  <2>1. ScanTags(File(es)) = TagsOf(list)
    BY <1>1, <1>2, <1>5
  <2>2. \A i \in DOMAIN list :
          EntryTag(list[i].body) = IF Short(es[i]) THEN [ok |-> TRUE, tag |-> Upper(es[i].code)] ELSE Refused
    BY <1>1, <1>3, <1>5, TagOfBody
  <2> HIDE DEF list
  <2>3. CASE \E i \in DOMAIN list : ~Short(es[i])
    <3>1. \E i \in DOMAIN list : ~EntryTag(list[i].body).ok
      <4>1. PICK i \in DOMAIN list : ~Short(es[i])
        BY <2>3
      <4>2. EntryTag(list[i].body) = Refused
        BY <2>2, <4>1
      <4> QED BY <4>2 DEF Refused
    <3>2. TagsOf(list) = Refused
      BY <3>1 DEF TagsOf
    <3> QED BY <1>1, <1>5, <2>1, <2>3, <3>2 DEF Refused, list
  <2>4. CASE \A i \in DOMAIN list : Short(es[i])
    <3>1. \A i \in DOMAIN list : EntryTag(list[i].body) = [ok |-> TRUE, tag |-> Upper(es[i].code)]
      BY <2>2, <2>4
    <3>2. \A i \in DOMAIN list : EntryTag(list[i].body).ok /\ EntryTag(list[i].body).tag = Upper(es[i].code)
      <4> TAKE i \in DOMAIN list
      <4> DEFINE entry == EntryTag(list[i].body)
      <4>1. entry = [ok |-> TRUE, tag |-> Upper(es[i].code)]
        BY <3>1
      <4> HIDE DEF entry
      <4>2. entry.ok /\ entry.tag = Upper(es[i].code)
        BY <4>1
      <4> QED BY <4>2 DEF entry
    <3>3. TagsOf(list) = [ok |-> TRUE, tags |-> {EntryTag(list[i].body).tag : i \in DOMAIN list} \ {<<>>}]
      BY <3>2 DEF TagsOf
    <3>4. {EntryTag(list[i].body).tag : i \in DOMAIN list} = {Upper(es[i].code) : i \in DOMAIN list}
      BY <3>2
    <3>5. DOMAIN list = DOMAIN es
      BY <1>1, <1>5 DEF list
    <3>6. TagsOf(list) = [ok |-> TRUE, tags |-> Tags(es)]
      BY <3>3, <3>4, <3>5 DEF Tags
    <3> QED BY <1>1, <1>5, <2>1, <2>4, <3>5, <3>6 DEF AllFit
  <2> QED BY <2>3, <2>4
<1> QED BY <1>4, <1>5

(* A file with an entry that is not whole, after others. *)
LEMMA BrokenIsRefused ==
  ASSUME NEW es \in Seq(Entries), NEW b \in Seq(Bytes), Broken(Frames(b))
  PROVE  /\ ~ScanTags(File(es) \o b).ok
         /\ \A tag, address : ~PrefixesContaining(File(es) \o b, tag, address).ok
<1> DEFINE d == File(es) \o b
           frames == Frames(d)
           list == frames.list
           all == frames.ok /\ \A i \in DOMAIN list : list[i].whole
<1>1. d \in Seq(Bytes)
  BY FileFacts
<1>2. Reads(es, frames, Frames(b))
  BY WrittenEntries
<1>3. frames.ok => list \in Seq(Entry)
  BY <1>1, FramesFacts
<1>4. Frames(b).ok => Frames(b).list \in Seq(Entry)
  BY FramesFacts
<1> HIDE DEF d, frames
<1>5. ~all
  <2> SUFFICES ASSUME frames.ok PROVE \E i \in DOMAIN list : ~list[i].whole
    OBVIOUS
  <2> DEFINE rest == Frames(b).list
             n == Len(es)
             m == Len(rest)
  <2>1. Frames(b).ok /\ Len(list) = n + m /\ \A i \in 1..m : list[n + i] = rest[i]
    BY <1>2 DEF Reads
  <2>2. m >= 1 /\ ~rest[1].whole /\ m \in Nat /\ n \in Nat
    <3>1. rest \in Seq(Entry)
      BY <1>4, <2>1
    <3> QED BY <2>1, <3>1 DEF Broken
  <2>3. DOMAIN list = 1..Len(list)
    BY <1>3
  <2> HIDE DEF list, rest, n, m
  <2>4. 1 \in 1..m /\ n + 1 \in 1..(n + m)
    BY <2>2
  <2>5. list[n + 1] = rest[1]
    BY <2>1, <2>4
  <2> QED BY <2>1, <2>2, <2>3, <2>4, <2>5
<1>6. ScanTags(d) = IF all THEN TagsOf(list) ELSE Refused
  BY DEF ScanTags, frames
<1>7. ~ScanTags(d).ok
  BY <1>5, <1>6 DEF Refused
<1>8. ASSUME NEW tag, NEW address PROVE ~PrefixesContaining(d, tag, address).ok
  <2> DEFINE scan == ScanPrefixes(d, tag, address)
             here(entry) ==
               IF ~entry.ok THEN Refused
               ELSE IF entry.tag = Upper(tag) THEN PrefixesOf(entry.rest, address)
               ELSE Nothing
  <2>1. scan = IF all THEN AllFound([i \in DOMAIN list |-> here(EntryCode(list[i].body))]) ELSE Refused
    BY DEF ScanPrefixes, frames
  <2> HIDE DEF here, all
  <2>2. scan = Refused
    BY <1>5, <2>1
  <2> HIDE DEF scan
  <2>3. PrefixesContaining(d, tag, address) =
          IF scan.ok THEN [ok |-> TRUE, found |-> FirstOnes(scan.found, ToSet(scan.found))] ELSE Refused
    BY DEF PrefixesContaining, scan
  <2> QED BY <2>2, <2>3 DEF Refused
<1> QED BY <1>7, <1>8 DEF d

-----------------------------------------------------------------------------
(* What was written is read back: the fields of an entry.                   *)

(* A field of a message, and what follows it. *)
Value == Seq(Bytes) \cup Nat

FieldPart == [ok : {TRUE}, tag : Bytes, value : Value, rest : Seq(Bytes)]

(* A field is bytes or a number, and it leaves less than there was. *)
LEMMA FieldFacts ==
  ASSUME NEW bytes \in Seq(Bytes), bytes # <<>>
  PROVE  /\ Field(bytes) \in FieldPart \cup {Refused}
         /\ Field(bytes).ok => Field(bytes) \in FieldPart
         /\ Leaves(bytes, Field(bytes))
<1> DEFINE number == ReadVarintBytes(Tail(bytes))
           rest == From(bytes, 2 + number.size)
           type == bytes[1] % 4
           short == [ok |-> TRUE, tag |-> bytes[1], value |-> number.value, rest |-> rest]
           long == [ok |-> TRUE, tag |-> bytes[1], value |-> SubSeq(rest, 1, number.value),
                    rest |-> From(rest, number.value + 1)]
<1>1. Tail(bytes) \in Seq(Bytes) /\ Len(Tail(bytes)) = Len(bytes) - 1 /\ Len(bytes) \in Nat /\ bytes[1] \in Bytes
  OBVIOUS
<1>2. number.ok \in BOOLEAN /\ (number.ok => number.value \in Nat /\ number.size \in 1..(Len(bytes) - 1))
  <2> DEFINE t == Tail(bytes)
  <2>1. t \in Seq(Bytes)
    BY <1>1
  <2> HIDE DEF t
  <2>2. ReadVarintBytes(t) = ReadVarint(t)
    BY <2>1, ReadersOfVarints
  <2>3. ReadVarint(t).ok \in BOOLEAN
        /\ (ReadVarint(t).ok => ReadVarint(t).value \in Nat /\ ReadVarint(t).size \in 1..Len(t))
    BY <2>1, VarintFacts
  <2> QED BY <1>1, <2>2, <2>3 DEF t
<1>3. Field(bytes) = IF type \notin {0, 2} THEN Refused
                     ELSE IF number.ok
                     THEN IF type = 0 THEN short ELSE IF number.value > Len(rest) THEN Refused ELSE long
                     ELSE Refused
  BY DEF Field
<1> HIDE DEF number, type
<1>4. CASE Field(bytes) = Refused
  BY <1>4 DEF Refused, Leaves
<1> DEFINE i == 2 + number.size
<1>5. ASSUME number.ok
      PROVE  rest \in Seq(Bytes) /\ Len(rest) \in 0..(Len(bytes) - 2) /\ rest = From(bytes, i)
             /\ i \in 3..(Len(bytes) + 1) /\ Len(rest) = Len(bytes) + 1 - i
  <2>1. i \in 3..(Len(bytes) + 1) /\ i \in 1..(Len(bytes) + 1)
    BY <1>1, <1>2, <1>5
  <2> HIDE DEF i
  <2>2. From(bytes, i) \in Seq(Bytes) /\ Len(From(bytes, i)) = Len(bytes) + 1 - i
    BY <2>1, FromFacts
  <2>3. Len(bytes) + 1 - i \in 0..(Len(bytes) - 2)
    BY <1>1, <2>1
  <2> QED BY <2>1, <2>2, <2>3 DEF i
<1> HIDE DEF rest, i
<1>6. CASE number.ok /\ Field(bytes) = short
  <2>1. short \in FieldPart
    BY <1>1, <1>2, <1>5, <1>6 DEF FieldPart, Value
  <2>2. short.rest = rest /\ short.ok
    OBVIOUS
  <2>3. Leaves(bytes, short)
    <3>1. Len(bytes) + 1 - Len(rest) = i /\ Len(rest) \in 0..(Len(bytes) - 1)
      BY <1>1, <1>5, <1>6
    <3> HIDE DEF short
    <3> QED BY <1>5, <1>6, <2>2, <3>1 DEF Leaves
  <2> HIDE DEF short
  <2> QED BY <1>6, <2>1, <2>3
<1>7. CASE number.ok /\ ~(number.value > Len(rest)) /\ Field(bytes) = long
  <2> DEFINE j == number.value + 1
  <2>1. From(rest, j) \in Seq(Bytes) /\ Leaves(bytes, [ok |-> TRUE, rest |-> From(rest, j)])
    BY <1>1, <1>2, <1>5, <1>7, EndOfEnd
  <2>2. SubSeq(rest, 1, number.value) \in Seq(Bytes)
    BY <1>2, <1>5, <1>7
  <2>3. long \in FieldPart
    BY <1>1, <2>1, <2>2 DEF FieldPart, Value
  <2>4. long.rest = From(rest, j) /\ long.ok
    OBVIOUS
  <2> HIDE DEF long, j
  <2>5. Leaves(bytes, long)
    BY <2>1, <2>4 DEF Leaves
  <2> QED BY <1>7, <2>3, <2>5
<1> QED BY <1>3, <1>4, <1>6, <1>7

(* The fields of a message are the first and those of what it leaves. *)
LEMMA FieldsUnfold ==
  ASSUME NEW bytes \in Seq(Bytes)
  PROVE  Fields(bytes) =
           IF bytes = <<>> THEN [ok |-> TRUE, list |-> <<>>]
           ELSE IF Field(bytes).ok THEN Join(Field(bytes), Fields(Field(bytes).rest))
           ELSE Refused
<1> DEFINE P == FieldPart \cup {Refused}
           step == [b \in Some |-> Field(b)]
<1>1. \A b \in Some : b \in Seq(Bytes) /\ b # <<>>
  BY DEF Some
<1>2. step \in [Some -> P] /\ \A b \in Some : Leaves(b, step[b])
  BY <1>1, FieldFacts
<1>3. ASSUME NEW b \in Seq(Bytes) PROVE Fields(b) = Parts(Starts(b, step))
  <2>1. \A i \in DOMAIN b : step[From(b, i)] = Field(From(b, i))
    <3> SUFFICES ASSUME NEW i \in DOMAIN b PROVE From(b, i) \in Some
      OBVIOUS
    <3>1. i \in 1..(Len(b) + 1) /\ i # Len(b) + 1
      OBVIOUS
    <3> QED BY <3>1, FromFacts DEF Some
  <2> HIDE DEF step
  <2>2. Starts(b, step) = [i \in DOMAIN b |-> Field(From(b, i))]
    BY <2>1 DEF Starts
  <2> QED BY <2>2 DEF Fields
<1>4. CASE bytes = <<>>
  <2> HIDE DEF step, P
  <2> QED BY <1>2, <1>3, <1>4, StartsUnfold
<1>5. CASE bytes # <<>>
  <2>1. step[bytes] = Field(bytes) /\ (Field(bytes).ok => Field(bytes).rest \in Seq(Bytes))
    BY <1>5, FieldFacts DEF Some, FieldPart
  <2> HIDE DEF step, P
  <2> QED BY <1>2, <1>3, <1>5, <2>1, StartsUnfold
<1> QED BY <1>4, <1>5

(* The fields of a message are fields. *)
LEMMA FieldsFacts ==
  ASSUME NEW bytes \in Seq(Bytes)
  PROVE  /\ Fields(bytes).ok \in BOOLEAN
         /\ Fields(bytes).ok => Fields(bytes).list \in Seq(FieldPart)
<1> DEFINE Right(b) == Fields(b).ok \in BOOLEAN /\ (Fields(b).ok => Fields(b).list \in Seq(FieldPart))
           T == {n \in Nat : \A b \in Seq(Bytes) : Len(b) <= n => Right(b)}
<1>1. ASSUME NEW b \in Seq(Bytes), b # <<>> /\ Field(b).ok => Right(Field(b).rest)
      PROVE  Right(b)
  <2> DEFINE L == Seq(FieldPart)
             part == Field(b)
             others == Fields(part.rest)
  <2>1. CASE b = <<>>
    <3>1. Fields(b) = [ok |-> TRUE, list |-> <<>>]
      BY <2>1, FieldsUnfold
    <3> QED BY <3>1
  <2>2. CASE b # <<>> /\ ~part.ok
    <3>1. Fields(b) = Refused
      BY <2>2, FieldsUnfold
    <3> QED BY <3>1 DEF Refused
  <2>3. CASE b # <<>> /\ part.ok
    <3>1. Fields(b) = Join(part, others)
      BY <2>3, FieldsUnfold
    <3>2. part \in FieldPart
      BY <2>3, FieldFacts
    <3>3. others.ok \in BOOLEAN /\ (others.ok => others.list \in L)
      BY <1>1, <2>3
    <3> HIDE DEF part, others
    <3>4. others.ok => <<part>> \o others.list \in L
      BY <3>2, <3>3
    <3> HIDE DEF L
    <3>5. Fields(b).ok \in BOOLEAN /\ (Fields(b).ok => Fields(b).list \in L)
      BY <3>1, <3>3, <3>4 DEF Join, Refused
    <3> QED BY <3>5 DEF L
  <2> QED BY <2>1, <2>2, <2>3
<1>2. 0 \in T
  <2> SUFFICES ASSUME NEW b \in Seq(Bytes), Len(b) <= 0 PROVE Right(b)
    OBVIOUS
  <2>1. b = <<>>
    OBVIOUS
  <2> HIDE DEF Right
  <2> QED BY <1>1, <2>1
<1>3. ASSUME NEW n \in T PROVE n + 1 \in T
  <2> SUFFICES ASSUME NEW b \in Seq(Bytes), Len(b) <= n + 1, b # <<>>, Field(b).ok PROVE Right(Field(b).rest)
    <3> HIDE DEF Right
    <3> QED BY <1>1
  <2> DEFINE rest == Field(b).rest
  <2>1. rest \in Seq(Bytes) /\ Len(rest) \in 0..(Len(b) - 1)
    BY FieldFacts DEF FieldPart, Leaves
  <2> HIDE DEF rest, Right
  <2>2. Len(rest) <= n
    BY <2>1
  <2> QED BY <2>1, <2>2 DEF rest
<1>4. T = Nat
  <2> HIDE DEF T
  <2>1. T \subseteq Nat BY DEF T
  <2> QED BY <1>2, <1>3, <2>1, NatSetInduction
<1> HIDE DEF Right
<1>5. Len(bytes) \in Nat
  OBVIOUS
<1>6. Right(bytes)
  BY <1>4, <1>5
<1> QED BY <1>6 DEF Right

(* A number is read the same, whatever follows it. *)
LEMMA VarintLocal ==
  ASSUME NEW t \in Seq(Bytes), NEW b \in Seq(Bytes), ReadVarintBytes(t).ok
  PROVE  ReadVarintBytes(t \o b) = ReadVarintBytes(t)
<1> DEFINE d == t \o b
           ends(s) == {n \in LastBytes(s) : n <= MaxVarint}
<1>1. d \in Seq(Bytes) /\ Len(d) = Len(t) + Len(b) /\ Len(t) \in Nat /\ Len(b) \in Nat
      /\ (\A i \in 1..Len(t) : d[i] = t[i])
  BY ConcatFacts
<1>2. /\ ReadVarintBytes(t) = NumberEnding(t, ends(t))
      /\ ReadVarintBytes(d) = NumberEnding(d, ends(d))
  BY DEF ReadVarintBytes
<1>3. ends(t) # {}
  BY <1>2 DEF NumberEnding, Refused
<1> HIDE DEF d
<1>4. DOMAIN t = 1..Len(t) /\ DOMAIN d = 1..Len(d)
  BY <1>1
<1>5. \A i \in 1..Len(t) : t[i] \in Int
  <2>1. \A i \in 1..Len(t) : t[i] \in Bytes
    OBVIOUS
  <2> QED BY <2>1 DEF Bytes
<1>6. PICK n \in ends(t) : TRUE
  BY <1>3
<1>7. n \in 1..Len(t) /\ n <= 3 /\ t[n] < More /\ \A i \in 1..(n - 1) : t[i] >= More
  BY <1>4, <1>6 DEF LastBytes, MaxVarint
<1>8. ASSUME NEW s \in {t, d}, NEW m \in ends(s) PROVE m = n
  <2>1. m \in 1..Len(d) /\ s[m] < More /\ \A i \in 1..(m - 1) : s[i] >= More
    BY <1>1, <1>4, <1>8 DEF LastBytes
  <2>2. \A i \in 1..Len(t) : s[i] = t[i]
    BY <1>1
  <2>3. CASE m < n
    <3>1. m \in 1..(n - 1) /\ m \in 1..Len(t)
      BY <1>1, <1>7, <2>1, <2>3
    <3>2. t[m] >= More /\ t[m] < More
      BY <1>7, <2>1, <2>2, <3>1
    <3> QED BY <1>5, <3>1, <3>2 DEF More
  <2>4. CASE n < m
    <3>1. n \in 1..(m - 1)
      BY <1>1, <1>7, <2>1, <2>4
    <3>2. t[n] >= More /\ t[n] < More
      BY <1>7, <2>1, <2>2, <3>1
    <3> QED BY <1>5, <1>7, <3>2 DEF More
  <2> QED BY <1>1, <1>7, <2>1, <2>3, <2>4
<1>9. n \in ends(d)
  <2>1. n \in 1..Len(d) /\ \A i \in 1..n : i \in 1..Len(t) /\ d[i] = t[i]
    BY <1>1, <1>7
  <2>2. d[n] < More /\ \A i \in 1..(n - 1) : d[i] >= More
    BY <1>7, <2>1
  <2> QED BY <1>4, <1>7, <2>1, <2>2 DEF LastBytes, MaxVarint
<1>10. ends(t) = {n} /\ ends(d) = {n}
  <2>1. \A m \in ends(t) : m = n
    BY <1>8
  <2>2. \A m \in ends(d) : m = n
    BY <1>8
  <2> HIDE DEF ends
  <2> QED BY <1>6, <1>9, <2>1, <2>2
<1>11. NumberOf(d, n) = NumberOf(t, n)
  <2> DEFINE bits(s, i) == IF i <= n THEN s[i] % More ELSE 0
  <2>1. ASSUME NEW i \in 1..3 PROVE bits(d, i) = bits(t, i)
    <3>1. i <= n => i \in 1..Len(t)
      BY <1>1, <1>7
    <3> QED BY <1>1, <3>1
  <2>2. bits(d, 1) = bits(t, 1) /\ bits(d, 2) = bits(t, 2) /\ bits(d, 3) = bits(t, 3)
    BY <2>1
  <2>3. NumberOf(d, n) = (bits(d, 1) + 8 * bits(d, 2) + 64 * bits(d, 3)) % Limit
    BY DEF NumberOf
  <2>4. NumberOf(t, n) = (bits(t, 1) + 8 * bits(t, 2) + 64 * bits(t, 3)) % Limit
    BY DEF NumberOf
  <2> HIDE DEF bits
  <2> QED BY <2>2, <2>3, <2>4
<1>12. (CHOOSE m \in {n} : TRUE) = n
  OBVIOUS
<1> HIDE DEF ends
<1>13. NumberEnding(t, {n}) = NumberEnding(d, {n})
  BY <1>11, <1>12 DEF NumberEnding, Number
<1>14. ReadVarintBytes(d) = ReadVarintBytes(t)
  BY <1>2, <1>10, <1>13
<1> QED BY <1>14 DEF d

(* What starts at a place of the first of two sequences put together. *)
LEMMA EndConcat ==
  ASSUME NEW S, NEW s \in Seq(S), NEW b \in Seq(S), NEW i \in 1..(Len(s) + 1)
  PROVE  From(s \o b, i) = From(s, i) \o b
<1> DEFINE d == s \o b
           u == From(d, i)
           r == From(s, i)
           v == r \o b
           m == Len(s)
           n == Len(b)
<1>1. d \in Seq(S) /\ Len(d) = m + n /\ m \in Nat /\ n \in Nat
      /\ (\A j \in 1..m : d[j] = s[j]) /\ (\A j \in 1..n : d[m + j] = b[j])
  BY ConcatFacts
<1> HIDE DEF d
<1>2. r \in Seq(S) /\ Len(r) = m + 1 - i /\ \A j \in 1..(m + 1 - i) : r[j] = s[i + j - 1]
  BY FromFacts
<1>3. u \in Seq(S) /\ Len(u) = m + n + 1 - i /\ \A j \in 1..(m + n + 1 - i) : u[j] = d[i + j - 1]
  <2> HIDE DEF u, m, n
  <2>1. i \in 1..(Len(d) + 1) /\ d \in Seq(S)
    BY <1>1 DEF m
  <2>2. From(d, i) \in Seq(S) /\ Len(From(d, i)) = Len(d) + 1 - i
        /\ \A j \in 1..(Len(d) + 1 - i) : From(d, i)[j] = d[i + j - 1]
    BY <2>1, FromFacts
  <2> QED BY <1>1, <2>2 DEF u
<1> HIDE DEF u, r
<1>4. v \in Seq(S) /\ Len(v) = Len(r) + n /\ (\A j \in 1..Len(r) : v[j] = r[j]) /\ (\A j \in 1..n : v[Len(r) + j] = b[j])
  <2>1. r \in Seq(S)
    BY <1>2
  <2>2. /\ r \o b \in Seq(S) /\ Len(r \o b) = Len(r) + Len(b)
        /\ \A j \in 1..Len(r) : (r \o b)[j] = r[j]
        /\ \A j \in 1..Len(b) : (r \o b)[Len(r) + j] = b[j]
    BY <2>1, ConcatFacts
  <2> QED BY <2>2
<1>5. i \in Nat /\ 1 <= i /\ i <= m + 1
  BY <1>1
<1> HIDE DEF v, m, n
<1> DEFINE k == m + 1 - i
<1>6. k \in Nat /\ Len(r) = k /\ m + n + 1 - i = k + n /\ i = m + 1 - k
  BY <1>1, <1>2, <1>5
<1> HIDE DEF k
<1>7. ASSUME NEW j \in 1..(k + n) PROVE u[j] = v[j]
  <2>1. CASE j \in 1..k
    <3>1. i + j - 1 \in 1..m /\ j \in 1..(m + 1 - i) /\ j \in 1..(m + n + 1 - i)
      BY <1>1, <1>5, <1>6, <2>1
    <3>2. v[j] = r[j] /\ r[j] = s[i + j - 1] /\ u[j] = d[i + j - 1] /\ d[i + j - 1] = s[i + j - 1]
      BY <1>1, <1>2, <1>3, <1>4, <1>6, <2>1, <3>1
    <3> QED BY <3>2
  <2>2. CASE j \notin 1..k
    <3> DEFINE l == j - k
    <3>1. l \in 1..n /\ j = k + l /\ i + j - 1 = m + l /\ j \in 1..(m + n + 1 - i)
      BY <1>1, <1>6, <2>2
    <3> HIDE DEF l
    <3>2. v[j] = b[l] /\ u[j] = d[m + l] /\ d[m + l] = b[l]
      BY <1>1, <1>3, <1>4, <1>6, <3>1
    <3> QED BY <3>2
  <2> QED BY <2>1, <2>2
<1>8. Len(u) = k + n /\ Len(v) = k + n
  BY <1>3, <1>4, <1>6
<1>9. u = v
  BY <1>3, <1>4, <1>7, <1>8, SameSequence
<1> QED BY <1>9 DEF u, v, r, d

(* A field that can be read is read the same, whatever comes after it. *)
LEMMA FieldLocal ==
  ASSUME NEW a \in Seq(Bytes), a # <<>>, NEW b \in Seq(Bytes), Field(a).ok
  PROVE  Field(a \o b) = [ok |-> TRUE, tag |-> Field(a).tag, value |-> Field(a).value, rest |-> Field(a).rest \o b]
<1> DEFINE d == a \o b
           t == Tail(a)
           number == ReadVarintBytes(t)
           type == a[1] % 4
           n == number.value
           size == number.size
           y == From(a, 2 + size)
<1>1. t \in Seq(Bytes) /\ Len(t) = Len(a) - 1 /\ Len(a) \in Nat /\ Len(a) >= 1
  OBVIOUS
<1>2. d[1] = a[1] /\ Tail(d) = t \o b /\ d \in Seq(Bytes)
  <2>1. a = <<a[1]>> \o t /\ a[1] \in Bytes
    OBVIOUS
  <2> HIDE DEF t
  <2>2. d = <<a[1]>> \o (t \o b)
    <3>1. <<a[1]>> \in Seq(Bytes)
      BY <2>1
    <3>2. (<<a[1]>> \o t) \o b = <<a[1]>> \o (t \o b)
      BY <1>1, <3>1, ConcatAssoc
    <3> QED BY <2>1, <3>2
  <2>3. t \o b \in Seq(Bytes)
    BY <1>1
  <2> DEFINE w == t \o b
             x == a[1]
  <2> HIDE DEF w, x, d
  <2>4. x \in Bytes /\ w \in Seq(Bytes) /\ d = <<x>> \o w
    BY <2>1, <2>2, <2>3 DEF w, x
  <2>5. d[1] = x /\ Tail(d) = w /\ d \in Seq(Bytes)
    BY <2>4
  <2> QED BY <2>5 DEF w, x
<1>3. Field(a) = IF type \notin {0, 2} THEN Refused
                 ELSE IF number.ok
                 THEN IF type = 0 THEN [ok |-> TRUE, tag |-> a[1], value |-> n, rest |-> y]
                      ELSE IF n > Len(y) THEN Refused
                      ELSE [ok |-> TRUE, tag |-> a[1], value |-> SubSeq(y, 1, n), rest |-> From(y, n + 1)]
                 ELSE Refused
  BY DEF Field
<1> HIDE DEF d
<1>4. type \in {0, 2} /\ number.ok
  <2> HIDE DEF type, number, y
  <2> QED BY <1>3 DEF Refused
<1>5. n \in Nat /\ size \in 1..Len(t) /\ number = [ok |-> TRUE, value |-> n, size |-> size]
  <2> HIDE DEF t
  <2>1. number = ReadVarint(t)
    BY <1>1, ReadersOfVarints
  <2>2. ReadVarint(t).ok => ReadVarint(t).value \in Nat /\ ReadVarint(t).size \in 1..Len(t)
    BY <1>1, VarintFacts
  <2> DEFINE ends == {m \in LastBytes(t) : m <= MaxVarint}
             last == CHOOSE m \in ends : TRUE
  <2>3. number = IF ends = {} THEN Refused ELSE [ok |-> TRUE, value |-> NumberOf(t, last), size |-> last]
    BY DEF ReadVarintBytes, NumberEnding, Number
  <2> HIDE DEF ends, last, number
  <2>4. number = [ok |-> TRUE, value |-> NumberOf(t, last), size |-> last]
    BY <1>4, <2>3 DEF Refused
  <2>5. n = NumberOf(t, last) /\ size = last
    BY <2>4
  <2> QED BY <1>4, <2>1, <2>2, <2>4, <2>5
<1>6. ReadVarintBytes(Tail(d)) = [ok |-> TRUE, value |-> n, size |-> size]
  <2> HIDE DEF t, n, size
  <2> QED BY <1>1, <1>2, <1>4, <1>5, VarintLocal
<1> HIDE DEF number, n, size, t, type
<1>7. 2 + size \in 1..(Len(a) + 1)
  BY <1>1, <1>5
<1>8. From(d, 2 + size) = y \o b /\ y \in Seq(Bytes)
  <2> DEFINE i == 2 + size
  <2> HIDE DEF i
  <2>1. i \in 1..(Len(a) + 1)
    BY <1>7 DEF i
  <2>2. From(a \o b, i) = From(a, i) \o b /\ From(a, i) \in Seq(Bytes)
    BY <2>1, EndConcat, FromFacts
  <2> QED BY <2>2 DEF i, d
<1> HIDE DEF y
<1> DEFINE z == y \o b
<1>9. /\ d[1] % 4 = 2 => Field(d) = IF n > Len(z) THEN Refused
                                    ELSE [ok |-> TRUE, tag |-> d[1], value |-> SubSeq(z, 1, n), rest |-> From(z, n + 1)]
      /\ d[1] % 4 = 0 => Field(d) = [ok |-> TRUE, tag |-> d[1], value |-> n, rest |-> z]
  <2> HIDE DEF z
  <2>1. z = From(d, 2 + size)
    BY <1>8 DEF z
  <2> QED BY <1>6, <2>1, FieldForm
<1>10. d[1] % 4 = type
  BY <1>2 DEF type
<1>11. CASE type = 0
  <2>1. Field(a) = [ok |-> TRUE, tag |-> a[1], value |-> n, rest |-> y]
    BY <1>3, <1>4, <1>11
  <2>2. Field(d) = [ok |-> TRUE, tag |-> a[1], value |-> n, rest |-> z]
    BY <1>2, <1>9, <1>10, <1>11
  <2> HIDE DEF z
  <2>3. Field(a).tag = a[1] /\ Field(a).value = n /\ Field(a).rest = y
    BY <2>1
  <2> QED BY <2>2, <2>3 DEF z, d
<1>12. CASE type = 2
  <2>1. ~(n > Len(y)) /\ Field(a) = [ok |-> TRUE, tag |-> a[1], value |-> SubSeq(y, 1, n), rest |-> From(y, n + 1)]
    <3> DEFINE long == [ok |-> TRUE, tag |-> a[1], value |-> SubSeq(y, 1, n), rest |-> From(y, n + 1)]
    <3>1. Field(a) = IF n > Len(y) THEN Refused ELSE long
      BY <1>3, <1>4, <1>12
    <3> HIDE DEF long
    <3>2. ~(n > Len(y)) /\ Field(a) = long
      BY <3>1 DEF Refused
    <3> QED BY <3>2 DEF long
  <2>2. n \in 0..Len(y) /\ Len(y) \in Nat /\ n + 1 \in 1..(Len(y) + 1)
    <3>1. Len(y) \in Nat
      BY <1>8
    <3> QED BY <1>5, <2>1, <3>1
  <2>3. Len(z) = Len(y) + Len(b) /\ ~(n > Len(z))
    <3>1. Len(z) = Len(y) + Len(b) /\ Len(b) \in Nat
      BY <1>8
    <3> HIDE DEF z
    <3> QED BY <2>2, <3>1
  <2>4. SubSeq(z, 1, n) = SubSeq(y, 1, n)
    BY <1>8, <2>2, SubSeqConcat
  <2>5. From(z, n + 1) = From(y, n + 1) \o b
    <3> DEFINE i == n + 1
    <3> HIDE DEF i
    <3>1. i \in 1..(Len(y) + 1)
      BY <2>2 DEF i
    <3>2. From(y \o b, i) = From(y, i) \o b
      BY <1>8, <3>1, EndConcat
    <3> QED BY <3>2 DEF i
  <2> HIDE DEF z
  <2>6. Field(d) = [ok |-> TRUE, tag |-> a[1], value |-> SubSeq(y, 1, n), rest |-> From(y, n + 1) \o b]
    BY <1>2, <1>9, <1>10, <1>12, <2>3, <2>4, <2>5
  <2>7. Field(a).tag = a[1] /\ Field(a).value = SubSeq(y, 1, n) /\ Field(a).rest = From(y, n + 1)
    <3> DEFINE part == Field(a)
               u == SubSeq(y, 1, n)
               w == From(y, n + 1)
    <3> HIDE DEF part, u, w
    <3>1. part = [ok |-> TRUE, tag |-> a[1], value |-> u, rest |-> w]
      BY <2>1 DEF part, u, w
    <3>2. part.tag = a[1] /\ part.value = u /\ part.rest = w
      BY <3>1
    <3> QED BY <3>2 DEF part, u, w
  <2> QED BY <2>6, <2>7 DEF d
<1> QED BY <1>4, <1>11, <1>12

(* The fields of r are those of p, which may be followed by more, and then  *)
(* those of q.                                                              *)
Adds(p, q, r) ==
  /\ r.ok <=> q.ok
  /\ r.ok =>
       /\ Len(r.list) = Len(p.list) + Len(q.list)
       /\ \A i \in 1..Len(p.list) : r.list[i].tag = p.list[i].tag /\ r.list[i].value = p.list[i].value
       /\ \A i \in 1..Len(q.list) : r.list[Len(p.list) + i] = q.list[i]

(* Adds stays true with a field before both. *)
LEMMA OneField ==
  ASSUME NEW part \in FieldPart, NEW more \in FieldPart, part.tag = more.tag, part.value = more.value,
         NEW p, p.ok, p.list \in Seq(FieldPart), NEW r, r.ok \in BOOLEAN, r.ok => r.list \in Seq(FieldPart),
         NEW q, q.ok => q.list \in Seq(FieldPart), Adds(p, q, r)
  PROVE  Adds(Join(part, p), q, Join(more, r))
<1> DEFINE p1 == Join(part, p)
           r1 == Join(more, r)
           P == FieldPart
<1>0. part \in P /\ more \in P /\ p.list \in Seq(P) /\ (r.ok => r.list \in Seq(P)) /\ (q.ok => q.list \in Seq(P))
  OBVIOUS
<1> HIDE DEF P
<1>1. p1.list = <<part>> \o p.list
  BY DEF Join
<1>2. r1.ok <=> r.ok
  BY DEF Join, Refused
<1>3. r.ok => r1.list = <<more>> \o r.list
  BY DEF Join
<1> HIDE DEF p1, r1
<1>4. r1.ok <=> q.ok
  BY <1>2 DEF Adds
<1> DEFINE s == p.list
           n == Len(s)
           s1 == p1.list
<1>5. n \in Nat /\ Len(s1) = 1 + n /\ s1[1] = part /\ \A i \in 1..n : s1[1 + i] = s[i]
  <2> HIDE DEF s, s1
  <2>1. s \in Seq(P) /\ s1 = <<part>> \o s
    BY <1>0, <1>1 DEF s, s1
  <2> QED BY <1>0, <2>1
<1>6. ASSUME r1.ok
      PROVE  /\ Len(r1.list) = Len(p1.list) + Len(q.list)
             /\ \A i \in 1..Len(p1.list) : r1.list[i].tag = p1.list[i].tag /\ r1.list[i].value = p1.list[i].value
             /\ \A i \in 1..Len(q.list) : r1.list[Len(p1.list) + i] = q.list[i]
  <2> DEFINE t == r.list
             t1 == r1.list
             u == q.list
             m == Len(u)
  <2>1. t \in Seq(P) /\ t1 = <<more>> \o t /\ u \in Seq(P)
    BY <1>0, <1>2, <1>3, <1>4, <1>6
  <2>2. Len(t) = n + m /\ (\A i \in 1..n : t[i].tag = s[i].tag /\ t[i].value = s[i].value)
        /\ (\A i \in 1..m : t[n + i] = u[i])
    BY <1>2, <1>6 DEF Adds
  <2> HIDE DEF t, t1, u, s, s1, n
  <2>3. Len(t1) = 1 + Len(t) /\ t1[1] = more /\ (\A i \in 1..Len(t) : t1[1 + i] = t[i]) /\ m \in Nat
    BY <1>0, <2>1
  <2> HIDE DEF m
  <2>4. Len(t1) = Len(s1) + m
    BY <1>5, <2>2, <2>3
  <2>5. ASSUME NEW i \in 1..(1 + n) PROVE t1[i].tag = s1[i].tag /\ t1[i].value = s1[i].value
    <3>1. CASE i = 1
      BY <1>5, <2>3, <3>1
    <3>2. CASE i # 1
      <4> DEFINE j == i - 1
      <4>1. j \in 1..n /\ j \in 1..(n + m) /\ i = 1 + j
        BY <1>5, <2>3, <3>2
      <4> HIDE DEF j
      <4>2. t1[i] = t[j] /\ s1[i] = s[j]
        BY <1>5, <2>2, <2>3, <4>1
      <4> QED BY <2>2, <4>1, <4>2
    <3> QED BY <3>1, <3>2
  <2>6. ASSUME NEW i \in 1..m PROVE t1[1 + n + i] = u[i]
    <3>1. n + i \in 1..(n + m) /\ 1 + n + i = 1 + (n + i)
      BY <1>5, <2>3
    <3>2. t1[1 + (n + i)] = t[n + i]
      BY <2>2, <2>3, <3>1
    <3> QED BY <2>2, <3>1, <3>2
  <2> QED BY <1>5, <2>4, <2>5, <2>6 DEF t1, s1, u, m
<1> QED BY <1>4, <1>6 DEF Adds, p1, r1

(* The fields of two messages put together, if the first can be read, are   *)
(* those of both.                                                           *)
LEMMA FieldsConcat ==
  ASSUME NEW a \in Seq(Bytes), Fields(a).ok, NEW b \in Seq(Bytes)
  PROVE  Adds(Fields(a), Fields(b), Fields(a \o b))
<1> DEFINE Right(s) == Fields(s).ok => Adds(Fields(s), Fields(b), Fields(s \o b))
           T == {n \in Nat : \A s \in Seq(Bytes) : Len(s) <= n => Right(s)}
           q == Fields(b)
<1>1. q.ok \in BOOLEAN /\ (q.ok => q.list \in Seq(FieldPart))
  BY FieldsFacts
<1> HIDE DEF q
<1>2. ASSUME NEW s \in Seq(Bytes), s # <<>> /\ Field(s).ok => Right(Field(s).rest)
      PROVE  Right(s)
  <2> SUFFICES ASSUME Fields(s).ok PROVE Adds(Fields(s), q, Fields(s \o b))
    BY DEF q
  <2>1. CASE s = <<>>
    <3>1. s \o b = b /\ s \in Seq(Bytes)
      BY <2>1
    <3>2. Fields(s) = [ok |-> TRUE, list |-> <<>>]
      BY <2>1, FieldsUnfold
    <3> DEFINE p == Fields(s)
    <3> HIDE DEF p
    <3>3. Len(p.list) = 0 /\ (q.ok => Len(q.list) \in Nat)
      BY <1>1, <3>2 DEF p
    <3>4. Adds(p, q, q)
      <4>1. \A i \in 1..0 : FALSE
        OBVIOUS
      <4>2. q.ok => Len(q.list) = 0 + Len(q.list) /\ \A i \in 1..Len(q.list) : 0 + i = i
        BY <3>3
      <4> QED BY <3>3, <4>1, <4>2 DEF Adds
    <3> QED BY <3>1, <3>4 DEF p, q
  <2>2. CASE s # <<>>
    <3> DEFINE part == Field(s)
               rest == part.rest
               p == Fields(rest)
               d == s \o b
               more == Field(d)
               r == Fields(rest \o b)
    <3>1. Fields(s) = IF part.ok THEN Join(part, p) ELSE Refused
      BY <2>2, FieldsUnfold
    <3>2. part.ok /\ p.ok /\ Fields(s) = Join(part, p)
      <4> HIDE DEF part, p
      <4> QED BY <3>1 DEF Join, Refused
    <3>3. part \in FieldPart /\ rest \in Seq(Bytes)
      BY <2>2, <3>2, FieldFacts DEF FieldPart
    <3>4. more = [ok |-> TRUE, tag |-> part.tag, value |-> part.value, rest |-> rest \o b]
      <4> HIDE DEF rest, part, more
      <4> QED BY <2>2, <3>2, FieldLocal DEF rest, part, more
    <3>5. d \in Seq(Bytes) /\ d # <<>>
      BY <2>2
    <3> HIDE DEF part, d
    <3>6. more.ok /\ more.tag = part.tag /\ more.value = part.value /\ more.rest = rest \o b
      <4> DEFINE u == rest \o b
      <4> HIDE DEF more, u
      <4>1. more = [ok |-> TRUE, tag |-> part.tag, value |-> part.value, rest |-> u]
        BY <3>4 DEF u
      <4>2. more.ok /\ more.tag = part.tag /\ more.value = part.value /\ more.rest = u
        BY <4>1
      <4> QED BY <4>2 DEF u
    <3>7. more \in FieldPart
      BY <3>5, <3>6, FieldFacts
    <3>8. Fields(d) = Join(more, r)
      <4> HIDE DEF rest
      <4>1. Fields(d) = IF more.ok THEN Join(more, Fields(more.rest)) ELSE Refused
        BY <3>5, FieldsUnfold
      <4> HIDE DEF more
      <4> QED BY <3>6, <4>1
    <3>9. Adds(p, q, r)
      <4> HIDE DEF Right
      <4>1. Right(rest)
        BY <1>2, <2>2, <3>2 DEF part
      <4> QED BY <3>2, <4>1 DEF Right, q
    <3> HIDE DEF more, rest
    <3>10. p.list \in Seq(FieldPart)
      BY <3>2, <3>3, FieldsFacts
    <3>11. rest \o b \in Seq(Bytes)
      BY <3>3
    <3>12. r.ok \in BOOLEAN /\ (r.ok => r.list \in Seq(FieldPart))
      BY <3>11, FieldsFacts
    <3> HIDE DEF p, r
    <3>13. Adds(Join(part, p), q, Join(more, r))
      BY <1>1, <3>2, <3>3, <3>6, <3>7, <3>9, <3>10, <3>12, OneField
    <3> QED BY <3>2, <3>8, <3>13 DEF d
  <2> QED BY <2>1, <2>2
<1>3. 0 \in T
  <2> SUFFICES ASSUME NEW s \in Seq(Bytes), Len(s) <= 0 PROVE Right(s)
    OBVIOUS
  <2>1. s = <<>>
    OBVIOUS
  <2> HIDE DEF Right
  <2> QED BY <1>2, <2>1
<1>4. ASSUME NEW n \in T PROVE n + 1 \in T
  <2> SUFFICES ASSUME NEW s \in Seq(Bytes), Len(s) <= n + 1, s # <<>>, Field(s).ok PROVE Right(Field(s).rest)
    <3> HIDE DEF Right
    <3> QED BY <1>2
  <2> DEFINE rest == Field(s).rest
  <2>1. rest \in Seq(Bytes) /\ Len(rest) \in 0..(Len(s) - 1)
    BY FieldFacts DEF FieldPart, Leaves
  <2> HIDE DEF rest, Right
  <2>2. Len(rest) <= n
    BY <2>1
  <2> QED BY <2>1, <2>2 DEF rest
<1>5. T = Nat
  <2> HIDE DEF T
  <2>1. T \subseteq Nat BY DEF T
  <2> QED BY <1>3, <1>4, <2>1, NatSetInduction
<1> HIDE DEF Right
<1>6. Len(a) \in Nat
  OBVIOUS
<1>7. Right(a)
  BY <1>5, <1>6
<1> QED BY <1>7 DEF Right

(* A field that was written comes before the fields after it. *)
LEMMA FirstField ==
  ASSUME NEW field \in Bytes, field % 4 = 2, NEW x \in Seq(Bytes), Len(x) < Limit, NEW b \in Seq(Bytes)
  PROVE  /\ Fields(Delimited(field, x) \o b) =
              Join([ok |-> TRUE, tag |-> field, value |-> x, rest |-> b], Fields(b))
         /\ Fields(Delimited(field, x)) =
              [ok |-> TRUE, list |-> <<[ok |-> TRUE, tag |-> field, value |-> x, rest |-> <<>>]>>]
<1> DEFINE h == Delimited(field, x)
           none == [ok |-> TRUE, list |-> <<>>]
<1>1. h \in Seq(Bytes) /\ <<>> \in Seq(Bytes)
  BY DelimitedType
<1>2. ASSUME NEW s \in Seq(Bytes)
      PROVE  Fields(h \o s) = Join([ok |-> TRUE, tag |-> field, value |-> x, rest |-> s], Fields(s))
  <2> DEFINE d == h \o s
             part == [ok |-> TRUE, tag |-> field, value |-> x, rest |-> s]
  <2>1. Field(d) = part
    BY ReadField
  <2>2. d # <<>> /\ d \in Seq(Bytes)
    BY ReadDelimited
  <2>3. part.ok /\ part.rest = s
    OBVIOUS
  <2> HIDE DEF d, part
  <2>4. Fields(d) = IF Field(d).ok THEN Join(Field(d), Fields(Field(d).rest)) ELSE Refused
    BY <2>2, FieldsUnfold
  <2> QED BY <2>1, <2>3, <2>4 DEF d, part
<1>3. Fields(h \o b) = Join([ok |-> TRUE, tag |-> field, value |-> x, rest |-> b], Fields(b))
  BY <1>2
<1>4. Fields(<<>>) = none
  BY <1>1, FieldsUnfold
<1>5. h \o <<>> = h
  <2> HIDE DEF h
  <2> QED BY <1>1, ConcatFacts
<1> DEFINE last == [ok |-> TRUE, tag |-> field, value |-> x, rest |-> <<>>]
<1>6. Fields(h) = Join(last, none)
  <2>1. Fields(h \o <<>>) = Join(last, Fields(<<>>))
    BY <1>1, <1>2
  <2> HIDE DEF h, last, none
  <2> QED BY <1>4, <1>5, <2>1
<1> HIDE DEF last
<1>7. Join(last, none) = [ok |-> TRUE, list |-> <<last>>]
  <2>1. <<last>> \o <<>> = <<last>>
    <3>1. <<last>> \in Seq({last}) /\ <<>> \in Seq({last})
      OBVIOUS
    <3> QED BY <3>1, ConcatFacts
  <2> QED BY <2>1 DEF Join
<1> HIDE DEF h
<1> QED BY <1>3, <1>6, <1>7 DEF h, last

Listed(fields, cidrs) ==
  /\ fields.ok /\ Len(fields.list) = Len(cidrs)
  /\ \A i \in 1..Len(cidrs) : fields.list[i].tag = CIDRField /\ fields.list[i].value = Known(cidrs[i])

(* A prefix is no longer than all of them. *)
LEMMA RangeLengths ==
  ASSUME NEW cidrs \in Seq(CIDRs), NEW i \in DOMAIN cidrs
  PROVE  Len(Known(cidrs[i])) \in Nat /\ Len(Known(cidrs[i])) <= Len(Ranges(cidrs))
<1> DEFINE T == {s \in Seq(CIDRs) : \A j \in DOMAIN s : Len(Known(s[j])) <= Len(Ranges(s))}
<1>1. <<>> \in T
  OBVIOUS
<1>2. ASSUME NEW s \in T \cap Seq(CIDRs), NEW c \in CIDRs PROVE Append(s, c) \in T
  <2> DEFINE a == Append(s, c)
             r == Ranges(s)
             k == Known(c)
             e == EncodeCIDR(c)
  <2>1. /\ a \in Seq(CIDRs) /\ DOMAIN a = DOMAIN s \cup {Len(s) + 1} /\ a[Len(s) + 1] = c /\ Len(s) \in Nat
        /\ (\A j \in 1..Len(s) : a[j] = s[j]) /\ DOMAIN s = 1..Len(s)
    BY AppendFacts
  <2>2. r \in Seq(Bytes) /\ Ranges(a) = r \o e
    BY RangesFacts
  <2>3. k \in Seq(Bytes) /\ e = Delimited(CIDRField, k) /\ e \in Seq(Bytes)
    BY RangeType
  <2> HIDE DEF r, k, e
  <2>4. Len(Ranges(a)) = Len(r) + Len(e) /\ Len(r) \in Nat /\ Len(e) \in Nat
    <3>1. Len(r \o e) = Len(r) + Len(e) /\ Len(r) \in Nat /\ Len(e) \in Nat
      BY <2>2, <2>3
    <3> QED BY <2>2, <3>1
  <2>5. Len(k) <= Len(e) /\ Len(k) \in Nat
    <3> DEFINE v == Varint(Len(k))
               h == <<CIDRField>> \o v
    <3>1. Len(k) \in Nat /\ CIDRField \in Bytes
      BY <2>3 DEF CIDRField, Bytes
    <3>2. v \in Seq(Bytes)
      BY <3>1, WrittenNumber
    <3> HIDE DEF v
    <3>3. h \in Seq(Bytes) /\ Len(h) \in Nat
      BY <3>1, <3>2
    <3>4. e = h \o k
      BY <2>3 DEF Delimited, v
    <3> HIDE DEF h
    <3>5. Len(e) = Len(h) + Len(k)
      BY <2>3, <3>3, <3>4
    <3> QED BY <3>1, <3>3, <3>5
  <2>6. ASSUME NEW j \in DOMAIN a PROVE Len(Known(a[j])) <= Len(Ranges(a))
    <3> DEFINE x == Known(a[j])
    <3>1. CASE j = Len(s) + 1
      <4>1. Len(x) = Len(k)
        BY <2>1, <3>1 DEF k
      <4> HIDE DEF x
      <4>2. Len(x) <= Len(Ranges(a))
        BY <2>4, <2>5, <4>1
      <4> QED BY <4>2 DEF x
    <3>2. CASE j \in DOMAIN s
      <4>1. x = Known(s[j]) /\ Len(Known(s[j])) <= Len(r) /\ s[j] \in CIDRs
        BY <2>1, <3>2 DEF r
      <4>2. x \in Seq(Bytes)
        BY <4>1, RangeType
      <4> HIDE DEF x
      <4>3. Len(x) \in Nat /\ Len(x) <= Len(r)
        BY <4>1, <4>2
      <4>4. Len(x) <= Len(Ranges(a))
        BY <2>4, <4>3
      <4> QED BY <4>4 DEF x
    <3> QED BY <2>1, <3>1, <3>2
  <2> QED BY <2>1, <2>6
<1> HIDE DEF T
<1>3. Seq(CIDRs) \subseteq T
  BY <1>1, <1>2, SeqSetInduction
<1>4. cidrs[i] \in CIDRs
  OBVIOUS
<1>5. Known(cidrs[i]) \in Seq(Bytes)
  BY <1>4, RangeType
<1>6. Len(Known(cidrs[i])) \in Nat
  BY <1>5
<1> QED BY <1>3, <1>6 DEF T

(* The prefixes of an entry are read one after the other. *)
LEMMA RangesFields ==
  ASSUME NEW cidrs \in Seq(CIDRs), \A i \in DOMAIN cidrs : Len(Known(cidrs[i])) < Limit
  PROVE  Listed(Fields(Ranges(cidrs)), cidrs)
<1> DEFINE Small(s) == \A i \in DOMAIN s : Len(Known(s[i])) < Limit
           T == {s \in Seq(CIDRs) : Small(s) => Listed(Fields(Ranges(s)), s)}
<1>1. <<>> \in T
  <2>1. <<>> \in Seq(Bytes) /\ <<>> \in Seq(CIDRs)
    OBVIOUS
  <2>2. Fields(Ranges(<<>>)) = [ok |-> TRUE, list |-> <<>>]
    BY <2>1, FieldsUnfold, RangesFacts
  <2>3. Listed([ok |-> TRUE, list |-> <<>>], <<>>)
    BY DEF Listed
  <2> QED BY <2>1, <2>2, <2>3
<1>2. ASSUME NEW s \in T \cap Seq(CIDRs), NEW c \in CIDRs PROVE Append(s, c) \in T
  <2> DEFINE a == Append(s, c)
             r == Ranges(s)
             k == Known(c)
             e == EncodeCIDR(c)
             p == Fields(r)
             n == Len(s)
  <2>1. /\ a \in Seq(CIDRs) /\ DOMAIN a = DOMAIN s \cup {n + 1} /\ a[n + 1] = c /\ n \in Nat
        /\ (\A j \in 1..n : a[j] = s[j]) /\ DOMAIN s = 1..n /\ Len(a) = n + 1
    BY AppendFacts
  <2>2. r \in Seq(Bytes) /\ Ranges(a) = r \o e
    BY RangesFacts
  <2>3. k \in Seq(Bytes) /\ e = Delimited(CIDRField, k) /\ e \in Seq(Bytes)
    BY RangeType
  <2> SUFFICES ASSUME Small(a) PROVE Listed(Fields(Ranges(a)), a)
    BY <2>1
  <2>4. Len(k) < Limit
    BY <2>1
  <2>5. Small(s)
    BY <2>1
  <2>6. Listed(p, s)
    BY <2>5
  <2> HIDE DEF r, k, e, a, n
  <2>7. CIDRField \in Bytes /\ CIDRField % 4 = 2
    BY DEF CIDRField, Bytes
  <2> DEFINE part == [ok |-> TRUE, tag |-> CIDRField, value |-> k, rest |-> <<>>]
             q == Fields(e)
             f == Fields(r \o e)
  <2>8. q = [ok |-> TRUE, list |-> <<part>>]
    <3>1. <<>> \in Seq(Bytes)
      OBVIOUS
    <3> QED BY <2>3, <2>4, <2>7, <3>1, FirstField
  <2>9. p.ok
    BY <2>6 DEF Listed
  <2> HIDE DEF p
  <2>10. Adds(p, q, f)
    BY <2>2, <2>3, <2>9, FieldsConcat DEF p
  <2>11. part.tag = CIDRField /\ part.value = k
    OBVIOUS
  <2> HIDE DEF part
  <2>12. q.ok /\ Len(q.list) = 1 /\ q.list[1] = part
    <3> HIDE DEF q
    <3> QED BY <2>8
  <2> HIDE DEF f, q
  <2>13. f.ok /\ Len(f.list) = n + 1
    BY <2>6, <2>10, <2>12 DEF Adds, Listed, n
  <2>14. ASSUME NEW i \in 1..(n + 1) PROVE f.list[i].tag = CIDRField /\ f.list[i].value = Known(a[i])
    <3>0. Len(p.list) = n /\ \A j \in 1..n : p.list[j].tag = CIDRField /\ p.list[j].value = Known(s[j])
      BY <2>6 DEF Listed, n
    <3>1. CASE i \in 1..n
      <4>1. f.list[i].tag = p.list[i].tag /\ f.list[i].value = p.list[i].value
        BY <2>10, <2>13, <3>0, <3>1 DEF Adds
      <4> QED BY <2>1, <3>0, <3>1, <4>1
    <3>2. CASE i = n + 1
      <4>1. \A j \in 1..1 : f.list[n + j] = q.list[j]
        BY <2>10, <2>12, <2>13, <3>0 DEF Adds
      <4>2. f.list[n + 1] = part
        BY <2>12, <4>1
      <4> QED BY <2>1, <2>11, <3>2, <4>2 DEF k
    <3> QED BY <2>1, <3>1, <3>2
  <2>15. Listed(f, a)
    BY <2>1, <2>13, <2>14 DEF Listed
  <2> QED BY <2>2, <2>15 DEF f
<1> HIDE DEF T
<1>3. Seq(CIDRs) \subseteq T
  BY <1>1, <1>2, SeqSetInduction
<1> QED BY <1>3 DEF T

-----------------------------------------------------------------------------
(* The search.                                                              *)

(* What a prefix of an entry means. *)
Prefix(c) ==
  IF Len(c.ip) \in {1, 2} /\ c.bits <= BitLen(IP(c.ip)) THEN {Masked(IP(c.ip), c.bits)} ELSE {}

AllPrefixes == {Masked(IP(c.ip), c.bits) : c \in CIDRs}

(* A field that is there once has its value. *)
LEMMA OnlyOne ==
  ASSUME NEW list, NEW tag, NEW default, NEW i \in Nat, {j \in DOMAIN list : list[j].tag = tag} = {i}
  PROVE  LastOf(list, tag, default) = list[i].value
<1>1. Max({i}) = i
  <2>1. \A x \in {i} : \A y \in {i} : x >= y
    OBVIOUS
  <2> QED BY <2>1 DEF Max
<1> QED BY <1>1 DEF LastOf

(* A field that is not there has the default. *)
LEMMA NoneOfThem ==
  ASSUME NEW list, NEW tag, NEW default, {j \in DOMAIN list : list[j].tag = tag} = {}
  PROVE  LastOf(list, tag, default) = default
BY DEF LastOf

(* The address and the bits of a prefix that was written are read back;     *)
(* zero bits are not written and are the default.                           *)
LEMMA KnownFields ==
  ASSUME NEW c \in CIDRs, Len(Known(c)) < Limit
  PROVE  /\ Fields(Known(c)).ok
         /\ LastOf(Fields(Known(c)).list, IPField, <<>>) = c.ip
         /\ LastOf(Fields(Known(c)).list, BitsField, 0) = c.bits
<1> DEFINE x == c.ip
           bits == c.bits
           tail == IF bits = 0 THEN <<>> ELSE <<BitsField>> \o Varint(bits)
           h == Delimited(IPField, x)
           first == [ok |-> TRUE, tag |-> IPField, value |-> x, rest |-> tail]
           second == [ok |-> TRUE, tag |-> BitsField, value |-> bits, rest |-> <<>>]
           fields == Fields(Known(c))
<1>1. x \in Seq(Bytes) /\ bits \in 0..(Limit - 1)
  BY DEF CIDRs
<1>2. IPField \in Bytes /\ IPField % 4 = 2 /\ BitsField \in Bytes /\ IPField # BitsField
  BY DEF IPField, BitsField, Bytes
<1>3. <<>> \in Seq(Bytes)
  OBVIOUS
<1>4. Known(c) = h \o tail
  BY DEF Known
<1> HIDE DEF x, bits
<1>5. tail \in Seq(Bytes)
  <2>1. bits # 0 => <<BitsField>> \o Varint(bits) \in Seq(Bytes)
    BY <1>1, <1>3, ReadNumberField
  <2> QED BY <1>3, <2>1
<1>6. Fields(<<>>) = [ok |-> TRUE, list |-> <<>>]
  BY <1>3, FieldsUnfold
<1>7. Fields(tail) = [ok |-> TRUE, list |-> IF bits = 0 THEN <<>> ELSE <<second>>]
  <2>1. CASE bits = 0
    BY <1>6, <2>1
  <2>2. CASE bits # 0
    <3> DEFINE d == <<BitsField>> \o Varint(bits)
    <3>1. d \in Seq(Bytes) /\ Field(d \o <<>>) = second
      BY <1>1, <1>3, ReadNumberField
    <3>2. d # <<>>
      <4> DEFINE v == Varint(bits)
      <4>1. v \in Seq(Bytes)
        <5>1. bits \in Nat
          BY <1>1 DEF Limit
        <5> QED BY <5>1, WrittenNumber
      <4> HIDE DEF v
      <4>2. <<BitsField>> \o v # <<>>
        BY <1>2, <4>1
      <4> QED BY <4>2 DEF v
    <3>3. tail = d
      BY <2>2
    <3> HIDE DEF d, tail
    <3>4. d \o <<>> = d
      BY <3>1, <1>3, ConcatFacts
    <3>5. second.ok /\ second.rest = <<>>
      OBVIOUS
    <3> HIDE DEF second
    <3>6. Fields(d) = IF Field(d).ok THEN Join(Field(d), Fields(Field(d).rest)) ELSE Refused
      BY <3>1, <3>2, FieldsUnfold
    <3>7. Fields(d) = Join(second, [ok |-> TRUE, list |-> <<>>])
      BY <1>6, <3>1, <3>4, <3>5, <3>6
    <3>8. <<second>> \o <<>> = <<second>>
      <4>1. <<second>> \in Seq({second}) /\ <<>> \in Seq({second})
        OBVIOUS
      <4> QED BY <4>1, ConcatFacts
    <3>9. Fields(d) = [ok |-> TRUE, list |-> <<second>>]
      BY <3>7, <3>8 DEF Join
    <3> QED BY <2>2, <3>3, <3>9
  <2> QED BY <2>1, <2>2
<1>8. Len(x) < Limit
  <2> DEFINE v == Varint(Len(x))
             l == Len(x)
  <2>1. l \in Nat
    BY <1>1
  <2>2. v \in Seq(Bytes)
    BY <2>1, WrittenNumber
  <2>3. h = <<IPField>> \o v \o x
    BY DEF Delimited
  <2> HIDE DEF v, tail
  <2>4. h \in Seq(Bytes) /\ Len(h) = 1 + Len(v) + Len(x) /\ Len(v) \in Nat
    <3>1. <<IPField>> \in Seq(Bytes) /\ Len(<<IPField>>) = 1
      BY <1>2
    <3> HIDE DEF h
    <3> QED BY <1>1, <2>2, <2>3, <3>1
  <2> HIDE DEF h
  <2>5. Len(Known(c)) = Len(h) + Len(tail) /\ Len(tail) \in Nat
    BY <1>4, <1>5, <2>4, ConcatFacts
  <2> HIDE DEF l
  <2>6. Len(h) = 1 + Len(v) + l
    BY <2>4 DEF l
  <2>7. l < Limit
    BY <2>1, <2>4, <2>5, <2>6 DEF Limit
  <2> QED BY <2>7 DEF l
<1>9. fields = Join(first, Fields(tail))
  <2> HIDE DEF tail
  <2>1. Fields(h \o tail) = Join(first, Fields(tail))
    BY <1>1, <1>2, <1>5, <1>8, FirstField
  <2> HIDE DEF h
  <2> QED BY <1>4, <2>1
<1> HIDE DEF tail, h, fields
<1>10. first.tag = IPField /\ first.value = x /\ second.tag = BitsField /\ second.value = bits
  OBVIOUS
<1> HIDE DEF first, second
<1>11. fields.ok /\ fields.list = <<first>> \o IF bits = 0 THEN <<>> ELSE <<second>>
  BY <1>7, <1>9 DEF Join
<1> DEFINE list == fields.list
<1>12. CASE bits = 0
  <2>1. list = <<first>> /\ DOMAIN list = {1}
    <3>1. <<first>> \o <<>> = <<first>>
      <4>1. <<first>> \in Seq({first}) /\ <<>> \in Seq({first})
        OBVIOUS
      <4> QED BY <4>1, ConcatFacts
    <3>2. list = <<first>>
      BY <1>11, <1>12, <3>1
    <3> HIDE DEF list
    <3> QED BY <3>2
  <2> HIDE DEF list
  <2>2. list[1] = first
    BY <2>1
  <2>3. {j \in DOMAIN list : list[j].tag = IPField} = {1}
    BY <1>10, <2>1, <2>2
  <2>4. {j \in DOMAIN list : list[j].tag = BitsField} = {}
    BY <1>2, <1>10, <2>1, <2>2
  <2>5. LastOf(list, IPField, <<>>) = x
    BY <1>10, <2>2, <2>3, OnlyOne
  <2>6. LastOf(list, BitsField, 0) = bits
    BY <1>12, <2>4, NoneOfThem
  <2> QED BY <1>11, <2>5, <2>6 DEF list, fields, x, bits
<1>13. CASE bits # 0
  <2>1. list = <<first, second>>
    <3>1. <<first>> \o <<second>> = <<first, second>>
      <4> DEFINE S == {first, second}
                 d == <<first>> \o <<second>>
      <4>1. <<first>> \in Seq(S) /\ <<second>> \in Seq(S)
        OBVIOUS
      <4>2. d \in Seq(S) /\ Len(d) = 2 /\ d[1] = first /\ d[2] = second
        BY <4>1
      <4>3. <<first, second>> \in Seq(S)
        OBVIOUS
      <4> DEFINE e == <<first, second>>
      <4>4. e \in Seq(S) /\ Len(e) = 2 /\ e[1] = first /\ e[2] = second
        BY <4>3
      <4> HIDE DEF d, e, S
      <4>5. d = e
        <5>1. \A i \in 1..2 : i = 1 \/ i = 2
          OBVIOUS
        <5>2. \A i \in 1..Len(e) : d[i] = e[i]
          BY <4>2, <4>4, <5>1
        <5> QED BY <4>2, <4>4, <5>2, SameSequence
      <4> QED BY <4>5 DEF d, e
    <3> QED BY <1>11, <1>13, <3>1
  <2> HIDE DEF list
  <2>2. DOMAIN list = {1, 2} /\ list[1] = first /\ list[2] = second
    BY <2>1
  <2>3. {j \in DOMAIN list : list[j].tag = IPField} = {1}
    BY <1>2, <1>10, <2>2
  <2>4. {j \in DOMAIN list : list[j].tag = BitsField} = {2}
    BY <1>2, <1>10, <2>2
  <2>5. LastOf(list, IPField, <<>>) = x
    BY <1>10, <2>2, <2>3, OnlyOne
  <2>6. LastOf(list, BitsField, 0) = bits
    BY <1>10, <2>2, <2>4, OnlyOne
  <2> QED BY <1>11, <2>5, <2>6 DEF list, fields, x, bits
<1> QED BY <1>12, <1>13

(* What several scans found, when none of them failed. *)
LEMMA AllFoundFacts ==
  ASSUME NEW S, NEW n \in Nat, NEW scans, DOMAIN scans = 1..n,
         \A i \in 1..n : scans[i].ok = TRUE /\ scans[i].found \in Seq(S)
  PROVE  /\ AllFound(scans).ok /\ AllFound(scans).found \in Seq(S)
         /\ ToSet(AllFound(scans).found) = UNION {ToSet(scans[i].found) : i \in 1..n}
<1> DEFINE L == Seq(S)
           founds == [i \in 1..n |-> scans[i].found]
<1>1. founds \in Seq(L) /\ DOMAIN founds = 1..n
  <2> HIDE DEF L
  <2>1. \A i \in 1..n : scans[i].found \in L
    BY DEF L
  <2> QED BY <2>1
<1>2. AllFound(scans) = [ok |-> TRUE, found |-> FlattenSeq(founds)]
  BY DEF AllFound
<1>3. \A i \in 1..n : founds[i] = scans[i].found
  OBVIOUS
<1>4. {ToSet(founds[i]) : i \in DOMAIN founds} = {ToSet(scans[i].found) : i \in 1..n}
  BY <1>1, <1>3
<1> HIDE DEF founds
<1> DEFINE f == FlattenSeq(founds)
<1>5. founds \in Seq(Seq(S))
  BY <1>1 DEF L
<1>6. f \in Seq(S) /\ ToSet(f) = UNION {ToSet(founds[i]) : i \in DOMAIN founds}
  BY <1>5, FlattenType, FlattenContents
<1> HIDE DEF f
<1>7. AllFound(scans).ok /\ AllFound(scans).found = f
  BY <1>2 DEF f
<1> QED BY <1>4, <1>6, <1>7

(* The search, one field, one entry at a time. *)
Held(ps) == IF ps = {} THEN <<>> ELSE <<CHOOSE p \in ps : TRUE>>

OfField(field, address) ==
  IF field.tag = CIDRField
  THEN IF Fields(field.value).ok
       THEN [ok |-> TRUE, found |-> Held({p \in CIDR(Fields(field.value).list) : Holds(p, address)})]
       ELSE Refused
  ELSE Nothing

Good(scan, ps) == scan.ok = TRUE /\ scan.found \in Seq(AllPrefixes) /\ ToSet(scan.found) = ps

Holding(ps, address) == {p \in ps : Holds(p, address)}

(* A scan that looks at nothing finds nothing. *)
LEMMA NothingIsGood ==
  Good(Nothing, {})
<1>1. <<>> \in Seq(AllPrefixes) /\ ToSet(<<>>) = {}
  BY DEF ToSet
<1> QED BY <1>1 DEF Good, Nothing

(* In the field of a prefix the search finds it if it holds the address. *)
LEMMA RangeFound ==
  ASSUME NEW c \in CIDRs, Len(Known(c)) < Limit, NEW field, field.tag = CIDRField, field.value = Known(c), NEW address
  PROVE  Good(OfField(field, address), Holding(Prefix(c), address))
<1> DEFINE fields == Fields(Known(c))
           held == Holding(Prefix(c), address)
           m == Masked(IP(c.ip), c.bits)
<1>1. fields.ok /\ LastOf(fields.list, IPField, <<>>) = c.ip /\ LastOf(fields.list, BitsField, 0) = c.bits
  BY KnownFields
<1> HIDE DEF fields
<1>2. CIDR(fields.list) = Prefix(c)
  BY <1>1 DEF CIDR, Prefix
<1>3. OfField(field, address) = [ok |-> TRUE, found |-> Held(held)]
  BY <1>1, <1>2 DEF OfField, fields, Holding
<1>4. held = {} \/ held = {m}
  <2>1. Prefix(c) = {} \/ Prefix(c) = {m}
    BY DEF Prefix
  <2> HIDE DEF m
  <2> QED BY <2>1 DEF Holding
<1>5. m \in AllPrefixes
  BY DEF AllPrefixes
<1> HIDE DEF held, m
<1>6. Held(held) \in Seq(AllPrefixes) /\ ToSet(Held(held)) = held
  <2>1. CASE held = {}
    <3>1. <<>> \in Seq(AllPrefixes) /\ ToSet(<<>>) = {}
      BY DEF ToSet
    <3> QED BY <2>1, <3>1 DEF Held
  <2>2. CASE held = {m}
    <3>1. (CHOOSE p \in {m} : TRUE) = m
      OBVIOUS
    <3>2. <<m>> \in Seq(AllPrefixes) /\ ToSet(<<m>>) = {m}
      BY <1>5 DEF ToSet
    <3> QED BY <2>2, <3>1, <3>2 DEF Held
  <2> QED BY <1>4, <2>1, <2>2
<1> DEFINE h == Held(held)
<1> HIDE DEF h
<1>7. OfField(field, address) = [ok |-> TRUE, found |-> h]
  BY <1>3 DEF h
<1>8. OfField(field, address).ok = TRUE /\ OfField(field, address).found = h
  BY <1>7
<1> QED BY <1>6, <1>8 DEF Good, h, held

(* In the body of an entry the search finds the prefixes that hold the      *)
(* address.                                                                 *)
LEMMA EntryFound ==
  ASSUME NEW e \in Entries, NEW address
  PROVE  Good(PrefixesOf(e.extra \o Ranges(e.cidrs), address),
              Holding(UNION {Prefix(e.cidrs[i]) : i \in DOMAIN e.cidrs}, address))
<1> DEFINE a == e.extra
           cidrs == e.cidrs
           r == Ranges(cidrs)
           d == a \o r
           p == Fields(a)
           q == Fields(r)
           fields == Fields(d)
           n == Len(p.list)
           m == Len(cidrs)
<1>1. a \in Seq(Bytes) /\ cidrs \in Seq(CIDRs) /\ d \in Seq(Bytes)
  BY BodyType
<1>2. p.ok /\ \A i \in DOMAIN p.list : p.list[i].tag # CIDRField
  BY EntriesAssumption
<1>3. r \in Seq(Bytes)
  BY <1>1, RangesFacts
<1>4. Len(r) < Limit
  <2>1. Body(e) = Delimited(CodeField, e.code) \o (a \o r) /\ Len(Body(e)) < Limit /\ e.code \in Seq(Bytes)
    BY BodyType
  <2> DEFINE h == Delimited(CodeField, e.code)
  <2>2. h \in Seq(Bytes)
    <3>1. CodeField \in Bytes
      BY DEF CodeField, Bytes
    <3> QED BY <2>1, <3>1, DelimitedType
  <2>3. Body(e) = h \o (a \o r)
    BY <2>1
  <2> HIDE DEF h, a, r
  <2>4. Len(a \o r) = Len(a) + Len(r) /\ Len(a) \in Nat /\ Len(r) \in Nat
    BY <1>1, <1>3, ConcatFacts
  <2>5. Len(Body(e)) = Len(h) + Len(a \o r) /\ Len(h) \in Nat
    <3> HIDE DEF d
    <3>1. d = a \o r
      BY DEF d
    <3>2. Len(h \o d) = Len(h) + Len(d) /\ Len(h) \in Nat
      BY <1>1, <2>2, ConcatFacts
    <3> QED BY <2>3, <3>1, <3>2
  <2> QED BY <2>1, <2>4, <2>5 DEF Limit
<1> HIDE DEF a, cidrs
<1>5. \A i \in DOMAIN cidrs : Len(Known(cidrs[i])) < Limit
  <2> SUFFICES ASSUME NEW i \in DOMAIN cidrs PROVE Len(Known(cidrs[i])) < Limit
    OBVIOUS
  <2> DEFINE l == Len(Known(cidrs[i]))
             s == Len(r)
  <2>1. l \in Nat /\ l <= s
    BY <1>1, RangeLengths
  <2>2. s \in Nat /\ s < Limit
    BY <1>3, <1>4
  <2> HIDE DEF l, s
  <2>3. l < Limit
    BY <2>1, <2>2 DEF Limit
  <2> QED BY <2>3 DEF l
<1>6. Listed(q, cidrs)
  BY <1>1, <1>5, RangesFields
<1> HIDE DEF r
<1>7. Adds(p, q, fields)
  BY <1>1, <1>2, <1>3, FieldsConcat
<1>8. p.list \in Seq(FieldPart) /\ fields.ok \in BOOLEAN /\ (fields.ok => fields.list \in Seq(FieldPart))
  BY <1>1, <1>2, FieldsFacts
<1> HIDE DEF p, q, fields, d
<1>9. n \in Nat /\ m \in Nat /\ DOMAIN p.list = 1..n /\ DOMAIN cidrs = 1..m
  BY <1>1, <1>8
<1> DEFINE list == fields.list
<1>10. /\ fields.ok /\ Len(list) = n + m
       /\ \A i \in 1..n : list[i].tag = p.list[i].tag
       /\ \A i \in 1..m : list[n + i].tag = CIDRField /\ list[n + i].value = Known(cidrs[i])
  <2>1. q.ok /\ Len(q.list) = m /\ \A i \in 1..m : q.list[i].tag = CIDRField /\ q.list[i].value = Known(cidrs[i])
    BY <1>6 DEF Listed
  <2>2. fields.ok
    BY <1>7, <2>1 DEF Adds
  <2>3. /\ Len(list) = n + Len(q.list)
        /\ \A i \in 1..n : list[i].tag = p.list[i].tag
        /\ \A i \in 1..Len(q.list) : list[n + i] = q.list[i]
    BY <1>7, <2>2 DEF Adds
  <2> HIDE DEF list, n, m
  <2> QED BY <2>1, <2>2, <2>3
<1>11. DOMAIN list = 1..(n + m)
  BY <1>8, <1>10
<1> HIDE DEF list, n, m
<1> DEFINE scans == [i \in 1..(n + m) |-> OfField(list[i], address)]
           Of(i) == IF i \in 1..n THEN {} ELSE Holding(Prefix(cidrs[i - n]), address)
<1>12. \A i \in 1..(n + m) : i \in 1..n \/ (i \notin 1..n /\ i - n \in 1..m /\ i = n + (i - n))
  BY <1>9
<1>13. ASSUME NEW i \in 1..(n + m) PROVE Good(scans[i], Of(i))
  <2>1. CASE i \in 1..n
    <3>1. list[i].tag # CIDRField
      BY <1>2, <1>9, <1>10, <2>1
    <3>2. OfField(list[i], address) = Nothing
      BY <3>1 DEF OfField
    <3>3. scans[i] = Nothing /\ Of(i) = {}
      BY <2>1, <3>2
    <3> HIDE DEF scans, Of
    <3> QED BY <3>3, NothingIsGood
  <2>2. CASE i \notin 1..n
    <3> DEFINE j == i - n
    <3>1. j \in 1..m /\ i = n + j
      BY <1>12, <2>2
    <3>2. scans[i] = OfField(list[i], address) /\ Of(i) = Holding(Prefix(cidrs[j]), address)
      BY <2>2
    <3> HIDE DEF j, scans, Of
    <3>3. list[i].tag = CIDRField /\ list[i].value = Known(cidrs[j])
      BY <1>10, <3>1
    <3>4. cidrs[j] \in CIDRs /\ Len(Known(cidrs[j])) < Limit
      BY <1>1, <1>5, <1>9, <3>1
    <3> QED BY <3>2, <3>3, <3>4, RangeFound
  <2> QED BY <2>1, <2>2
<1>14. PrefixesOf(d, address) = AllFound(scans)
  <2>1. PrefixesOf(d, address) =
          IF fields.ok THEN AllFound([i \in DOMAIN fields.list |-> OfField(fields.list[i], address)]) ELSE Refused
    BY DEF PrefixesOf, OfField, Held, fields
  <2> QED BY <1>10, <1>11, <2>1 DEF list
<1>15. DOMAIN scans = 1..(n + m) /\ n + m \in Nat
  BY <1>9
<1> HIDE DEF scans
<1>16. /\ AllFound(scans).ok /\ AllFound(scans).found \in Seq(AllPrefixes)
       /\ ToSet(AllFound(scans).found) = UNION {ToSet(scans[i].found) : i \in 1..(n + m)}
  <2>1. \A i \in 1..(n + m) : scans[i].ok = TRUE /\ scans[i].found \in Seq(AllPrefixes)
    BY <1>13 DEF Good
  <2> QED BY <1>15, <2>1, AllFoundFacts
<1>17. {ToSet(scans[i].found) : i \in 1..(n + m)} = {Of(i) : i \in 1..(n + m)}
  BY <1>13 DEF Good
<1>18. UNION {Of(i) : i \in 1..(n + m)} = Holding(UNION {Prefix(cidrs[i]) : i \in DOMAIN cidrs}, address)
  <2> DEFINE A == UNION {Of(i) : i \in 1..(n + m)}
             B == Holding(UNION {Prefix(cidrs[i]) : i \in DOMAIN cidrs}, address)
  <2>1. ASSUME NEW x \in A PROVE x \in B
    <3>1. PICK i \in 1..(n + m) : x \in Of(i)
      OBVIOUS
    <3>2. i - n \in 1..m /\ x \in Holding(Prefix(cidrs[i - n]), address)
      BY <1>12, <3>1
    <3> QED BY <1>9, <3>2 DEF Holding
  <2>2. ASSUME NEW x \in B PROVE x \in A
    <3>1. PICK j \in 1..m : x \in Prefix(cidrs[j]) /\ Holds(x, address)
      BY <1>9 DEF Holding
    <3>2. n + j \in 1..(n + m) /\ n + j \notin 1..n /\ (n + j) - n = j
      BY <1>9
    <3>3. x \in Of(n + j)
      BY <3>1, <3>2 DEF Holding
    <3> QED BY <3>2, <3>3
  <2> QED BY <2>1, <2>2
<1> HIDE DEF Of
<1>19. Good(PrefixesOf(d, address), Holding(UNION {Prefix(cidrs[i]) : i \in DOMAIN cidrs}, address))
  BY <1>14, <1>16, <1>17, <1>18 DEF Good
<1> QED BY <1>19 DEF d, r, a, cidrs

(* The search reads the code of an entry and what comes after it. *)
LEMMA CodeOfBody ==
  ASSUME NEW e \in Entries
  PROVE  EntryCode(Body(e)) = [ok |-> TRUE, tag |-> Upper(e.code), rest |-> e.extra \o Ranges(e.cidrs)]
<1> DEFINE x == e.code
           r == e.extra \o Ranges(e.cidrs)
           b == Body(e)
<1>1. x \in Seq(Bytes) /\ Len(x) < Limit /\ r \in Seq(Bytes) /\ b = Delimited(CodeField, x) \o r
  BY BodyType
<1>2. CodeField \in Bytes /\ CodeField % 4 = 2
  BY DEF CodeField, Bytes
<1> HIDE DEF x, r, b
<1>3. Field(Delimited(CodeField, x) \o r) = [ok |-> TRUE, tag |-> CodeField, value |-> x, rest |-> r]
  BY <1>1, <1>2, ReadField
<1>4. Delimited(CodeField, x) \o r # <<>> /\ (Delimited(CodeField, x) \o r)[1] = CodeField
  BY <1>1, <1>2, ReadDelimited
<1> DEFINE field == Field(b)
<1>5. field = [ok |-> TRUE, tag |-> CodeField, value |-> x, rest |-> r]
  BY <1>1, <1>3
<1> HIDE DEF field
<1>6. field.ok /\ field.value = x /\ field.rest = r
  BY <1>5
<1>7. EntryCode(b) = IF field.ok THEN [ok |-> TRUE, tag |-> Upper(field.value), rest |-> field.rest] ELSE Refused
  BY <1>1, <1>4 DEF EntryCode, field
<1> QED BY <1>6, <1>7 DEF b, x, r

(* What the entries of a tag say, entry by entry. *)
MeantBy(e, tag, address) ==
  IF Upper(e.code) = Upper(tag)
  THEN Holding(UNION {Prefix(e.cidrs[k]) : k \in DOMAIN e.cidrs}, address) ELSE {}

(* What a catalog means is what its entries mean. *)
LEMMA MeantEach ==
  ASSUME NEW es \in Seq(Entries), NEW tag, NEW address
  PROVE  UNION {MeantBy(es[i], tag, address) : i \in DOMAIN es} = Meant(es, tag, address)
<1> DEFINE A == UNION {MeantBy(es[i], tag, address) : i \in DOMAIN es}
           named == {i \in DOMAIN es : Upper(es[i].code) = Upper(tag)}
           cidrs == {c \in UNION {ToSet(es[i].cidrs) : i \in named} :
                       Len(c.ip) \in {1, 2} /\ c.bits <= BitLen(IP(c.ip))}
           B == {p \in {Masked(IP(c.ip), c.bits) : c \in cidrs} : Holds(p, address)}
<1>1. ASSUME NEW p \in A PROVE p \in B
  <2>1. PICK i \in DOMAIN es : p \in MeantBy(es[i], tag, address)
    OBVIOUS
  <2>2. i \in named /\ p \in Holding(UNION {Prefix(es[i].cidrs[k]) : k \in DOMAIN es[i].cidrs}, address)
    BY <2>1 DEF MeantBy
  <2>3. PICK k \in DOMAIN es[i].cidrs : p \in Prefix(es[i].cidrs[k]) /\ Holds(p, address)
    BY <2>2 DEF Holding
  <2> DEFINE c == es[i].cidrs[k]
  <2>4. Len(c.ip) \in {1, 2} /\ c.bits <= BitLen(IP(c.ip)) /\ p = Masked(IP(c.ip), c.bits)
    BY <2>3 DEF Prefix
  <2>5. c \in ToSet(es[i].cidrs)
    BY DEF ToSet
  <2>6. c \in cidrs
    BY <2>2, <2>4, <2>5
  <2> QED BY <2>3, <2>4, <2>6
<1>2. ASSUME NEW p \in B PROVE p \in A
  <2>1. PICK c \in cidrs : p = Masked(IP(c.ip), c.bits) /\ Holds(p, address)
    OBVIOUS
  <2>2. PICK i \in named : c \in ToSet(es[i].cidrs)
    BY <2>1
  <2>3. PICK k \in DOMAIN es[i].cidrs : c = es[i].cidrs[k]
    BY <2>2 DEF ToSet
  <2>4. p \in Prefix(es[i].cidrs[k])
    BY <2>1, <2>3 DEF Prefix
  <2>5. p \in Holding(UNION {Prefix(es[i].cidrs[j]) : j \in DOMAIN es[i].cidrs}, address)
    BY <2>1, <2>4 DEF Holding
  <2>6. p \in MeantBy(es[i], tag, address) /\ i \in DOMAIN es
    BY <2>2, <2>5 DEF MeantBy
  <2> QED BY <2>6
<1>3. A = B
  BY <1>1, <1>2
<1> QED BY <1>3 DEF Meant

(* The search of a whole file. *)
LEMMA SearchIsExact ==
  ASSUME NEW es \in Seq(Entries), NEW tag, NEW address
  PROVE  LET scan == PrefixesContaining(File(es), tag, address)
         IN  /\ scan.ok <=> AllFit(es)
             /\ scan.ok => /\ ToSet(scan.found) = Meant(es, tag, address)
                           /\ Len(scan.found) = Cardinality(ToSet(scan.found))
<1> DEFINE frames == Frames(File(es))
           list == frames.list
           here(entry) ==
             IF ~entry.ok THEN Refused
             ELSE IF entry.tag = Upper(tag) THEN PrefixesOf(entry.rest, address)
             ELSE Nothing
           scans == [i \in DOMAIN list |-> here(EntryCode(list[i].body))]
           scan == ScanPrefixes(File(es), tag, address)
           once == PrefixesContaining(File(es), tag, address)
<1>1. /\ frames.ok <=> AllFit(es)
      /\ frames.ok => DOMAIN list = DOMAIN es /\ \A i \in DOMAIN es : list[i].whole /\ list[i].body = Body(es[i])
  BY FileFrames
<1>2. scan = IF frames.ok /\ \A i \in DOMAIN list : list[i].whole THEN AllFound(scans) ELSE Refused
  BY DEF ScanPrefixes
<1>3. once = IF scan.ok THEN [ok |-> TRUE, found |-> FirstOnes(scan.found, ToSet(scan.found))] ELSE Refused
  BY DEF PrefixesContaining
<1>4. \A i \in DOMAIN es : es[i] \in Entries
  OBVIOUS
<1>5. DOMAIN es = 1..Len(es) /\ Len(es) \in Nat
  OBVIOUS
<1> HIDE DEF frames, scan, once
<1>6. CASE ~frames.ok
  <2>1. scan = Refused
    BY <1>2, <1>6
  <2>2. once = Refused
    BY <1>3, <2>1 DEF Refused
  <2> QED BY <1>1, <1>6, <2>2 DEF Refused, once
<1>7. CASE frames.ok
  <2>1. scan = AllFound(scans) /\ DOMAIN list = DOMAIN es
    BY <1>1, <1>2, <1>7
  <2>2. ASSUME NEW i \in DOMAIN es PROVE Good(scans[i], MeantBy(es[i], tag, address))
    <3> DEFINE e == es[i]
               entry == EntryCode(Body(e))
               rest == e.extra \o Ranges(e.cidrs)
    <3>1. scans[i] = here(entry)
      BY <1>1, <1>7, <2>1
    <3>2. e \in Entries
      BY <1>4
    <3>3. entry = [ok |-> TRUE, tag |-> Upper(e.code), rest |-> rest]
      BY <3>2, CodeOfBody
    <3>4. Good(PrefixesOf(rest, address), Holding(UNION {Prefix(e.cidrs[k]) : k \in DOMAIN e.cidrs}, address))
      BY <3>2, EntryFound
    <3> HIDE DEF entry, e, rest
    <3>5. entry.ok /\ entry.tag = Upper(e.code) /\ entry.rest = rest
      BY <3>3
    <3>6. scans[i] = IF Upper(e.code) = Upper(tag) THEN PrefixesOf(rest, address) ELSE Nothing
      BY <3>1, <3>5
    <3> HIDE DEF scans
    <3>7. CASE Upper(e.code) = Upper(tag)
      BY <3>4, <3>6, <3>7 DEF MeantBy, e
    <3>8. CASE Upper(e.code) # Upper(tag)
      BY <3>6, <3>8, NothingIsGood DEF MeantBy, e
    <3> QED BY <3>7, <3>8
  <2>3. DOMAIN scans = 1..Len(es)
    BY <1>5, <2>1
  <2> HIDE DEF scans
  <2> DEFINE n == Len(es)
             s == AllFound(scans).found
  <2>4. AllFound(scans).ok /\ s \in Seq(AllPrefixes) /\ ToSet(s) = UNION {ToSet(scans[i].found) : i \in 1..n}
    <3>1. \A i \in 1..n : scans[i].ok = TRUE /\ scans[i].found \in Seq(AllPrefixes)
      BY <1>5, <2>2 DEF Good
    <3> QED BY <1>5, <2>3, <3>1, AllFoundFacts
  <2>5. ToSet(s) = Meant(es, tag, address)
    <3>1. {ToSet(scans[i].found) : i \in 1..n} = {MeantBy(es[i], tag, address) : i \in DOMAIN es}
      BY <1>5, <2>2 DEF Good
    <3> QED BY <2>4, <3>1, MeantEach
  <2> HIDE DEF s
  <2> DEFINE f == FirstOnes(s, ToSet(s))
  <2>6. f \in Seq(AllPrefixes) /\ Distinct(f) /\ ToSet(f) = ToSet(s)
    BY <2>4, OnceFacts
  <2>7. once = [ok |-> TRUE, found |-> f]
    BY <1>3, <2>1, <2>4 DEF s
  <2> HIDE DEF f
  <2>8. once.ok /\ once.found = f
    BY <2>7
  <2>9. Cardinality(ToSet(f)) = Len(f)
    BY <2>6, DistinctCardinality
  <2> QED BY <1>1, <1>7, <2>5, <2>6, <2>8, <2>9 DEF once
<1> QED BY <1>6, <1>7

-----------------------------------------------------------------------------
(* The file from step to step.                                              *)

(* The bytes of a file, as long as nothing but a cut changed them. *)
FileAsWritten ==
  /\ damage = "none" => data = File(stored)
  /\ damage = "cut" => \E m \in 0..(Len(File(stored)) - 1) : data = SubSeq(File(stored), 1, m)

(* Whatever others do, a file is as written, cut, or known to be damaged. *)
LEMMA FileStaysAsWritten ==
  ASSUME DatTypeOK, FileAsWritten, DatNext
  PROVE  FileAsWritten'
<1>1. stored \in Seq(Entries) /\ data \in Seq(Bytes)
  BY DEF DatTypeOK
<1>2. ASSUME NEW e \in Entries, AddEntry(e) PROVE FileAsWritten'
  <2>1. damage = "none" /\ damage' = "none" /\ stored' = Append(stored, e) /\ data' = data \o Encode(e)
    BY <1>2 DEF AddEntry
  <2>2. data = File(stored)
    BY <2>1 DEF FileAsWritten
  <2>3. data' = File(stored')
    BY <1>1, <2>1, <2>2, FileFacts
  <2> QED BY <2>1, <2>3 DEF FileAsWritten
<1>3. ASSUME NEW n \in 0..(Len(data) - 1), Cut(n) PROVE FileAsWritten'
  <2>1. damage = "none" /\ damage' = "cut" /\ stored' = stored /\ data' = SubSeq(data, 1, n)
    BY <1>3 DEF Cut
  <2> QED BY <2>1 DEF FileAsWritten
<1>4. ASSUME NEW i \in DOMAIN data, NEW b \in Raw, Damage(i, b) PROVE FileAsWritten'
  BY <1>4 DEF Damage, FileAsWritten
<1>5. ASSUME NEW b \in Raw, AddByte(b) PROVE FileAsWritten'
  BY <1>5 DEF AddByte, FileAsWritten
<1> QED BY <1>2, <1>3, <1>4, <1>5 DEF DatNext

(* A file that is whole holds the entries written into it one after the     *)
(* other, and one that was cut short the first bytes of them.               *)
THEOREM FilesHoldWhatWasWritten == Spec => []FileAsWritten
<1>1. Init => FileAsWritten
  BY FileFacts DEF Init, DatInit, FileAsWritten
<1>2. TypeOK /\ FileAsWritten /\ [Next]_diagVars => FileAsWritten'
  <2> SUFFICES ASSUME TypeOK, FileAsWritten, [Next]_diagVars PROVE FileAsWritten'
    OBVIOUS
  <2>1. DatTypeOK
    BY DEF TypeOK
  <2>2. CASE DatNext
    BY <2>1, <2>2, FileStaysAsWritten
  <2>3. CASE UNCHANGED datVars
    BY <2>3 DEF FileAsWritten, datVars
  <2>4. CASE UNCHANGED diagVars
    BY <2>3, <2>4 DEF diagVars
  <2> QED BY <2>2, <2>3, <2>4 DEF Next
<1> QED BY <1>1, <1>2, TypeCorrect, PTL DEF Spec

(* Of a file as it was written, the entries before its end are the only     *)
(* ones that are as long as it is, if there are any.                        *)
LEMMA WholeOrBroken ==
  ASSUME DatTypeOK, FileAsWritten, damage \in {"none", "cut"}
  PROVE  LET whole == {n \in 0..Len(stored) : Len(File(Before(stored, n))) = Len(data)}
         IN  \/ \E n \in 0..Len(stored) : whole = {n} /\ data = File(Before(stored, n))
             \/ /\ whole = {}
                /\ \E n \in 0..Len(stored), b \in Seq(Bytes) :
                     data = File(Before(stored, n)) \o b /\ Broken(Frames(b))
<1> DEFINE size(n) == Len(File(Before(stored, n)))
           whole == {n \in 0..Len(stored) : size(n) = Len(data)}
           l == Len(stored)
           f == File(stored)
<1>1. stored \in Seq(Entries) /\ l \in Nat /\ f \in Seq(Bytes) /\ data \in Seq(Bytes)
  BY FileFacts DEF DatTypeOK
<1>2. PICK m \in 0..Len(f) : data = SubSeq(f, 1, m)
  <2>1. CASE damage = "none"
    <3>1. data = f
      BY <2>1 DEF FileAsWritten
    <3> HIDE DEF f
    <3>2. Len(f) \in 0..Len(f) /\ SubSeq(f, 1, Len(f)) = f
      BY <1>1, PrefixFacts
    <3> QED BY <3>1, <3>2
  <2>2. CASE damage = "cut"
    <3>1. PICK m \in 0..(Len(f) - 1) : data = SubSeq(f, 1, m)
      BY <2>2 DEF FileAsWritten
    <3> HIDE DEF f
    <3>2. m \in 0..Len(f)
      BY <1>1
    <3> QED BY <3>1, <3>2
  <2> QED BY <2>1, <2>2
<1>3. CutAt(stored, m)
  BY <1>1, <1>2, CutPlace
<1>4. PICK n \in 0..l, b \in Seq(Bytes) :
        SubSeq(f, 1, m) = File(Before(stored, n)) \o b /\ (b = <<>> \/ PartOfNext(stored, n, b))
  BY <1>3 DEF CutAt
<1>5. /\ \A i \in 0..l : size(i) \in Nat
      /\ n < l => size(n + 1) = size(n) + Len(Encode(stored[n + 1]))
      /\ \A i, j \in 0..l : i < j => size(i) < size(j)
  BY <1>1, FilesGrow
<1> DEFINE g == File(Before(stored, n))
<1>6. g \in Seq(Bytes) /\ size(n) = Len(g)
  BY <1>1, BeforeFacts, FileFacts
<1>7. data = g \o b
  BY <1>2, <1>4
<1> HIDE DEF size, g, l
<1>8. Len(data) = Len(g) + Len(b) /\ Len(g) \in Nat /\ Len(b) \in Nat
  BY <1>6, <1>7
<1>9. \A i, j \in 0..l : i < j \/ j < i \/ i = j
  BY <1>1
<1>10. CASE b = <<>>
  <2>1. data = g
    BY <1>6, <1>7, <1>10, ConcatFacts
  <2>2. n \in whole
    BY <1>6, <2>1 DEF l
  <2>3. ASSUME NEW i \in whole PROVE i = n
    <3>1. i \in 0..l /\ size(i) = size(n)
      BY <1>6, <2>1 DEF l
    <3>2. ~(i < n) /\ ~(n < i)
      <4>1. size(i) \in Nat /\ ~(size(i) < size(n)) /\ ~(size(n) < size(i))
        BY <1>5, <3>1
      <4> QED BY <1>5, <3>1, <4>1
    <3> QED BY <1>9, <3>1, <3>2
  <2>4. whole = {n}
    BY <2>2, <2>3
  <2> QED BY <2>1, <2>4 DEF g, size, l
<1>11. CASE PartOfNext(stored, n, b)
  <2>1. n < l
    BY <1>11 DEF PartOfNext, l
  <2> DEFINE c == Encode(stored[n + 1])
  <2>2. PICK k \in 1..(Len(c) - 1) : b = SubSeq(c, 1, k)
    BY <1>11 DEF PartOfNext
  <2>3. stored[n + 1] \in Entries
    BY <1>1, <2>1, BeforeFacts DEF l
  <2>4. Broken(Frames(b))
    BY <2>2, <2>3, PartOfEntry
  <2>5. c \in Seq(Bytes)
    BY <2>3, BodyType
  <2> HIDE DEF c
  <2>6. Len(b) = k /\ Len(c) \in Nat /\ k \in 1..(Len(c) - 1)
    BY <2>2, <2>5
  <2>7. size(n) < Len(data) /\ Len(data) < size(n + 1) /\ n + 1 \in 0..l
    <3>1. size(n + 1) = Len(g) + Len(c)
      BY <1>5, <1>6, <2>1 DEF c
    <3>2. n + 1 \in 0..l
      BY <1>1, <2>1
    <3> QED BY <1>6, <1>8, <2>6, <3>1, <3>2
  <2>8. whole = {}
    <3> SUFFICES ASSUME NEW i \in whole PROVE FALSE
      OBVIOUS
    <3>1. i \in 0..l /\ size(i) = Len(data)
      BY DEF l
    <3>2. size(i) \in Nat /\ size(n) \in Nat /\ size(n + 1) \in Nat
      BY <1>5, <2>7, <3>1
    <3>3. i <= n \/ n + 1 <= i
      BY <1>1, <3>1
    <3>4. CASE i <= n
      <4>1. i < n \/ i = n
        BY <1>1, <3>1, <3>4
      <4>2. size(i) <= size(n)
        BY <1>5, <3>1, <3>2, <4>1
      <4> QED BY <2>7, <3>1, <3>2, <4>2
    <3>5. CASE n + 1 <= i
      <4>1. n + 1 < i \/ i = n + 1
        BY <1>1, <3>1, <3>5
      <4>2. size(n + 1) <= size(i)
        BY <1>5, <2>7, <3>1, <3>2, <4>1
      <4> QED BY <2>7, <3>1, <3>2, <4>2
    <3> QED BY <3>3, <3>4, <3>5
  <2> QED BY <1>7, <2>4, <2>8 DEF g, size, l
<1> QED BY <1>4, <1>10, <1>11

(* A file that is as written, or cut, is read as it was meant. *)
LEMMA DecodeIsExactAlways ==
  ASSUME DatTypeOK, FileAsWritten
  PROVE  DecodeIsExact
<1> SUFFICES ASSUME damage \in {"none", "cut"} PROVE DecodeIsExact
  BY DEF DecodeIsExact
<1> DEFINE whole == {n \in 0..Len(stored) : Len(File(SubSeq(stored, 1, n))) = Len(data)}
           before == SubSeq(stored, 1, CHOOSE n \in whole : TRUE)
           search(tag, address) == PrefixesContaining(data, tag, address)
           exact(tag, address) ==
             /\ search(tag, address).ok <=> \A i \in DOMAIN before : Fits(before[i])
             /\ search(tag, address).ok =>
                  /\ ToSet(search(tag, address).found) = Meant(before, tag, address)
                  /\ Len(search(tag, address).found) = Cardinality(ToSet(search(tag, address).found))
<1>1. stored \in Seq(Entries)
  BY DEF DatTypeOK
<1>2. \/ \E n \in 0..Len(stored) : whole = {n} /\ data = File(Before(stored, n))
      \/ /\ whole = {}
         /\ \E n \in 0..Len(stored), b \in Seq(Bytes) :
              data = File(Before(stored, n)) \o b /\ Broken(Frames(b))
  BY WholeOrBroken DEF Before
<1>3. DecodeIsExact <=>
        IF whole = {}
        THEN ~ScanTags(data).ok /\ \A tag \in Wanted, address \in Addresses : ~search(tag, address).ok
        ELSE /\ ScanTags(data).ok <=> \A i \in DOMAIN before : Fits(before[i]) /\ Short(before[i])
             /\ ScanTags(data).ok => ScanTags(data).tags = Tags(before)
             /\ \A tag \in Wanted, address \in Addresses : exact(tag, address)
  BY DEF DecodeIsExact
<1> HIDE DEF whole, search, exact
<1>4. ASSUME NEW n \in 0..Len(stored), whole = {n}, data = File(Before(stored, n)) PROVE DecodeIsExact
  <2>1. (CHOOSE k \in {n} : TRUE) = n
    OBVIOUS
  <2>2. before = Before(stored, n)
    BY <1>4, <2>1 DEF Before
  <2> HIDE DEF before
  <2>3. before \in Seq(Entries) /\ data = File(before)
    BY <1>1, <1>4, <2>2, BeforeFacts
  <2>4. /\ ScanTags(data).ok <=> \A i \in DOMAIN before : Fits(before[i]) /\ Short(before[i])
        /\ ScanTags(data).ok => ScanTags(data).tags = Tags(before)
    BY <2>3, IndexIsExact
  <2>5. ASSUME NEW tag \in Wanted, NEW address \in Addresses PROVE exact(tag, address)
    BY <2>3, SearchIsExact DEF AllFit, exact, search
  <2>6. whole # {}
    BY <1>4
  <2> QED BY <1>3, <2>4, <2>5, <2>6
<1>5. ASSUME whole = {}, NEW n \in 0..Len(stored), NEW b \in Seq(Bytes),
             data = File(Before(stored, n)) \o b, Broken(Frames(b))
      PROVE  DecodeIsExact
  <2> DEFINE es == Before(stored, n)
  <2>1. es \in Seq(Entries)
    BY <1>1, BeforeFacts
  <2> HIDE DEF es
  <2>2. ~ScanTags(File(es) \o b).ok /\ \A tag, address : ~PrefixesContaining(File(es) \o b, tag, address).ok
    BY <1>5, <2>1, BrokenIsRefused
  <2>3. data = File(es) \o b
    BY <1>5 DEF es
  <2>4. ~ScanTags(data).ok /\ \A tag, address : ~search(tag, address).ok
    BY <2>2, <2>3 DEF search
  <2> QED BY <1>3, <1>5, <2>4
<1> QED BY <1>2, <1>4, <1>5

(* A file of a catalog is read as it was meant by both readers, the index   *)
(* (scanGeoDataTags) and the search (scanGeoIPPrefixesContaining), and one  *)
(* that was cut short is either read as the entries before the cut or       *)
(* refused by both: for every catalog of entries whose length a number      *)
(* holds, every place of a cut, every tag and every address.                *)
THEOREM FilesAreReadAsMeant == Spec => []DecodeIsExact
<1>1. TypeOK /\ FileAsWritten => DecodeIsExact
  BY DecodeIsExactAlways DEF TypeOK
<1> QED BY <1>1, TypeCorrect, FilesHoldWhatWasWritten, PTL

-----------------------------------------------------------------------------
(* Where an address goes.                                                   *)

(* A number that bounds the numbers of a set has one of them that is the most. *)
LEMMA MostOf ==
  ASSUME NEW S, S # {}, S \subseteq 0..(Limit - 1)
  PROVE  \E m \in S : \A n \in S : n <= m
<1> DEFINE rest == {Limit - n : n \in S}
<1>0. \A n \in S : n \in 0..255
  BY DEF Limit
<1>1. rest \subseteq Nat /\ rest # {}
  <2>1. \A n \in S : Limit - n \in Nat
    BY <1>0 DEF Limit
  <2> QED BY <2>1
<1>2. Min(rest) \in rest /\ \A k \in rest : Min(rest) <= k
  BY <1>1, LeastOf
<1>3. PICK m \in S : Min(rest) = Limit - m
  BY <1>2
<1>4. ASSUME NEW n \in S PROVE n <= m
  <2>1. Min(rest) <= Limit - n
    BY <1>2
  <2>2. m \in 0..255 /\ n \in 0..255
    BY <1>0
  <2> HIDE DEF rest
  <2>3. Limit - m <= Limit - n
    BY <1>3, <2>1
  <2> QED BY <2>2, <2>3 DEF Limit
<1> QED BY <1>4

(* Where there is a candidate there is a winner. *)
LEMMA SomeoneWins ==
  ASSUME NEW candidates, candidates # {},
         \A c \in candidates : c.priority \in Nat /\ c.specific \in 0..(Limit - 1)
  PROVE  Winner(candidates) # None
<1> DEFINE priorities == {c.priority : c \in candidates}
           best == {c \in candidates : c.priority = Min(priorities)}
           specifics == {c.specific : c \in best}
<1>1. Min(priorities) \in priorities /\ \A k \in priorities : Min(priorities) <= k
  <2>1. priorities \subseteq Nat /\ priorities # {}
    OBVIOUS
  <2> HIDE DEF priorities
  <2> QED BY <2>1, LeastOf
<1>2. specifics # {} /\ specifics \subseteq 0..(Limit - 1)
  BY <1>1
<1>3. PICK m \in specifics : \A n \in specifics : n <= m
  <2> HIDE DEF specifics
  <2> QED BY <1>2, MostOf
<1>4. PICK c \in best : c.specific = m
  OBVIOUS
<1>5. ASSUME NEW d \in candidates PROVE Beats(c, d)
  <2>1. c.priority <= d.priority /\ c.priority \in Nat /\ d.priority \in Nat
    BY <1>1
  <2>2. d.priority = c.priority => d.specific <= c.specific
    BY <1>3, <1>4
  <2>3. c.specific \in Nat /\ d.specific \in Nat
    BY DEF Limit
  <2> QED BY <2>1, <2>2, <2>3 DEF Beats
<1> DEFINE first == {e \in candidates : \A d \in candidates : Beats(e, d)}
<1>6. first # {}
  BY <1>5
<1>7. Winner(candidates) = IF first = {} THEN None ELSE Named(CHOOSE e \in first : TRUE)
  BY DEF Winner, Beats, Named
<1> HIDE DEF first
<1>8. Winner(candidates) = Named(CHOOSE e \in first : TRUE)
  BY <1>6, <1>7
<1>9. "rule" \in DOMAIN Winner(candidates) /\ "rule" \notin DOMAIN None
  BY <1>8 DEF Named, None
<1> QED BY <1>9

(* What the entries of a file mean is prefixes with their bits. *)
LEMMA MeantBits ==
  ASSUME NEW es \in Seq(Entries), NEW tag, NEW address, NEW p \in Meant(es, tag, address)
  PROVE  p.bits \in 0..(Limit - 1)
<1>1. PICK i \in DOMAIN es : \E c \in ToSet(es[i].cidrs) : p = Masked(IP(c.ip), c.bits)
  BY DEF Meant
<1>2. es[i] \in Entries
  OBVIOUS
<1>3. es[i].cidrs \in Seq(CIDRs)
  BY <1>2, GeoDatAssumption DEF CIDRs
<1>7. PICK c \in ToSet(es[i].cidrs) : p = Masked(IP(c.ip), c.bits)
  BY <1>1
<1>4. PICK k \in DOMAIN es[i].cidrs : c = es[i].cidrs[k]
  BY DEF ToSet
<1>5. c \in CIDRs
  BY <1>3, <1>4
<1>6. c.bits \in 0..(Limit - 1)
  BY <1>5 DEF CIDRs
<1> QED BY <1>7, <1>6 DEF Masked

(* An entry of a block gives a candidate for an address just if it holds it *)
(* ...                                                                      *)
LEMMA RoutedByEntry ==
  ASSUME blocks \in FileOf(CIDRs), NEW address, NEW n
  PROVE  (\E c \in CIDRCandidates(Now, address) : c.target = n) <=>
           \E b \in Enabled(blocks) :
             b.target = n /\ \E c \in ToSet(b.values) : Holds(Masked(IP(c.ip), c.bits), address)
<1> DEFINE names == TargetOrder(domains, blocks, order)
           prefixes(b) == {Masked(IP(x.ip), x.bits) : x \in ToSet(b.values)}
           ofBlock(b) == {Candidate(names, b.target, p) : p \in {q \in prefixes(b) : Holds(q, address)}}
<1>1. CIDRCandidates(Now, address) = UNION {ofBlock(b) : b \in Enabled(blocks)}
  BY DEF CIDRCandidates, Now
<1>2. \A b : (\E c \in ofBlock(b) : c.target = n) <=>
              b.target = n /\ \E c \in ToSet(b.values) : Holds(Masked(IP(c.ip), c.bits), address)
  <2>1. \A b, p : Candidate(names, b.target, p).target = b.target
    BY DEF Candidate
  <2> HIDE DEF names
  <2>2. \A b : (\E c \in ofBlock(b) : c.target = n) <=>
                b.target = n /\ \E p \in prefixes(b) : Holds(p, address)
    <3> HIDE DEF prefixes
    <3> QED BY <2>1
  <2> QED BY <2>2
<1> HIDE DEF ofBlock
<1> QED BY <1>1, <1>2

(* ... and a tag just if the file was meant to have a prefix of it that     *)
(* does.                                                                    *)
LEMMA RoutedByTag ==
  ASSUME TypeOK, FileAsWritten, damage = "none", NEW address, NEW n
  PROVE  (\E c \in GeoIPCandidates(Now, address) : c.target = n) <=>
           \E b \in Enabled(blocks) :
             /\ b.target = n
             /\ \A i \in DOMAIN stored : Fits(stored[i])
             /\ \E tag \in ToSet(b.tags) : Meant(stored, tag, address) # {}
<1> DEFINE names == TargetOrder(domains, blocks, order)
           found(scan) == IF scan.ok THEN ToSet(scan.found) ELSE {}
           listed(tag) == found(PrefixesContaining(data, tag, address))
           prefixes(b) == UNION {listed(tag) : tag \in ToSet(b.tags)}
           ofBlock(b) == {Candidate(names, b.target, p) : p \in prefixes(b)}
<1>1. GeoIPCandidates(Now, address) = UNION {ofBlock(b) : b \in Enabled(blocks)}
  BY DEF GeoIPCandidates, Now
<1>2. \A tag : listed(tag) = IF AllFit(stored) THEN Meant(stored, tag, address) ELSE {}
  <2>1. stored \in Seq(Entries) /\ data = File(stored)
    BY DEF TypeOK, DatTypeOK, FileAsWritten
  <2> QED BY <2>1, SearchIsExact
<1> HIDE DEF listed
<1>3. \A b : (\E c \in ofBlock(b) : c.target = n) <=> b.target = n /\ prefixes(b) # {}
  <2>1. \A b, p : Candidate(names, b.target, p).target = b.target
    BY DEF Candidate
  <2> HIDE DEF names, prefixes
  <2> QED BY <2>1
<1>4. \A b : prefixes(b) # {} <=> AllFit(stored) /\ \E tag \in ToSet(b.tags) : Meant(stored, tag, address) # {}
  BY <1>2
<1> HIDE DEF ofBlock, prefixes
<1>5. (\E c \in GeoIPCandidates(Now, address) : c.target = n) <=>
        \E b \in Enabled(blocks) : b.target = n /\ prefixes(b) # {}
  BY <1>1, <1>3
<1> QED BY <1>4, <1>5 DEF AllFit

(* The bits and the priority of a candidate of a tag ... *)
LEMMA GeoIPCandidateBits ==
  ASSUME TypeOK, FileAsWritten, damage = "none", NEW address, NEW c \in GeoIPCandidates(Now, address)
  PROVE  /\ c.specific \in 0..(Limit - 1)
         /\ c.priority = Priority(TargetOrder(domains, blocks, order), c.target)
<1> DEFINE names == TargetOrder(domains, blocks, order)
           found(scan) == IF scan.ok THEN ToSet(scan.found) ELSE {}
           listed(tag) == found(PrefixesContaining(data, tag, address))
           prefixes(b) == UNION {listed(tag) : tag \in ToSet(b.tags)}
           ofBlock(b) == {Candidate(names, b.target, p) : p \in prefixes(b)}
<1>1. GeoIPCandidates(Now, address) = UNION {ofBlock(b) : b \in Enabled(blocks)}
  BY DEF GeoIPCandidates, Now
<1>2. \A tag : listed(tag) \subseteq Meant(stored, tag, address)
  <2>1. stored \in Seq(Entries) /\ data = File(stored)
    BY DEF TypeOK, DatTypeOK, FileAsWritten
  <2> QED BY <2>1, SearchIsExact
<1>3. PICK b \in Enabled(blocks) : \E tag \in ToSet(b.tags) : \E p \in Meant(stored, tag, address) :
                                      c = Candidate(names, b.target, p)
  <2> HIDE DEF names, listed
  <2> QED BY <1>1, <1>2
<1>4. PICK tag \in ToSet(b.tags) : \E p \in Meant(stored, tag, address) : c = Candidate(names, b.target, p)
  BY <1>3
<1>5. PICK p \in Meant(stored, tag, address) : c = Candidate(names, b.target, p)
  BY <1>4
<1>6. p.bits \in 0..(Limit - 1)
  BY MeantBits DEF TypeOK, DatTypeOK
<1>7. c.specific = p.bits /\ c.target = b.target /\ c.priority = Priority(names, b.target)
  <2> HIDE DEF names
  <2> QED BY <1>5 DEF Candidate
<1> QED BY <1>6, <1>7

(* ... and of one of an entry. *)
LEMMA CIDRCandidateBits ==
  ASSUME TypeOK, NEW address, NEW c \in CIDRCandidates(Now, address)
  PROVE  /\ c.specific \in 0..(Limit - 1)
         /\ c.priority = Priority(TargetOrder(domains, blocks, order), c.target)
<1> DEFINE names == TargetOrder(domains, blocks, order)
           prefixes(b) == {Masked(IP(x.ip), x.bits) : x \in ToSet(b.values)}
           ofBlock(b) == {Candidate(names, b.target, p) : p \in {q \in prefixes(b) : Holds(q, address)}}
<1>0. blocks \in FileOf(CIDRs)
  BY TypeIs
<1>1. CIDRCandidates(Now, address) = UNION {ofBlock(b) : b \in Enabled(blocks)}
  BY DEF CIDRCandidates, Now
<1>2. PICK b \in Enabled(blocks) : \E x \in ToSet(b.values) : c = Candidate(names, b.target, Masked(IP(x.ip), x.bits))
  <2> HIDE DEF names
  <2> QED BY <1>1
<1>3. PICK x \in ToSet(b.values) : c = Candidate(names, b.target, Masked(IP(x.ip), x.bits))
  BY <1>2
<1>4. x \in CIDRs
  <2>1. b \in GroupsOf(CIDRs)
    BY <1>0, EnabledFacts
  <2>2. b.values \in Seq(CIDRs)
    BY <2>1 DEF GroupsOf
  <2>3. PICK k \in DOMAIN b.values : x = b.values[k]
    BY DEF ToSet
  <2> QED BY <2>2, <2>3
<1>5. x.bits \in 0..(Limit - 1)
  BY <1>4 DEF CIDRs
<1>6. c.specific = x.bits /\ c.target = b.target /\ c.priority = Priority(names, b.target)
  <2> HIDE DEF names
  <2> QED BY <1>3 DEF Candidate, Masked
<1> QED BY <1>5, <1>6

(* A list without repetitions: the priority of one of it is its place. *)
LEMMA PriorityInList ==
  ASSUME NEW S, NEW names \in Seq(S), Distinct(names), NEW k \in DOMAIN names
  PROVE  Priority(names, names[k]) = k
<1>1. Contains(names, names[k])
  BY DEF Contains
<1>2. (CHOOSE i \in DOMAIN names : names[i] = names[k]) = k
  BY DEF Distinct
<1> QED BY <1>1, <1>2 DEF Priority

(* Of the targets of candidates the winner's is first in their order. *)
LEMMA WinnerIsFirst ==
  ASSUME NEW S, NEW names \in Seq(S), Distinct(names), NEW candidates,
         \A c \in candidates : /\ c.target \in ToSet(names) /\ c.priority = Priority(names, c.target)
                               /\ c.specific \in 0..(Limit - 1)
  PROVE  FirstIn(names, {c.target : c \in candidates}) =
           IF Winner(candidates) = None THEN {} ELSE {Winner(candidates).target}
<1> DEFINE routed == {c.target : c \in candidates}
<1>0. DOMAIN names \subseteq Nat
  OBVIOUS
<1>1. \A c \in candidates : c.priority \in DOMAIN names /\ names[c.priority] = c.target
  <2> SUFFICES ASSUME NEW c \in candidates PROVE c.priority \in DOMAIN names /\ names[c.priority] = c.target
    OBVIOUS
  <2>1. PICK k \in DOMAIN names : names[k] = c.target
    BY DEF ToSet
  <2>2. Priority(names, names[k]) = k
    BY PriorityInList
  <2> QED BY <2>1, <2>2
<1>2. Winner(candidates) = None <=> candidates = {}
  <2>1. ASSUME candidates = {} PROVE Winner(candidates) = None
    BY <2>1 DEF Winner
  <2>2. \A c \in candidates : c.priority \in Nat
    BY <1>0, <1>1
  <2> QED BY <2>1, <2>2, SomeoneWins
<1>3. CASE candidates = {}
  <2>1. FirstIn(names, routed) = {}
    BY <1>3, FirstInFacts
  <2> QED BY <1>2, <1>3, <2>1
<1>4. CASE candidates # {}
  <2>1. PICK c \in candidates : Winner(candidates) = Named(c) /\ \A d \in candidates : Beats(c, d)
    BY <1>2, <1>4, WinnerFacts
  <2> DEFINE k == c.priority
  <2>2. k \in DOMAIN names /\ names[k] = c.target /\ k \in Nat
    BY <1>0, <1>1
  <2>3. ASSUME NEW i \in 1..(k - 1) PROVE names[i] \notin routed
    <3> SUFFICES ASSUME NEW d \in candidates, names[i] = d.target PROVE FALSE
      OBVIOUS
    <3>1. i \in DOMAIN names /\ i < k
      BY <2>2
    <3>2. Priority(names, names[i]) = i
      BY <3>1, PriorityInList
    <3>3. d.priority = i
      BY <3>2
    <3>4. c.priority < d.priority \/ c.priority = d.priority
      BY <2>1 DEF Beats
    <3> QED BY <2>2, <3>1, <3>3, <3>4
  <2>4. names[k] \in routed
    BY <2>2
  <2> HIDE DEF k, routed
  <2>5. FirstIn(names, routed) = {names[k]}
    BY <2>2, <2>3, <2>4, FirstInFacts
  <2>6. Winner(candidates).target = c.target
    BY <2>1 DEF Named
  <2>7. Winner(candidates) # None
    BY <1>2, <1>4
  <2> QED BY <2>2, <2>5, <2>6, <2>7 DEF routed
<1> QED BY <1>3, <1>4

(* The winner is of the first target in the order that an address is routed *)
(* to.                                                                      *)
LEMMA AddressGoesToFirstAlways ==
  ASSUME TypeOK, FileAsWritten
  PROVE  AddressGoesToFirst
<1> SUFFICES ASSUME damage = "none", blocks # NoFile, NEW a \in Addresses
             PROVE  LET routed == FirstIn(TargetOrder(domains, blocks, order), {n \in Targets : RoutesTo(a, n)})
                    IN  /\ DiagnoseIP(a, {}).matched <=> routed # {}
                        /\ DiagnoseIP(a, {}).target = routed
  BY DEF AddressGoesToFirst
<1> DEFINE names == TargetOrder(domains, blocks, order)
           S == ToSet(order) \cup Targets
           candidates == CIDRCandidates(Now, a) \cup GeoIPCandidates(Now, a)
           winner == Winner(candidates)
           routes == {n \in Targets : RoutesTo(a, n)}
<1>1. domains \in FileOf(Seq(Labels)) /\ blocks \in FileOf(CIDRs) /\ order \in Seq(ToSet(order))
  BY TypeIs, OrderType
<1>2. /\ names \in Seq(S) /\ Distinct(names)
      /\ ToSet(names) = Used(domains, blocks) /\ Used(domains, blocks) \subseteq Targets
  BY <1>1, NamesInUse
<1>3. \A c \in candidates :
        /\ c.target \in ToSet(names) /\ c.priority = Priority(names, c.target)
        /\ c.specific \in 0..(Limit - 1)
  <2> SUFFICES ASSUME NEW c \in candidates
               PROVE  /\ c.target \in ToSet(names) /\ c.priority = Priority(names, c.target)
                      /\ c.specific \in 0..(Limit - 1)
    OBVIOUS
  <2>1. Now = Rules(domains, blocks, order)
    BY DEF Now, Rules
  <2> HIDE DEF names
  <2>2. CASE c \in CIDRCandidates(Now, a)
    <3>1. c.target \in Used(domains, blocks)
      BY <1>1, <2>1, <2>2, CIDRCandidateFacts
    <3> QED BY <1>2, <2>2, <3>1, CIDRCandidateBits DEF names
  <2>3. CASE c \in GeoIPCandidates(Now, a)
    <3>1. c.target \in Used(domains, blocks)
      BY <1>1, <2>1, <2>3, GeoIPCandidateFacts
    <3> QED BY <1>2, <2>3, <3>1, GeoIPCandidateBits DEF names
  <2> QED BY <2>2, <2>3
<1>4. {c.target : c \in candidates} = routes
  <2>1. \A n : (\E c \in CIDRCandidates(Now, a) : c.target = n) \/ (\E c \in GeoIPCandidates(Now, a) : c.target = n)
                 <=> RoutesTo(a, n)
    <3> TAKE n
    <3>1. (\E c \in CIDRCandidates(Now, a) : c.target = n) <=>
            \E b \in Enabled(blocks) :
              b.target = n /\ \E c \in ToSet(b.values) : Holds(Masked(IP(c.ip), c.bits), a)
      BY <1>1, RoutedByEntry
    <3>2. (\E c \in GeoIPCandidates(Now, a) : c.target = n) <=>
            \E b \in Enabled(blocks) :
              /\ b.target = n
              /\ \A i \in DOMAIN stored : Fits(stored[i])
              /\ \E tag \in ToSet(b.tags) : Meant(stored, tag, a) # {}
      BY RoutedByTag
    <3> QED BY <3>1, <3>2 DEF RoutesTo
  <2>2. \A c \in candidates : c.target \in Targets
    BY <1>2, <1>3
  <2> QED BY <2>1, <2>2
<1> HIDE DEF names, S
<1>5. FirstIn(names, routes) = IF winner = None THEN {} ELSE {winner.target}
  <2> HIDE DEF candidates, routes
  <2>1. FirstIn(names, {c.target : c \in candidates}) = IF Winner(candidates) = None THEN {} ELSE {Winner(candidates).target}
    BY <1>2, <1>3, WinnerIsFirst
  <2> QED BY <1>4, <2>1
<1>6. FirstIn(names, {}) = {}
  BY <1>2, FirstInFacts
<1>7. DiagnoseIP(a, {}) =
        [matched |-> winner # None \/ FirstIn(names, {}) # {},
         target |-> IF FirstIn(names, {}) # {} THEN FirstIn(names, {})
                    ELSE IF winner = None THEN {} ELSE {winner.target}]
  BY DEF DiagnoseIP, ConfiguredWinner, RuntimeTarget, names
<1> HIDE DEF winner, candidates, routes
<1>8. DiagnoseIP(a, {}) = [matched |-> winner # None, target |-> IF winner = None THEN {} ELSE {winner.target}]
  BY <1>6, <1>7
<1>9. /\ DiagnoseIP(a, {}).matched <=> FirstIn(names, routes) # {}
      /\ DiagnoseIP(a, {}).target = FirstIn(names, routes)
  <2>1. DiagnoseIP(a, {}).matched <=> winner # None
    <3>1. CASE winner = None
      <4>1. (winner # None) = FALSE
        BY <3>1
      <4>2. DiagnoseIP(a, {}) = [matched |-> FALSE, target |-> {}]
        BY <1>8, <3>1, <4>1
      <4> QED BY <3>1, <4>2
    <3>2. CASE winner # None
      <4>1. (winner # None) = TRUE
        BY <3>2
      <4>2. DiagnoseIP(a, {}) = [matched |-> TRUE, target |-> {winner.target}]
        BY <1>8, <3>2, <4>1
      <4> QED BY <3>2, <4>2
    <3> QED BY <3>1, <3>2
  <2>2. DiagnoseIP(a, {}).target = IF winner = None THEN {} ELSE {winner.target}
    BY <1>8
  <2>3. FirstIn(names, routes) # {} <=> winner # None
    BY <1>5
  <2>4. DiagnoseIP(a, {}).target = FirstIn(names, routes)
    BY <1>5, <2>2
  <2> QED BY <2>1, <2>3, <2>4, Zenon
<1> QED BY <1>9 DEF names, routes

(* The target diagnoseIP names for an address is the first, in the order of *)
(* PolicyOrder and the names, that an enabled block routes it to: by an     *)
(* entry that holds it, or by a tag whose entry was meant to hold it.       *)
THEOREM AddressesGoToTheFirst == Spec => []AddressGoesToFirst
<1>1. TypeOK /\ FileAsWritten => AddressGoesToFirst
  BY AddressGoesToFirstAlways
<1> QED BY <1>1, TypeCorrect, FilesHoldWhatWasWritten, PTL

-----------------------------------------------------------------------------
(* Prefixes.                                                                *)

Valid == {c \in CIDRs : Len(c.ip) \in {1, 2} /\ c.bits <= BitLen(IP(c.ip))}

PrefixOf(c) == Masked(IP(c.ip), c.bits)

(* Of a prefix: the size and the number of its address. *)
LEMMA ValidFacts ==
  ASSUME NEW c \in Valid
  PROVE  /\ IP(c.ip) \in AllAddresses /\ IP(c.ip).size = Len(c.ip)
         /\ c.bits \in 0..(4 * IP(c.ip).size)
<1>1. c.ip \in Seq(Bytes) /\ Len(c.ip) \in {1, 2} /\ c.bits \in 0..(Limit - 1) /\ c.bits <= BitLen(IP(c.ip))
  BY DEF Valid, CIDRs
<1>2. IP(c.ip).size = Len(c.ip)
  BY DEF IP
<1>3. c.bits \in 0..(4 * IP(c.ip).size)
  <2>1. c.bits \in Nat /\ c.bits <= 4 * IP(c.ip).size
    <3>1. BitLen(IP(c.ip)) = 4 * IP(c.ip).size
      BY DEF BitLen
    <3>2. c.bits \in 0..255
      BY <1>1 DEF Limit
    <3> QED BY <1>1, <3>1, <3>2
  <2>2. 4 * IP(c.ip).size \in Nat
    BY <1>1, <1>2
  <2> QED BY <2>1, <2>2
<1>4. CASE Len(c.ip) = 1
  <2>1. c.ip[1] \in 0..15
    BY <1>1, <1>4 DEF Bytes
  <2>2. IP(c.ip) = [size |-> 1, at |-> c.ip[1]]
    BY <1>4 DEF IP
  <2> QED BY <1>2, <1>3, <2>1, <2>2 DEF AllAddresses
<1>5. CASE Len(c.ip) = 2
  <2>1. c.ip[1] \in 0..15 /\ c.ip[2] \in 0..15
    BY <1>1, <1>5 DEF Bytes
  <2>2. IP(c.ip) = [size |-> 2, at |-> 16 * c.ip[1] + c.ip[2]]
    BY <1>5 DEF IP
  <2>3. 16 * c.ip[1] + c.ip[2] \in 0..255
    BY <2>1
  <2> QED BY <1>2, <1>3, <2>2, <2>3 DEF AllAddresses
<1> QED BY <1>1, <1>4, <1>5

(* The first address of a prefix is one of its own. *)
LEMMA StartFacts ==
  ASSUME NEW a \in AllAddresses, NEW bits \in 0..(4 * a.size)
  PROVE  /\ Start(Masked(a, bits)) \in AllAddresses /\ Start(Masked(a, bits)).size = a.size
         /\ Holds(Masked(a, bits), Start(Masked(a, bits)))
<1> DEFINE k == BitLen(a) - bits
           start == (a.at \div 2^k) * 2^k
<1>1. a.size \in {1, 2} /\ a.at \in 0..255 /\ (a.size = 1 => a.at \in 0..15)
  BY DEF AllAddresses
<1>2. k \in 0..8
  BY <1>1 DEF BitLen
<1>3. Masked(a, bits) = [size |-> a.size, bits |-> bits, net |-> a.at \div 2^k]
  BY DEF Masked
<1>4. 4 * a.size - bits = k
  BY DEF BitLen
<1> HIDE DEF k
<1>5. Start(Masked(a, bits)) = [size |-> a.size, at |-> start]
  BY <1>3, <1>4 DEF Start
<1> DEFINE m == 2^k
<1>6. m \in 1..256
  <2>1. k <= k
    BY <1>2
  <2> QED BY <1>2, <2>1, PowerRatio
<1>7. start \in 0..a.at
  <2> HIDE DEF m
  <2>1. start = (a.at \div m) * m
    BY DEF m
  <2>2. 1 \in 1..256 /\ a.at \in Nat
    BY <1>1
  <2>3. (a.at \div m) * m \in 0..a.at
    BY <1>6, <2>2, RoundedDown
  <2> QED BY <2>1, <2>3
<1>8. start \div 2^k = a.at \div 2^k
  <2> HIDE DEF m
  <2>1. 1 \in 1..256 /\ a.at \in Nat /\ 1 * m = m
    BY <1>1, <1>6
  <2>2. ((a.at \div m) * m) \div (1 * m) = a.at \div (1 * m)
    BY <1>6, <2>1, RoundedDown
  <2> QED BY <2>1, <2>2 DEF m
<1> HIDE DEF start
<1>9. Start(Masked(a, bits)) \in AllAddresses /\ Start(Masked(a, bits)).size = a.size
  BY <1>1, <1>5, <1>7 DEF AllAddresses
<1>10. Masked(Start(Masked(a, bits)), bits) = Masked(a, bits)
  <2>1. BitLen(Start(Masked(a, bits))) - bits = k
    BY <1>5 DEF BitLen, k
  <2>2. Masked(Start(Masked(a, bits)), bits) = [size |-> a.size, bits |-> bits, net |-> start \div 2^k]
    BY <1>5, <2>1 DEF Masked
  <2> QED BY <1>3, <1>8, <2>2
<1>11. Holds(Masked(a, bits), Start(Masked(a, bits)))
  BY <1>3, <1>9, <1>10 DEF Holds
<1> QED BY <1>9, <1>11

(* Of two prefixes of an address the longer starts in the shorter. *)
LEMMA Nested ==
  ASSUME NEW a \in AllAddresses, NEW short \in 0..(4 * a.size), NEW long \in 0..(4 * a.size), short <= long
  PROVE  Holds(Masked(a, short), Start(Masked(a, long)))
<1> DEFINE k == BitLen(a) - long
           l == BitLen(a) - short
           start == (a.at \div 2^k) * 2^k
<1>1. a.size \in {1, 2} /\ a.at \in Nat
  BY DEF AllAddresses
<1>2. k \in 0..8 /\ l \in 0..8 /\ k <= l
  BY <1>1 DEF BitLen
<1>3. /\ Masked(a, short) = [size |-> a.size, bits |-> short, net |-> a.at \div 2^l]
      /\ Masked(a, long) = [size |-> a.size, bits |-> long, net |-> a.at \div 2^k]
  BY DEF Masked
<1>4. 4 * a.size - long = k /\ 4 * a.size - short = l
  BY DEF BitLen
<1> HIDE DEF k, l
<1>5. Start(Masked(a, long)) = [size |-> a.size, at |-> start]
  BY <1>3, <1>4 DEF Start
<1>6. start \div 2^l = a.at \div 2^l
  <2>1. 2^k \in 1..256 /\ 2^(l - k) \in 1..256 /\ 2^l = 2^(l - k) * 2^k
    BY <1>2, PowerRatio
  <2>2. ((a.at \div 2^k) * 2^k) \div (2^(l - k) * 2^k) = a.at \div (2^(l - k) * 2^k)
    BY <1>1, <2>1, RoundedDown
  <2> QED BY <2>1, <2>2
<1> HIDE DEF start
<1>7. Masked(Start(Masked(a, long)), short) = Masked(a, short)
  <2>1. BitLen(Start(Masked(a, long))) - short = l
    BY <1>5 DEF BitLen, l
  <2>2. Masked(Start(Masked(a, long)), short) = [size |-> a.size, bits |-> short, net |-> start \div 2^l]
    BY <1>5, <2>1 DEF Masked
  <2> QED BY <1>3, <1>6, <2>2
<1> QED BY <1>3, <1>5, <1>7 DEF Holds

(* Two prefixes overlap where some address, of the size of both, is in both.*)
LEMMA OverlapMeansShared ==
  ASSUME NEW c \in Valid, NEW d \in Valid
  PROVE  Overlap(PrefixOf(c), PrefixOf(d)) <=>
           \E a \in AllAddresses : a.size = Len(c.ip) /\ Holds(PrefixOf(c), a) /\ Holds(PrefixOf(d), a)
<1> DEFINE p == PrefixOf(c)
           q == PrefixOf(d)
<1>1. /\ Start(p) \in AllAddresses /\ Start(p).size = Len(c.ip) /\ Holds(p, Start(p))
      /\ Start(q) \in AllAddresses /\ Start(q).size = Len(d.ip) /\ Holds(q, Start(q))
  BY ValidFacts, StartFacts DEF PrefixOf
<1>2. p.size = Len(c.ip) /\ p.bits = c.bits /\ q.size = Len(d.ip) /\ q.bits = d.bits
  BY ValidFacts DEF PrefixOf, Masked
<1> HIDE DEF p, q
<1>3. ASSUME Overlap(p, q) PROVE \E a \in AllAddresses : a.size = Len(c.ip) /\ Holds(p, a) /\ Holds(q, a)
  <2>1. CASE Holds(p, Start(q))
    BY <1>1, <1>2, <2>1 DEF Holds
  <2>2. CASE Holds(q, Start(p))
    BY <1>1, <2>2
  <2> QED BY <1>3, <2>1, <2>2 DEF Overlap
<1>4. ASSUME NEW a \in AllAddresses, Holds(p, a), Holds(q, a) PROVE Overlap(p, q)
  <2>1. p = Masked(a, c.bits) /\ q = Masked(a, d.bits) /\ p.size = a.size /\ q.size = a.size
    BY <1>2, <1>4 DEF Holds
  <2>2. c.bits \in 0..(4 * a.size) /\ d.bits \in 0..(4 * a.size) /\ c.bits \in Int /\ d.bits \in Int
    BY <1>2, <2>1, ValidFacts
  <2>3. CASE c.bits <= d.bits
    BY <2>1, <2>2, <2>3, Nested DEF Overlap
  <2>4. CASE d.bits <= c.bits
    BY <2>1, <2>2, <2>4, Nested DEF Overlap
  <2> QED BY <2>2, <2>3, <2>4
<1> QED BY <1>3, <1>4 DEF p, q

-----------------------------------------------------------------------------
(* Warnings.                                                                *)

(* The list of the entries of a file has what its enabled groups have. *)
LEMMA RoutedFacts ==
  ASSUME NEW K, NEW f \in FileOf(K)
  PROVE  /\ Routed(f, Values(f)) \in Seq([key : K, target : Targets])
         /\ \A key, n : (\E i \in DOMAIN Routed(f, Values(f)) :
                           Routed(f, Values(f))[i].key = key /\ Routed(f, Values(f))[i].target = n)
              <=> \E g \in Enabled(f) : g.target = n /\ key \in ToSet(g.values)
<1> DEFINE R == [key : K, target : Targets]
           gs == Groups(f)
           ofGroup(i) == [k \in DOMAIN gs[i].values |-> [key |-> gs[i].values[k], target |-> gs[i].target]]
           piece(i) == IF gs[i].enabled THEN ofGroup(i) ELSE <<>>
           pieces == [i \in DOMAIN gs |-> piece(i)]
           list == Routed(f, Values(f))
<1>1. gs \in Seq(GroupsOf(K))
  BY GroupsType
<1> HIDE DEF gs
<1>2. list = FlattenSeq(pieces)
  <2>1. DOMAIN Values(f) = DOMAIN gs /\ \A i \in DOMAIN gs : Values(f)[i] = gs[i].values
    BY DEF Values, gs
  <2>2. Routed(f, Values(f)) =
          FlattenSeq([i \in DOMAIN Values(f) |->
             IF gs[i].enabled
             THEN [k \in DOMAIN Values(f)[i] |-> [key |-> Values(f)[i][k], target |-> gs[i].target]]
             ELSE <<>>])
    BY DEF Routed, gs
  <2>3. [i \in DOMAIN Values(f) |->
             IF gs[i].enabled
             THEN [k \in DOMAIN Values(f)[i] |-> [key |-> Values(f)[i][k], target |-> gs[i].target]]
             ELSE <<>>] = pieces
    BY <2>1
  <2> QED BY <2>2, <2>3
<1>3. \A i \in DOMAIN gs : gs[i].values \in Seq(K) /\ gs[i].target \in Targets
  <2>1. \A i \in DOMAIN gs : gs[i] \in GroupsOf(K)
    <3> DEFINE G == GroupsOf(K)
    <3> HIDE DEF G
    <3>1. gs \in Seq(G)
      BY <1>1 DEF G
    <3> QED BY <3>1 DEF G
  <2> QED BY <2>1 DEF GroupsOf
<1>4. \A i \in DOMAIN gs : piece(i) \in Seq(R)
  <2> SUFFICES ASSUME NEW i \in DOMAIN gs PROVE ofGroup(i) \in Seq(R)
    <3>1. <<>> \in Seq(R)
      OBVIOUS
    <3> HIDE DEF ofGroup, R
    <3> QED BY <3>1
  <2>1. Len(gs[i].values) \in Nat /\ DOMAIN gs[i].values = 1..Len(gs[i].values)
        /\ \A k \in 1..Len(gs[i].values) : gs[i].values[k] \in K
    BY <1>3
  <2>2. \A k \in 1..Len(gs[i].values) : ofGroup(i)[k] \in R
    BY <1>3, <2>1
  <2>3. ofGroup(i) \in [1..Len(gs[i].values) -> R]
    <3> HIDE DEF R
    <3> QED BY <2>1, <2>2
  <2> HIDE DEF R, ofGroup
  <2> QED BY <2>1, <2>3
<1>5. pieces \in Seq(Seq(R))
  <2> DEFINE L == Seq(R)
  <2>1. \A i \in DOMAIN gs : piece(i) \in L
    BY <1>4
  <2>2. Len(gs) \in Nat /\ DOMAIN gs = 1..Len(gs)
    BY <1>1
  <2> HIDE DEF L, piece
  <2>3. pieces \in Seq(L)
    BY <2>1, <2>2
  <2> QED BY <2>3 DEF L
<1> HIDE DEF pieces, R
<1>6. list \in Seq(R) /\ ToSet(list) = UNION {ToSet(pieces[i]) : i \in DOMAIN pieces}
  BY <1>2, <1>5, FlattenType, FlattenContents
<1>7. \A key, n : (\E e \in ToSet(list) : e.key = key /\ e.target = n)
             <=> \E g \in Enabled(f) : g.target = n /\ key \in ToSet(g.values)
  <2> TAKE key, n
  <2>1. (\E e \in ToSet(list) : e.key = key /\ e.target = n)
          <=> \E i \in DOMAIN gs : \E e \in ToSet(piece(i)) : e.key = key /\ e.target = n
    <3>1. DOMAIN pieces = DOMAIN gs /\ \A i \in DOMAIN gs : pieces[i] = piece(i)
      BY DEF pieces
    <3> HIDE DEF piece, list
    <3> QED BY <1>6, <3>1
  <2>2. \A i \in DOMAIN gs : (\E e \in ToSet(piece(i)) : e.key = key /\ e.target = n)
          <=> gs[i].enabled /\ gs[i].target = n /\ key \in ToSet(gs[i].values)
    <3> SUFFICES ASSUME NEW i \in DOMAIN gs
                 PROVE  (\E e \in ToSet(piece(i)) : e.key = key /\ e.target = n)
                          <=> gs[i].enabled /\ gs[i].target = n /\ key \in ToSet(gs[i].values)
      OBVIOUS
    <3>1. CASE ~gs[i].enabled
      <4>1. ToSet(piece(i)) = {}
        BY <3>1 DEF ToSet
      <4> QED BY <3>1, <4>1
    <3>2. CASE gs[i].enabled
      <4> DEFINE made(k) == [key |-> gs[i].values[k], target |-> gs[i].target]
      <4>1. ToSet(piece(i)) = {made(k) : k \in DOMAIN gs[i].values}
        BY <3>2 DEF ToSet
      <4>2. \A k : made(k).key = gs[i].values[k] /\ made(k).target = gs[i].target
        OBVIOUS
      <4>3. ToSet(gs[i].values) = {gs[i].values[k] : k \in DOMAIN gs[i].values}
        BY DEF ToSet
      <4> HIDE DEF piece, made
      <4>4. (\E e \in ToSet(piece(i)) : e.key = key /\ e.target = n)
              <=> \E k \in DOMAIN gs[i].values : gs[i].values[k] = key /\ gs[i].target = n
        BY <4>1, <4>2
      <4> QED BY <3>2, <4>3, <4>4
    <3> QED BY <3>1, <3>2
  <2>3. Enabled(f) = {g \in {gs[i] : i \in DOMAIN gs} : g.enabled}
    BY DEF Enabled, gs, ToSet
  <2> HIDE DEF list, piece
  <2> QED BY <2>1, <2>2, <2>3
<1>8. \A key, n : (\E i \in DOMAIN list : list[i].key = key /\ list[i].target = n)
             <=> \E e \in ToSet(list) : e.key = key /\ e.target = n
  <2> HIDE DEF list
  <2> QED BY DEF ToSet
<1>9. \A key, n : (\E i \in DOMAIN list : list[i].key = key /\ list[i].target = n)
             <=> \E g \in Enabled(f) : g.target = n /\ key \in ToSet(g.values)
  <2> HIDE DEF list
  <2> QED BY <1>7, <1>8
<1>10. list \in Seq([key : K, target : Targets])
  BY <1>6 DEF R
<1> QED BY <1>9, <1>10

(* There are finitely many targets. *)
LEMMA TargetsFinite == IsFiniteSet(Targets)
<1> DEFINE f == [i \in 1..Len(Names) |-> Names[i]]
<1>1. Len(Names) \in Nat /\ DOMAIN Names = 1..Len(Names) /\ Targets = {Names[i] : i \in DOMAIN Names}
  BY DiagnosisAssumption DEF Targets, ToSet
<1>2. f \in Surjection(1..Len(Names), Targets)
  BY <1>1 DEF Surjection
<1>3. ExistsSurjection(1..Len(Names), Targets)
  BY <1>2 DEF ExistsSurjection
<1> HIDE DEF f
<1> QED BY <1>1, <1>3, FS_NatSurjection

ConflictAbout(list, d) == \E x \in Repeated(list) : x.code = "conflicting" /\ x.key = d

TwoTargets(list, d) ==
  \E i, j \in DOMAIN list : list[i].key = d /\ list[j].key = d /\ list[i].target # list[j].target

(* There is a warning of a conflict about a key just where two targets have *)
(* it.                                                                      *)
LEMMA ConflictOfKey ==
  ASSUME NEW K, NEW list \in Seq([key : K, target : Targets]), NEW d
  PROVE  ConflictAbout(list, d) <=> TwoTargets(list, d)
<1> DEFINE first(i) == \A j \in 1..(i - 1) : list[j].key # list[i].key
           again == {p \in Pairs(list) : first(p[1]) /\ list[p[1]].key = list[p[2]].key}
           code(p) == IF list[p[1]].target = list[p[2]].target THEN "duplicate" ELSE "conflicting"
           issue(p) == Issue(code(p), list[p[1]], list[p[2]])
<1>1. Repeated(list) = {issue(p) : p \in again}
  BY DEF Repeated
<1>2. \A p : issue(p).code = code(p) /\ issue(p).key = list[p[2]].key
  BY DEF Issue
<1>3. DOMAIN list \subseteq Nat /\ \A i, j \in Nat : i < j /\ j \in DOMAIN list /\ i >= 1 => i \in DOMAIN list
  OBVIOUS
<1>4. \A p \in again : /\ p[1] \in DOMAIN list /\ p[2] \in DOMAIN list /\ p[1] < p[2]
                       /\ first(p[1]) /\ list[p[1]].key = list[p[2]].key
  BY DEF Pairs
<1>5. \A i, j \in DOMAIN list : i < j /\ first(i) /\ list[i].key = list[j].key => <<i, j>> \in again
  BY DEF Pairs
<1> HIDE DEF issue, again
<1>6. ASSUME NEW x \in Repeated(list), x.code = "conflicting", x.key = d
      PROVE  \E i, j \in DOMAIN list : list[i].key = d /\ list[j].key = d /\ list[i].target # list[j].target
  <2>1. PICK p \in again : x = issue(p)
    BY <1>1
  <2>2. code(p) = "conflicting" /\ list[p[2]].key = d
    BY <1>2, <1>6, <2>1
  <2>3. list[p[1]].target # list[p[2]].target
    BY <2>2
  <2> QED BY <1>4, <2>2, <2>3
<1>7. ASSUME NEW i \in DOMAIN list, NEW j \in DOMAIN list,
             list[i].key = d, list[j].key = d, list[i].target # list[j].target
      PROVE  \E x \in Repeated(list) : x.code = "conflicting" /\ x.key = d
  <2> DEFINE at == {k \in DOMAIN list : list[k].key = d}
             f == Min(at)
  <2>1. f \in at /\ \A k \in at : f <= k
    <3>1. at \subseteq Nat /\ at # {}
      BY <1>3, <1>7
    <3> HIDE DEF at
    <3> QED BY <3>1, LeastOf
  <2>2. PICK m \in {i, j} : list[m].target # list[f].target
    BY <1>7
  <2>3. m \in at /\ m # f /\ f \in DOMAIN list /\ m \in DOMAIN list
    BY <1>7, <2>1, <2>2
  <2>4. f \in Nat /\ m \in Nat /\ f < m
    <3>1. f <= m
      BY <2>1, <2>3
    <3>2. f \in Nat /\ m \in Nat /\ m # f
      BY <1>3, <2>3
    <3> HIDE DEF f
    <3> QED BY <3>1, <3>2
  <2>5. first(f)
    <3> SUFFICES ASSUME NEW k \in 1..(f - 1), list[k].key = list[f].key PROVE FALSE
      OBVIOUS
    <3>1. k < f /\ k >= 1 /\ k \in Nat
      BY <2>4
    <3>2. k \in DOMAIN list
      BY <1>3, <2>3, <2>4, <3>1
    <3>3. k \in at
      BY <2>1, <3>2
    <3>4. f <= k
      BY <2>1, <3>3
    <3> QED BY <2>4, <3>1, <3>4
  <2>6. list[f].key = d /\ list[m].key = d
    BY <2>1, <2>3
  <2> HIDE DEF f, at, first
  <2>7. <<f, m>> \in again
    BY <1>5, <2>3, <2>4, <2>5, <2>6
  <2>8. code(<<f, m>>) = "conflicting"
    BY <2>2
  <2>9. issue(<<f, m>>).code = "conflicting" /\ issue(<<f, m>>).key = d
    BY <1>2, <2>6, <2>8
  <2> QED BY <1>1, <2>7, <2>9
<1> QED BY <1>6, <1>7 DEF ConflictAbout, TwoTargets

(* ... which are those a diagnosis of the domain has as exact. *)
LEMMA ExactTargets ==
  ASSUME domains \in FileOf(Seq(Labels)), NEW d \in Seq(Labels), NEW n
  PROVE  n \in {c.target : c \in {x \in DomainCandidates(Now, d) : x.exact}} <=>
           \E g \in Enabled(domains) : g.target = n /\ d \in ToSet(g.values)
<1> DEFINE names == TargetOrder(domains, <<>>, order)
           candidate(g, rule) ==
             [target |-> g.target, rule |-> rule, exact |-> rule = d,
              priority |-> Priority(names, g.target), specific |-> Specificity(d, rule)]
           ofGroup(g) == {candidate(g, rule) : rule \in {r \in ToSet(g.values) : Matches(d, r)}}
<1>1. DomainCandidates(Now, d) = UNION {ofGroup(g) : g \in Enabled(domains)}
  BY DEF DomainCandidates, Now
<1>2. Matches(d, d)
  BY PrefixFacts DEF Matches, IsPrefix
<1>3. \A g, rule : candidate(g, rule).target = g.target
  OBVIOUS
<1>4. \A g : candidate(g, d).exact
  <2> TAKE g
  <2>1. (d = d) = TRUE
    OBVIOUS
  <2> HIDE DEF names
  <2> QED BY <2>1
<1>5. \A g, rule : rule # d => ~candidate(g, rule).exact
  <2> SUFFICES ASSUME NEW g, NEW rule, rule # d PROVE ~candidate(g, rule).exact
    OBVIOUS
  <2>1. (rule = d) = FALSE
    OBVIOUS
  <2> HIDE DEF names
  <2>2. candidate(g, rule).exact = FALSE
    BY <2>1
  <2> QED BY <2>2
<1> HIDE DEF candidate
<1>6. \A g : (\E c \in ofGroup(g) : c.exact /\ c.target = n) <=> g.target = n /\ d \in ToSet(g.values)
  <2> TAKE g
  <2>1. ASSUME NEW c \in ofGroup(g), c.exact, c.target = n PROVE g.target = n /\ d \in ToSet(g.values)
    <3>1. PICK rule \in ToSet(g.values) : c = candidate(g, rule)
      OBVIOUS
    <3>2. rule = d
      BY <1>5, <2>1, <3>1
    <3> QED BY <1>3, <2>1, <3>1, <3>2
  <2>2. ASSUME g.target = n, d \in ToSet(g.values) PROVE \E c \in ofGroup(g) : c.exact /\ c.target = n
    <3>1. candidate(g, d) \in ofGroup(g)
      BY <1>2, <2>2
    <3> HIDE DEF ofGroup
    <3> QED BY <1>3, <1>4, <2>2, <3>1
  <2> HIDE DEF ofGroup
  <2> QED BY <2>1, <2>2
<1> HIDE DEF ofGroup
<1> QED BY <1>1, <1>6

(* Two targets list a domain just if there is a warning about it. *)
LEMMA DomainConflicts ==
  ASSUME domains \in FileOf(Seq(Labels)), NEW d \in Seq(Labels)
  PROVE  Cardinality({c.target : c \in {x \in DomainCandidates(Now, d) : x.exact}}) > 1 <=>
           ConflictAbout(Routed(domains, Values(domains)), d)
<1> DEFINE K == Seq(Labels)
           R == [key : K, target : Targets]
           list == Routed(domains, Values(domains))
           named == {c.target : c \in {x \in DomainCandidates(Now, d) : x.exact}}
           Has(i, n) == list[i].key = d /\ list[i].target = n
<1>1. list \in Seq(R)
  BY RoutedFacts
<1>2. \A n : (\E i \in DOMAIN list : Has(i, n)) <=> \E g \in Enabled(domains) : g.target = n /\ d \in ToSet(g.values)
  BY RoutedFacts
<1>3. \A n : n \in named <=> \E g \in Enabled(domains) : g.target = n /\ d \in ToSet(g.values)
  BY ExactTargets
<1> HIDE DEF list, named
<1>4. \A n : n \in named <=> \E i \in DOMAIN list : Has(i, n)
  <2> HIDE DEF Has
  <2> QED BY <1>2, <1>3
<1>5. named \subseteq Targets
  <2> SUFFICES ASSUME NEW n \in named PROVE n \in Targets
    OBVIOUS
  <2>1. PICK i \in DOMAIN list : list[i].target = n
    BY <1>4
  <2>2. list[i] \in R
    <3> HIDE DEF R
    <3> QED BY <1>1
  <2> QED BY <2>1, <2>2
<1>6. IsFiniteSet(named)
  BY <1>5, TargetsFinite, FS_Subset
<1>7. Cardinality(named) > 1 <=> \E m, n \in named : m # n
  BY <1>6, MoreThanOne
<1>8. (\E m, n \in named : m # n) <=> TwoTargets(list, d)
  <2>1. ASSUME NEW m \in named, NEW n \in named, m # n
        PROVE  \E i, j \in DOMAIN list : list[i].key = d /\ list[j].key = d /\ list[i].target # list[j].target
    <3>1. PICK i \in DOMAIN list : Has(i, m)
      BY <1>4
    <3>2. PICK j \in DOMAIN list : Has(j, n)
      BY <1>4
    <3> QED BY <2>1, <3>1, <3>2
  <2>2. ASSUME NEW i \in DOMAIN list, NEW j \in DOMAIN list,
               list[i].key = d, list[j].key = d, list[i].target # list[j].target
        PROVE  \E m, n \in named : m # n
    BY <1>4, <2>2
  <2> QED BY <2>1, <2>2 DEF TwoTargets
<1>9. ConflictAbout(list, d) <=> TwoTargets(list, d)
  <2>1. list \in Seq([key : Seq(Labels), target : Targets])
    BY <1>1
  <2> HIDE DEF K, R, Has
  <2> QED BY <2>1, ConflictOfKey
<1> QED BY <1>7, <1>8, <1>9 DEF list, named

(* The targets whose entries hold an address. *)
TargetsHolding(list, a) == {list[i].target : i \in {k \in DOMAIN list : Holds(PrefixOf(list[k].key), a)}}

(* The targets of the candidates for an address are those whose entries     *)
(* hold it.                                                                 *)
LEMMA EntryTargets ==
  ASSUME blocks \in FileOf(CIDRs), NEW a
  PROVE  {c.target : c \in CIDRCandidates(Now, a)} = TargetsHolding(Routed(blocks, Values(blocks)), a)
<1> DEFINE list == Routed(blocks, Values(blocks))
<1>1. \A n : (\E c \in CIDRCandidates(Now, a) : c.target = n) <=>
               \E b \in Enabled(blocks) :
                 b.target = n /\ \E c \in ToSet(b.values) : Holds(Masked(IP(c.ip), c.bits), a)
  BY RoutedByEntry
<1>2. \A key, n : (\E i \in DOMAIN list : list[i].key = key /\ list[i].target = n)
                    <=> \E b \in Enabled(blocks) : b.target = n /\ key \in ToSet(b.values)
  BY RoutedFacts
<1> HIDE DEF list
<1>3. \A n : (\E b \in Enabled(blocks) : b.target = n /\ \E c \in ToSet(b.values) : Holds(PrefixOf(c), a))
               <=> \E i \in DOMAIN list : list[i].target = n /\ Holds(PrefixOf(list[i].key), a)
  <2> TAKE n
  <2>1. ASSUME NEW b \in Enabled(blocks), b.target = n, NEW c \in ToSet(b.values), Holds(PrefixOf(c), a)
        PROVE  \E i \in DOMAIN list : list[i].target = n /\ Holds(PrefixOf(list[i].key), a)
    <3>1. PICK i \in DOMAIN list : list[i].key = c /\ list[i].target = n
      BY <1>2, <2>1
    <3> QED BY <2>1, <3>1
  <2>2. ASSUME NEW i \in DOMAIN list, list[i].target = n, Holds(PrefixOf(list[i].key), a)
        PROVE  \E b \in Enabled(blocks) : b.target = n /\ \E c \in ToSet(b.values) : Holds(PrefixOf(c), a)
    <3>1. PICK b \in Enabled(blocks) : b.target = n /\ list[i].key \in ToSet(b.values)
      BY <1>2, <2>2
    <3> QED BY <2>2, <3>1
  <2> QED BY <2>1, <2>2
<1>4. \A n : (\E c \in CIDRCandidates(Now, a) : c.target = n)
               <=> \E i \in DOMAIN list : list[i].target = n /\ Holds(PrefixOf(list[i].key), a)
  BY <1>1, <1>3 DEF PrefixOf
<1> QED BY <1>4 DEF TargetsHolding, list

(* A conflict about the prefixes of ip.list, of either order. *)
Clash(list, i, j) ==
  list[i].target # list[j].target /\ Overlap(PrefixOf(list[i].key), PrefixOf(list[j].key))

(* The warnings about prefixes name the targets of each clash. *)
LEMMA EntryConflicts ==
  ASSUME NEW S, NEW list \in Seq(S), list = Routed(blocks, Values(blocks))
  PROVE  {{x.prev, x.target} : x \in {y \in EntryIssues(blocks) : y.code = "conflicting"}} =
           {{list[p[1]].target, list[p[2]].target} :
              p \in {q \in (DOMAIN list) \X (DOMAIN list) : Clash(list, q[1], q[2])}}
<1> DEFINE prefix(i) == Masked(IP(list[i].key.ip), list[i].key.bits)
           code(p) == IF list[p[1]].target # list[p[2]].target THEN "conflicting"
                      ELSE IF prefix(p[1]) = prefix(p[2]) THEN "duplicate" ELSE "overlapping"
           overlapping == {p \in Pairs(list) : Overlap(prefix(p[2]), prefix(p[1]))}
           issue(p) == Issue(code(p), list[p[1]], list[p[2]])
           warned == {y \in EntryIssues(blocks) : y.code = "conflicting"}
           both(p) == {list[p[1]].target, list[p[2]].target}
           named(x) == {x.prev, x.target}
           clashes == {q \in (DOMAIN list) \X (DOMAIN list) : Clash(list, q[1], q[2])}
<1>1. EntryIssues(blocks) = {issue(p) : p \in overlapping}
  BY DEF EntryIssues
<1>2. \A p : issue(p).code = code(p) /\ issue(p).prev = list[p[1]].target /\ issue(p).target = list[p[2]].target
  BY DEF Issue
<1>3. DOMAIN list \subseteq Nat
  OBVIOUS
<1>4. \A i : prefix(i) = PrefixOf(list[i].key)
  BY DEF PrefixOf
<1>5. \A p \in overlapping : p \in (DOMAIN list) \X (DOMAIN list) /\ Overlap(prefix(p[2]), prefix(p[1]))
  BY DEF Pairs
<1>6. \A i, j \in DOMAIN list : i < j /\ Overlap(prefix(j), prefix(i)) => <<i, j>> \in overlapping
  BY DEF Pairs
<1>7. \A p, q : Overlap(p, q) <=> Overlap(q, p)
  BY DEF Overlap
<1> HIDE DEF prefix, issue, overlapping
<1>8. ASSUME NEW x \in warned PROVE \E p \in clashes : named(x) = both(p)
  <2>1. PICK p \in overlapping : x = issue(p)
    BY <1>1
  <2>2. code(p) = "conflicting"
    BY <1>2, <2>1
  <2>3. list[p[1]].target # list[p[2]].target
    BY <2>2
  <2>4. p \in clashes
    BY <1>4, <1>5, <1>7, <2>3 DEF Clash
  <2> HIDE DEF clashes
  <2> QED BY <1>2, <2>1, <2>4
<1>9. ASSUME NEW p \in clashes PROVE \E x \in warned : named(x) = both(p)
  <2>1. PICK i \in DOMAIN list, j \in DOMAIN list : p = <<i, j>>
    OBVIOUS
  <2>2. Clash(list, i, j)
    BY <2>1
  <2>3. list[i].target # list[j].target /\ Overlap(prefix(i), prefix(j)) /\ Overlap(prefix(j), prefix(i))
    BY <1>4, <1>7, <2>2 DEF Clash
  <2>4. i \in Nat /\ j \in Nat /\ i # j
    BY <1>3, <2>3
  <2>5. PICK q \in {<<i, j>>, <<j, i>>} : q \in overlapping
    <3>1. CASE i < j
      BY <1>6, <2>3, <3>1
    <3>2. CASE j < i
      BY <1>6, <2>3, <3>2
    <3> QED BY <2>4, <3>1, <3>2
  <2>6. both(q) = both(p) /\ list[q[1]].target # list[q[2]].target
    <3>1. CASE q = <<i, j>>
      BY <2>1, <2>3, <3>1
    <3>2. CASE q = <<j, i>>
      BY <2>1, <2>3, <3>2
    <3> QED BY <2>5, <3>1, <3>2
  <2>7. issue(q) \in warned
    <3>1. code(q) = "conflicting"
      BY <2>6
    <3> HIDE DEF code
    <3> QED BY <1>1, <1>2, <2>5, <3>1
  <2>8. named(issue(q)) = both(q)
    BY <1>2
  <2> HIDE DEF warned, both, named
  <2> QED BY <2>6, <2>7, <2>8
<1> HIDE DEF warned, clashes
<1>10. {named(x) : x \in warned} = {both(p) : p \in clashes}
  <2> HIDE DEF both, named
  <2> QED BY <1>8, <1>9
<1> QED BY <1>10 DEF warned, clashes

(* Two targets have entries that overlap just where an address of the size  *)
(* of some entry is in entries of both.                                     *)
LEMMA ClashesAreShared ==
  ASSUME NEW R, \A e \in R : e.key \in Valid, NEW list \in Seq(R), NEW i \in DOMAIN list, NEW j \in DOMAIN list
  PROVE  Overlap(PrefixOf(list[i].key), PrefixOf(list[j].key)) <=>
           \E a \in AllAddresses :
             /\ a.size = Len(list[i].key.ip)
             /\ Holds(PrefixOf(list[i].key), a) /\ Holds(PrefixOf(list[j].key), a)
<1>1. list[i].key \in Valid /\ list[j].key \in Valid
  <2>1. list[i] \in R /\ list[j] \in R
    OBVIOUS
  <2> QED BY <2>1
<1> QED BY <1>1, OverlapMeansShared

(* The targets that clash are those that share an address. *)
LEMMA ClashPairs ==
  ASSUME NEW R, \A e \in R : e.key \in Valid /\ e.target \in Targets, NEW list \in Seq(R)
  PROVE  {{list[p[1]].target, list[p[2]].target} :
              p \in {q \in (DOMAIN list) \X (DOMAIN list) : Clash(list, q[1], q[2])}} =
           {both \in SUBSET Targets :
              /\ Cardinality(both) = 2
              /\ \E a \in {b \in AllAddresses : \E i \in DOMAIN list : Len(list[i].key.ip) = b.size} :
                   both \subseteq TargetsHolding(list, a)}
<1> DEFINE clashes == {q \in (DOMAIN list) \X (DOMAIN list) : Clash(list, q[1], q[2])}
           asked == {b \in AllAddresses : \E i \in DOMAIN list : Len(list[i].key.ip) = b.size}
           pair(p) == {list[p[1]].target, list[p[2]].target}
           shared(both) == \E a \in asked : both \subseteq TargetsHolding(list, a)
<1>0. \A i \in DOMAIN list : list[i].key \in Valid /\ list[i].target \in Targets
  <2>1. \A i \in DOMAIN list : list[i] \in R
    OBVIOUS
  <2> QED BY <2>1
<1>1. ASSUME NEW p \in clashes PROVE pair(p) \in SUBSET Targets /\ Cardinality(pair(p)) = 2 /\ shared(pair(p))
  <2>1. PICK i \in DOMAIN list, j \in DOMAIN list : p = <<i, j>>
    OBVIOUS
  <2>2. list[i].target # list[j].target /\ Overlap(PrefixOf(list[i].key), PrefixOf(list[j].key))
    BY <2>1 DEF Clash
  <2>3. pair(p) = {list[i].target, list[j].target}
    BY <2>1
  <2>4. Cardinality(pair(p)) = 2
    BY <2>2, <2>3, PairSize
  <2>5. PICK a \in AllAddresses :
          /\ a.size = Len(list[i].key.ip)
          /\ Holds(PrefixOf(list[i].key), a) /\ Holds(PrefixOf(list[j].key), a)
    BY <2>2, ClashesAreShared
  <2>6. a \in asked
    BY <2>5
  <2>7. list[i].target \in TargetsHolding(list, a) /\ list[j].target \in TargetsHolding(list, a)
    BY <2>5 DEF TargetsHolding
  <2> HIDE DEF pair, asked
  <2>8. pair(p) \subseteq TargetsHolding(list, a)
    BY <2>3, <2>7
  <2> QED BY <1>0, <2>3, <2>4, <2>6, <2>8
<1>2. ASSUME NEW both \in SUBSET Targets, Cardinality(both) = 2, shared(both) PROVE \E p \in clashes : pair(p) = both
  <2>1. IsFiniteSet(both)
    BY TargetsFinite, FS_Subset
  <2>2. PICK m \in both, n \in both : m # n /\ both = {m, n}
    BY <1>2, <2>1, SetOfTwo
  <2>3. PICK a \in asked : both \subseteq TargetsHolding(list, a)
    BY <1>2
  <2>4. PICK i \in DOMAIN list : list[i].target = m /\ Holds(PrefixOf(list[i].key), a)
    BY <2>3 DEF TargetsHolding
  <2>5. PICK j \in DOMAIN list : list[j].target = n /\ Holds(PrefixOf(list[j].key), a)
    BY <2>3 DEF TargetsHolding
  <2>6. a.size = Len(list[i].key.ip)
    <3>1. PrefixOf(list[i].key).size = Len(list[i].key.ip)
      BY DEF PrefixOf, Masked, IP
    <3> QED BY <2>4, <3>1 DEF Holds
  <2>7. Overlap(PrefixOf(list[i].key), PrefixOf(list[j].key))
    <3>1. a \in AllAddresses
      OBVIOUS
    <3> QED BY <2>4, <2>5, <2>6, <3>1, ClashesAreShared
  <2>8. Clash(list, i, j)
    BY <2>2, <2>4, <2>5, <2>7 DEF Clash
  <2>9. <<i, j>> \in clashes /\ pair(<<i, j>>) = {m, n}
    BY <2>4, <2>5, <2>8
  <2> HIDE DEF clashes, pair
  <2> QED BY <2>2, <2>9
<1> HIDE DEF clashes, pair, shared
<1>3. {pair(p) : p \in clashes} = {both \in SUBSET Targets : Cardinality(both) = 2 /\ shared(both)}
  BY <1>1, <1>2
<1> QED BY <1>3 DEF clashes, pair, shared

(* The entries of ip.list are prefixes. *)
BlocksAreValid == blocks \in FileOf(Valid)

(* A block of the code is one of prefixes. *)
LEMMA ValidBlock ==
  ASSUME NEW b \in Blocks
  PROVE  b \in GroupsOf(Valid)
<1>1. b \in GroupsOf(CIDRs)
  BY DiagnosisAssumption DEF PrefixBlocks, CIDRs
<1>2. b.values \in Seq(CIDRs)
  BY <1>1 DEF GroupsOf
<1>3. ASSUME NEW k \in DOMAIN b.values PROVE b.values[k] \in Valid
  <2>1. b.values[k] \in CIDRs
    BY <1>2
  <2>2. b.values[k] \in ToSet(b.values)
    BY DEF ToSet
  <2> QED BY <2>1, <2>2, BlocksAssumption DEF Valid
<1>4. b.values \in Seq(Valid)
  BY <1>2, <1>3
<1> QED BY <1>1, <1>4 DEF GroupsOf

(* Whatever others do to the rules, the entries are prefixes. *)
LEMMA ValidStep ==
  ASSUME BlocksAreValid, RuleNext
  PROVE  BlocksAreValid'
<1>1. ASSUME NEW g \in DomainGroups, AddDomains(g) PROVE BlocksAreValid'
  BY <1>1 DEF AddDomains, BlocksAreValid
<1>2. ASSUME NEW b \in Blocks, AddBlock(b) PROVE BlocksAreValid'
  BY <1>2, ValidBlock, GroupsType DEF AddBlock, BlocksAreValid
<1>3. ASSUME NEW i \in DOMAIN Groups(domains), EditDomains(i) PROVE BlocksAreValid'
  BY <1>3 DEF EditDomains, BlocksAreValid
<1>4. ASSUME NEW i \in DOMAIN Groups(blocks), EditBlocks(i) PROVE BlocksAreValid'
  <2>1. RemoveAt(blocks, i) \in FileOf(Valid) /\ [blocks EXCEPT ![i].enabled = ~@] \in FileOf(Valid)
    BY GroupsType DEF BlocksAreValid
  <2> QED BY <1>4, <2>1 DEF EditBlocks, BlocksAreValid
<1>5. ASSUME NEW o \in PolicyOrders, SetOrder(o) PROVE BlocksAreValid'
  BY <1>5 DEF SetOrder, BlocksAreValid
<1> QED BY <1>1, <1>2, <1>3, <1>4, <1>5 DEF RuleNext

(* The warnings are the conflicts in every state in which the entries are   *)
(* prefixes.                                                                *)
LEMMA WarningsAreConflictsAlways ==
  ASSUME TypeOK, BlocksAreValid
  PROVE  WarningsAreConflicts
<1> DEFINE list == Routed(blocks, Values(blocks))
           R == [key : Valid, target : Targets]
           asked == {a \in AllAddresses : \E i \in DOMAIN list : Len(list[i].key.ip) = a.size}
           targets(a) == {c.target : c \in CIDRCandidates(Now, a)}
           routes == {targets(a) : a \in asked}
           warned == {{x.prev, x.target} : x \in {y \in EntryIssues(blocks) : y.code = "conflicting"}}
           shared == {both \in SUBSET Targets : Cardinality(both) = 2 /\ \E some \in routes : both \subseteq some}
           exact(d) == {x \in DomainCandidates(Now, d) : x.exact}
           conflicts(issues) == {x \in issues : x.code = "conflicting"}
<1>1. domains \in FileOf(Seq(Labels)) /\ blocks \in FileOf(CIDRs)
  BY TypeIs
<1>2. ASSUME NEW d \in Domains
      PROVE  Cardinality({c.target : c \in exact(d)}) > 1 <=>
               \E x \in conflicts(Repeated(Routed(domains, Values(domains)))) : x.key = d
  <2>1. d \in Seq(Labels)
    BY DiagnosisAssumption
  <2>2. Cardinality({c.target : c \in exact(d)}) > 1 <=> ConflictAbout(Routed(domains, Values(domains)), d)
    BY <1>1, <2>1, DomainConflicts
  <2> QED BY <2>2 DEF ConflictAbout
<1>3. list \in Seq(R)
  BY RoutedFacts DEF BlocksAreValid
<1>4. \A e \in R : e.key \in Valid /\ e.target \in Targets
  OBVIOUS
<1>5. \A a : targets(a) = TargetsHolding(list, a)
  BY <1>1, EntryTargets
<1> HIDE DEF list, R, targets
<1>6. warned = {{list[p[1]].target, list[p[2]].target} :
                  p \in {q \in (DOMAIN list) \X (DOMAIN list) : Clash(list, q[1], q[2])}}
  BY <1>3, EntryConflicts DEF list
<1>7. {{list[p[1]].target, list[p[2]].target} :
                  p \in {q \in (DOMAIN list) \X (DOMAIN list) : Clash(list, q[1], q[2])}} =
        {both \in SUBSET Targets :
              /\ Cardinality(both) = 2
              /\ \E a \in {b \in AllAddresses : \E i \in DOMAIN list : Len(list[i].key.ip) = b.size} :
                   both \subseteq TargetsHolding(list, a)}
  BY <1>3, <1>4, ClashPairs
<1>8. shared = {both \in SUBSET Targets :
              /\ Cardinality(both) = 2
              /\ \E a \in {b \in AllAddresses : \E i \in DOMAIN list : Len(list[i].key.ip) = b.size} :
                   both \subseteq TargetsHolding(list, a)}
  BY <1>5
<1>9. warned = shared
  <2> HIDE DEF warned, shared
  <2> QED BY <1>6, <1>7, <1>8
<1> QED BY <1>2, <1>9 DEF WarningsAreConflicts, list, targets

(* validateDomainConfigDeep warns of a conflict about a domain just if two  *)
(* targets list it, and validateCIDRConfigDeep of one between two targets   *)
(* just if some address is in prefixes of both.                             *)
THEOREM ConflictsAreWarnedOf == Spec => []WarningsAreConflicts
<1>1. Init => BlocksAreValid
  <2>1. <<>> \in Seq(GroupsOf(Valid))
    OBVIOUS
  <2> QED BY <2>1 DEF Init, RuleInit, BlocksAreValid, FileOf
<1>2. BlocksAreValid /\ [Next]_diagVars => BlocksAreValid'
  <2> SUFFICES ASSUME BlocksAreValid, [Next]_diagVars PROVE BlocksAreValid'
    OBVIOUS
  <2>1. CASE RuleNext
    BY <2>1, ValidStep
  <2>2. CASE UNCHANGED ruleVars
    BY <2>2 DEF BlocksAreValid, ruleVars
  <2>3. CASE UNCHANGED diagVars
    BY <2>2, <2>3 DEF diagVars
  <2> QED BY <2>1, <2>2, <2>3 DEF Next
<1>3. TypeOK /\ BlocksAreValid => WarningsAreConflicts
  BY WarningsAreConflictsAlways
<1> QED BY <1>1, <1>2, <1>3, TypeCorrect, PTL DEF Spec
=============================================================================
