------------------------ MODULE HRNeoSettingsProofs ------------------------
(***************************************************************************)
(* Proofs about HRNeoSettings, for every set of keys, of words and of      *)
(* texts: what the parser reads is what the lines say (ParseIs), what is   *)
(* written reads back as what was meant (WrittenReads), and the three      *)
(* properties of the requests that rest on it.                             *)
(***************************************************************************)
EXTENDS HRNeoSettings, ListFacts

(***************************************************************************)
(* Lines, and the values they give a key.                                  *)
(***************************************************************************)

OfKey(k) == [l \in Lines |-> IF l.key = k THEN <<l.val>> ELSE <<>>]

Vals(ls, k) == MapFlat(OfKey(k), ls)

ReadVals(vals, k) ==
  IF vals = <<>> THEN <<>>
  ELSE IF Kind[k] = "list" THEN <<[i \in DOMAIN vals |-> Trim[vals[i]]]>>
  ELSE Value(k, Last(vals), <<>>)

Others == ToSet(OtherKeys) \cup {NoName}

(* What the parser should read of lines. *)
ReadOf(ls) ==
  [cfg |-> [k \in Keys |-> ReadVals(Vals(ls, k), k)],
   unknown |-> [k \in {o \in Others : Vals(ls, o) # <<>>} |-> Trim[Last(Vals(ls, k))]]]

LEMMA KindsApart ==
  /\ Names = Keys \cup Others /\ Keys \cap Others = {}
  /\ Note.key \notin Names /\ NoName \in Others
  /\ OrderKey \in Keys /\ \A k \in Keys : Kind[k] = "order" <=> k = OrderKey
  /\ \A k \in Keys : Kind[k] \in {"bool", "int", "positive", "mode", "text", "list", "order"}
<1>1. OrderKey \in Keys /\ \A k \in Keys : Kind[k] = "order" <=> k = OrderKey
  <2>1. PICK j \in Keys : {i \in Keys : Kind[i] = "order"} = {j}
    BY KeysAssumption
  <2>2. OrderKey \in Keys /\ Kind[OrderKey] = "order"
    BY <2>1 DEF OrderKey
  <2> QED BY <2>1, <2>2
<1> QED BY <1>1, KeysAssumption DEF Names, Others, Note, NoName

LEMMA LineFacts ==
  ASSUME NEW l \in Lines
  PROVE  \/ l = Note /\ l.key \notin Names
         \/ /\ l # Note /\ l.key \in Names /\ l.val \in Said(l.key)
            /\ l = [key |-> l.key, val |-> l.val]
<1>1. CASE l = Note
  BY <1>1, KindsApart
<1>2. CASE l # Note
  <2>1. PICK k \in Names : l \in [key : {k}, val : Said(k)]
    BY <1>2 DEF Lines
  <2> QED BY <1>2, <2>1
<1> QED BY <1>1, <1>2

LEMMA MakeLine ==
  ASSUME NEW k \in Names, NEW v \in Said(k)
  PROVE  [key |-> k, val |-> v] \in Lines
BY DEF Lines

LEMMA OfKeyType ==
  ASSUME NEW k \in Names
  PROVE  OfKey(k) \in [Lines -> Seq(Said(k))]
<1> SUFFICES ASSUME NEW l \in Lines
             PROVE  (IF l.key = k THEN <<l.val>> ELSE <<>>) \in Seq(Said(k))
  BY DEF OfKey
<1>1. CASE l.key = k
  <2>1. l.val \in Said(k)
    BY <1>1, LineFacts
  <2> DEFINE S == Said(k)
             v == l.val
  <2> HIDE DEF S, v
  <2>2. v \in S => <<v>> \in Seq(S)
    OBVIOUS
  <2> QED BY <1>1, <2>1, <2>2 DEF S, v
<1>2. CASE l.key # k
  BY <1>2
<1> QED BY <1>1, <1>2

LEMMA ValsFacts ==
  ASSUME NEW k \in Names
  PROVE  /\ Vals(<<>>, k) = <<>>
         /\ \A ls \in Seq(Lines) :
              /\ Vals(ls, k) \in Seq(Said(k))
              /\ \A l \in Lines : Vals(Append(ls, l), k)
                                    = IF l.key = k THEN Append(Vals(ls, k), l.val) ELSE Vals(ls, k)
              /\ \A more \in Seq(Lines) : Vals(ls \o more, k) = Vals(ls, k) \o Vals(more, k)
<1>1. Vals(<<>>, k) = <<>>
  BY MapFlatEmpty DEF Vals
<1>2. ASSUME NEW ls \in Seq(Lines) PROVE Vals(ls, k) \in Seq(Said(k))
  BY OfKeyType, MapFlatType DEF Vals
<1>3. ASSUME NEW ls \in Seq(Lines), NEW l \in Lines
      PROVE  Vals(Append(ls, l), k)
               = IF l.key = k THEN Append(Vals(ls, k), l.val) ELSE Vals(ls, k)
  <2>1. Vals(Append(ls, l), k) = Vals(ls, k) \o OfKey(k)[l]
    BY OfKeyType, MapFlatAppend DEF Vals
  <2>2. OfKey(k)[l] = IF l.key = k THEN <<l.val>> ELSE <<>>
    BY DEF OfKey
  <2> DEFINE S == Said(k)
             vals == Vals(ls, k)
  <2>3. vals \in Seq(S)
    BY <1>2
  <2>4. CASE l.key = k
    <3>1. l.val \in S
      BY <2>4, LineFacts
    <3> DEFINE v == l.val
    <3> HIDE DEF S, vals, v
    <3>2. v \in S => vals \o <<v>> = Append(vals, v)
      BY <2>3
    <3> QED BY <2>1, <2>2, <2>4, <3>1, <3>2 DEF vals, v
  <2>5. CASE l.key # k
    <3> HIDE DEF S, vals
    <3>1. vals \o <<>> = vals
      BY <2>3
    <3> QED BY <2>1, <2>2, <2>5, <3>1 DEF vals
  <2> QED BY <2>4, <2>5
<1>4. ASSUME NEW ls \in Seq(Lines), NEW more \in Seq(Lines)
      PROVE  Vals(ls \o more, k) = Vals(ls, k) \o Vals(more, k)
  BY OfKeyType, MapFlatConcat DEF Vals
<1> QED BY <1>1, <1>2, <1>3, <1>4

LEMMA ValuesAre ==
  ASSUME NEW text, text.lines \in Seq(Lines), NEW k
  PROVE  ValuesOf(text, k) = Vals(text.lines, k) /\ Reads(text, k) = ReadVals(Vals(text.lines, k), k)
<1> DEFINE ls == text.lines
<1>1. MapSeq(OfKey(k), ls) = [i \in DOMAIN ls |-> IF ls[i].key = k THEN <<ls[i].val>> ELSE <<>>]
  <2>1. \A i \in DOMAIN ls : ls[i] \in Lines
    OBVIOUS
  <2> QED BY <2>1 DEF MapSeq, OfKey
<1>2. ValuesOf(text, k) = Vals(ls, k)
  BY <1>1 DEF ValuesOf, Vals, MapFlat
<1> QED BY <1>2 DEF Reads, ReadVals

(***************************************************************************)
(* The parser.                                                             *)
(***************************************************************************)

LEMMA ReadOneMore ==
  ASSUME NEW k \in Keys, NEW vals \in Seq(Said(k)), NEW v \in Said(k)
  PROVE  ReadVals(Append(vals, v), k) = Value(k, v, ReadVals(vals, k))
<1> DEFINE S == Said(k)
<1>1. vals \in Seq(S) /\ v \in S
  OBVIOUS
<1>2. Append(vals, v) # <<>> /\ Last(Append(vals, v)) = v
  <2> HIDE DEF S
  <2> QED BY <1>1 DEF Last
<1>3. CASE Kind[k] = "list"
  <2>1. S = Plain /\ Plain \subseteq Words /\ Trim \in [Words -> Words]
    BY <1>3, KindsApart, WordsAssumption DEF Said, Plain
  <2>2. vals \in Seq(Words) /\ v \in Words
    BY <1>1, <2>1
  <2>3. MapSeq(Trim, Append(vals, v)) = Append(MapSeq(Trim, vals), Trim[v])
        /\ MapSeq(Trim, vals) \in Seq(Words) /\ Trim[v] \in Words
    BY <2>1, <2>2, MapAppend
  <2>4. ReadVals(Append(vals, v), k) = <<MapSeq(Trim, Append(vals, v))>>
    BY <1>2, <1>3 DEF ReadVals, MapSeq
  <2>5. Value(k, v, ReadVals(vals, k)) = <<Added(ReadVals(vals, k), Trim[v])>>
    BY <1>3 DEF Value
  <2>6. CASE vals = <<>>
    <3>1. MapSeq(Trim, vals) = <<>> /\ ReadVals(vals, k) = <<>>
      BY <2>6 DEF MapSeq, ReadVals
    <3>2. Added(<<>>, Trim[v]) = <<>> \o <<Trim[v]>>
      BY DEF Added
    <3>3. <<>> \o <<Trim[v]>> = Append(<<>>, Trim[v])
      BY <2>3
    <3> QED BY <2>3, <2>4, <2>5, <3>1, <3>2, <3>3
  <2>7. CASE vals # <<>>
    <3>1. ReadVals(vals, k) = <<MapSeq(Trim, vals)>>
      BY <1>3, <2>7 DEF ReadVals, MapSeq
    <3>2. Added(<<MapSeq(Trim, vals)>>, Trim[v]) = MapSeq(Trim, vals) \o <<Trim[v]>>
      BY DEF Added
    <3>3. MapSeq(Trim, vals) \o <<Trim[v]>> = Append(MapSeq(Trim, vals), Trim[v])
      BY <2>3
    <3> QED BY <2>3, <2>4, <2>5, <3>1, <3>2, <3>3
  <2> QED BY <2>6, <2>7
<1>4. CASE Kind[k] # "list"
  <2>1. ReadVals(Append(vals, v), k) = Value(k, v, <<>>)
    BY <1>2, <1>4 DEF ReadVals
  <2>2. \A b, c : Value(k, v, b) = Value(k, v, c)
    BY <1>4, KindsApart DEF Value
  <2> QED BY <2>1, <2>2
<1> QED BY <1>3, <1>4

LEMMA ReadStep ==
  ASSUME NEW ls \in Seq(Lines), NEW l \in Lines
  PROVE  SetLine(ReadOf(ls), l) = ReadOf(Append(ls, l))
<1> DEFINE more == Append(ls, l)
           was == ReadOf(ls)
<1>0. more \in Seq(Lines)
  OBVIOUS
<1>1. \A k \in Names : l.key # k => Vals(more, k) = Vals(ls, k)
  BY ValsFacts
<1>2. l.key \in Names => Vals(more, l.key) = Append(Vals(ls, l.key), l.val)
                         /\ Vals(ls, l.key) \in Seq(Said(l.key)) /\ l.val \in Said(l.key)
  BY ValsFacts, LineFacts
<1>3. \A k \in Keys \cup Others : k \in Names
  BY KindsApart
<1> HIDE DEF more
<1>4. CASE l = Note
  <2>1. l.key \notin Names
    BY <1>4, LineFacts
  <2>2. \A k \in Keys \cup Others : Vals(more, k) = Vals(ls, k)
    BY <1>1, <1>3, <2>1
  <2>3. ReadOf(more) = ReadOf(ls)
    BY <2>2 DEF ReadOf
  <2>4. SetLine(was, l) = was
    <3>1. l.key \notin Keys
      BY <2>1, KindsApart
    <3> HIDE DEF was
    <3> QED BY <1>4, <3>1 DEF SetLine
  <2> QED BY <2>3, <2>4 DEF more
<1>5. CASE l # Note /\ l.key \in Keys
  <2> DEFINE j == l.key
  <2>1. SetLine(was, l) = [was EXCEPT !.cfg[j] = Value(j, l.val, @)]
    BY <1>5 DEF SetLine
  <2>2. \A k \in (Keys \cup Others) \ {j} : Vals(more, k) = Vals(ls, k)
    BY <1>1, <1>3
  <2>3. j \notin Others
    BY <1>5, KindsApart
  <2>4. ReadVals(Vals(more, j), j) = Value(j, l.val, ReadVals(Vals(ls, j), j))
    BY <1>2, <1>3, <1>5, ReadOneMore
  <2>5. [k \in Keys |-> ReadVals(Vals(more, k), k)]
          = [[k \in Keys |-> ReadVals(Vals(ls, k), k)] EXCEPT ![j] = Value(j, l.val, @)]
    BY <1>5, <2>2, <2>4
  <2>6. {o \in Others : Vals(more, o) # <<>>} = {o \in Others : Vals(ls, o) # <<>>}
    BY <2>2, <2>3
  <2>7. [k \in {o \in Others : Vals(more, o) # <<>>} |-> Trim[Last(Vals(more, k))]]
          = [k \in {o \in Others : Vals(ls, o) # <<>>} |-> Trim[Last(Vals(ls, k))]]
    BY <2>2, <2>3, <2>6
  <2> HIDE DEF j
  <2> QED BY <2>1, <2>5, <2>7 DEF ReadOf, more
<1>6. CASE l # Note /\ l.key \notin Keys
  <2> DEFINE j == l.key
  <2>1. SetLine(was, l) = [was EXCEPT !.unknown = [k \in DOMAIN @ \cup {j} |->
                                                      IF k = j THEN Trim[l.val] ELSE @[k]]]
    BY <1>6 DEF SetLine
  <2>2. j \in Others
    BY <1>6, LineFacts, KindsApart
  <2>3. \A k \in (Keys \cup Others) \ {j} : Vals(more, k) = Vals(ls, k)
    BY <1>1, <1>3
  <2>4. Vals(more, j) # <<>> /\ Last(Vals(more, j)) = l.val
    <3>1. j \in Names
      BY <1>3, <2>2
    <3> DEFINE S == Said(j)
               vals == Vals(ls, j)
               v == l.val
    <3>2. vals \in Seq(S) /\ v \in S /\ Vals(more, j) = Append(vals, v)
      BY <1>2, <3>1
    <3> HIDE DEF S, vals, v, j
    <3> QED BY <3>2 DEF Last, v
  <2>5. {o \in Others : Vals(more, o) # <<>>} = {o \in Others : Vals(ls, o) # <<>>} \cup {j}
    BY <2>2, <2>3, <2>4
  <2>6. [k \in {o \in Others : Vals(more, o) # <<>>} |-> Trim[Last(Vals(more, k))]]
          = [k \in {o \in Others : Vals(ls, o) # <<>>} \cup {j} |->
               IF k = j THEN Trim[l.val]
               ELSE [o \in {o \in Others : Vals(ls, o) # <<>>} |-> Trim[Last(Vals(ls, o))]][k]]
    BY <2>3, <2>4, <2>5
  <2>7. [k \in Keys |-> ReadVals(Vals(more, k), k)] = [k \in Keys |-> ReadVals(Vals(ls, k), k)]
    BY <1>6, <2>3
  <2> DEFINE cfg == [k \in Keys |-> ReadVals(Vals(ls, k), k)]
             old == [k \in {o \in Others : Vals(ls, o) # <<>>} |-> Trim[Last(Vals(ls, k))]]
             new == [k \in {o \in Others : Vals(ls, o) # <<>>} \cup {j} |->
                       IF k = j THEN Trim[l.val] ELSE old[k]]
  <2>8. was = [cfg |-> cfg, unknown |-> old]
    BY DEF ReadOf
  <2>9. ReadOf(more) = [cfg |-> cfg, unknown |-> new]
    BY <2>6, <2>7 DEF ReadOf
  <2>10. DOMAIN old = {o \in Others : Vals(ls, o) # <<>>}
    OBVIOUS
  <2>11. [k \in DOMAIN old \cup {j} |-> IF k = j THEN Trim[l.val] ELSE old[k]] = new
    BY <2>10
  <2>12. SetLine(was, l) = [was EXCEPT !.unknown = new]
    <3> HIDE DEF cfg, old, new, j
    <3> QED BY <2>1, <2>8, <2>11
  <2> HIDE DEF cfg, old, new, j, was
  <2>13. SetLine(was, l) = [cfg |-> cfg, unknown |-> new]
    BY <2>8, <2>12
  <2> QED BY <2>9, <2>13 DEF more, was
<1> QED BY <1>4, <1>5, <1>6

(* What the parser reads is what the lines say.                             *)
LEMMA ParseIs ==
  ASSUME NEW text, text.lines \in Seq(Lines)
  PROVE  Parse(text) = ReadOf(text.lines)
<1> DEFINE ls == text.lines
           N == Len(ls)
           Step(r) == [n \in 0..N |-> IF n = 0 THEN NothingRead ELSE SetLine(r[n - 1], ls[n])]
           upto == [n \in 0..N |-> ReadOf(SubSeq(ls, 1, n))]
<1>0. N \in Nat
  BY PrefixFacts
<1>1. ReadOf(<<>>) = NothingRead
  <2>1. \A k \in Keys \cup Others : Vals(<<>>, k) = <<>>
    BY ValsFacts, KindsApart
  <2>2. {o \in Others : Vals(<<>>, o) # <<>>} = {}
    BY <2>1
  <2>3. [k \in {o \in Others : Vals(<<>>, o) # <<>>} |-> Trim[Last(Vals(<<>>, k))]] = [k \in {} |-> ""]
    BY <2>2
  <2>4. [k \in Keys |-> ReadVals(Vals(<<>>, k), k)] = Empty
    BY <2>1 DEF ReadVals, Empty
  <2> QED BY <2>3, <2>4 DEF ReadOf, NothingRead
<1>2. ASSUME NEW n \in 1..N
      PROVE  /\ SubSeq(ls, 1, n - 1) \in Seq(Lines) /\ ls[n] \in Lines
             /\ SubSeq(ls, 1, n) = Append(SubSeq(ls, 1, n - 1), ls[n])
  BY PrefixFacts
<1>3. ASSUME NEW n \in 1..N
      PROVE  ReadOf(SubSeq(ls, 1, n)) = SetLine(ReadOf(SubSeq(ls, 1, n - 1)), ls[n])
  BY <1>2, ReadStep
<1>4. SubSeq(ls, 1, 0) = <<>> /\ SubSeq(ls, 1, N) = ls
  BY PrefixFacts
<1>5. upto = Step(upto)
  <2> SUFFICES ASSUME NEW n \in 0..N
               PROVE  ReadOf(SubSeq(ls, 1, n)) = IF n = 0 THEN NothingRead ELSE SetLine(upto[n - 1], ls[n])
    OBVIOUS
  <2>1. CASE n = 0
    BY <1>1, <1>4, <2>1
  <2>2. CASE n # 0
    <3>1. n \in 1..N /\ n - 1 \in 0..N
      BY <1>0, <2>2
    <3>2. upto[n - 1] = ReadOf(SubSeq(ls, 1, n - 1))
      BY <3>1
    <3> QED BY <1>3, <2>2, <3>1, <3>2
  <2> QED BY <2>1, <2>2
<1> DEFINE read == CHOOSE r : r = Step(r)
<1>6. read = Step(read)
  <2> HIDE DEF Step, upto
  <2> QED BY <1>5
<1>7. Parse(text) = read[N]
  BY DEF Parse
<1> HIDE DEF read
<1> DEFINE T == {n \in Nat : n <= N => read[n] = ReadOf(SubSeq(ls, 1, n))}
<1>8. \A n \in 0..N : read[n] = IF n = 0 THEN NothingRead ELSE SetLine(read[n - 1], ls[n])
  BY <1>6
<1>9. 0 \in T
  <2>1. 0 \in 0..N
    BY <1>0
  <2>2. read[0] = NothingRead
    BY <1>8, <2>1
  <2>3. read[0] = ReadOf(SubSeq(ls, 1, 0))
    BY <1>1, <1>4, <2>2
  <2> QED BY <2>3
<1>10. ASSUME NEW n \in T PROVE n + 1 \in T
  <2> SUFFICES ASSUME n + 1 <= N PROVE read[n + 1] = ReadOf(SubSeq(ls, 1, n + 1))
    OBVIOUS
  <2>1. n + 1 \in 1..N /\ n + 1 \in 0..N /\ n + 1 # 0 /\ (n + 1) - 1 = n /\ n <= N
    BY <1>0
  <2>2. read[n + 1] = SetLine(read[(n + 1) - 1], ls[n + 1])
    BY <1>8, <2>1
  <2>3. ReadOf(SubSeq(ls, 1, n + 1)) = SetLine(ReadOf(SubSeq(ls, 1, (n + 1) - 1)), ls[n + 1])
    BY <1>3, <2>1
  <2>4. read[n] = ReadOf(SubSeq(ls, 1, n))
    BY <2>1
  <2> QED BY <2>1, <2>2, <2>3, <2>4
<1>11. T = Nat
  <2> HIDE DEF T
  <2>1. T \subseteq Nat BY DEF T
  <2> QED BY <1>9, <1>10, <2>1, NatSetInduction
<1>12. read[N] = ReadOf(SubSeq(ls, 1, N))
  BY <1>0, <1>11
<1> QED BY <1>4, <1>7, <1>12

(***************************************************************************)
(* The writer.                                                             *)
(***************************************************************************)

(* What a line can hold of a setting, and the values its lines then have.  *)
Sayable(k) ==
  CASE Kind[k] = "bool" -> BOOLEAN
    [] Kind[k] \in {"int", "positive"} -> MinInt..MaxInt
    [] Kind[k] \in {"text", "mode"} -> Plain
    [] Kind[k] \in {"list", "order"} -> Seq(Plain)

SaidAs(k, v) ==
  CASE Kind[k] = "bool" -> <<IF v THEN "true" ELSE "false">>
    [] Kind[k] \in {"int", "positive", "text", "mode", "order"} -> <<v>>
    [] Kind[k] = "list" -> IF v = <<>> THEN <<"">> ELSE v

Unbroken(cfg) == \A k \in Keys : cfg[k] = <<>> \/ \E v \in Sayable(k) : cfg[k] = <<v>>

LinesOf(k, w) == [i \in DOMAIN w |-> [key |-> k, val |-> w[i]]]

LEMMA SaidIs ==
  /\ \A k \in Keys : /\ Kind[k] \in {"int", "positive"} => Said(k) = Int \cup {NotANumber}
                     /\ Kind[k] = "order" => Said(k) = Seq(Plain)
                     /\ Kind[k] \in {"bool", "text", "mode", "list"} => Said(k) = Plain
  /\ \A k \in Others : Said(k) = Plain
BY KindsApart DEF Said

LEMMA LinesOfKey ==
  ASSUME NEW k \in Names, NEW w \in Seq(Said(k))
  PROVE  /\ LinesOf(k, w) \in Seq(Lines)
         /\ Vals(LinesOf(k, w), k) = w
         /\ \A j \in Names \ {k} : Vals(LinesOf(k, w), j) = <<>>
<1> DEFINE ls == LinesOf(k, w)
           S == Said(k)
<1>1. w \in Seq(S) /\ \A i \in DOMAIN w : w[i] \in S
  <2> HIDE DEF S
  <2>1. w \in Seq(S) BY DEF S
  <2> QED BY <2>1
<1>2. \A i \in DOMAIN w : [key |-> k, val |-> w[i]] \in Lines
  BY <1>1, MakeLine
<1>3. ls \in Seq(Lines) /\ DOMAIN ls = DOMAIN w
  <2> HIDE DEF S
  <2> QED BY <1>1, <1>2 DEF LinesOf
<1>4. MapSeq(OfKey(k), ls) = [i \in DOMAIN w |-> <<w[i]>>]
  BY <1>2, <1>3 DEF MapSeq, OfKey, LinesOf
<1>5. Vals(ls, k) = w
  <2>1. FlattenSeq([i \in DOMAIN w |-> <<w[i]>>]) = w
    BY <1>1, FlattenSingles
  <2> QED BY <1>4, <2>1 DEF Vals, MapFlat
<1>6. ASSUME NEW j \in Names \ {k} PROVE Vals(ls, j) = <<>>
  <2>1. MapSeq(OfKey(j), ls) \in Seq(Seq(Said(j)))
    BY <1>3, OfKeyType, MapFlatType
  <2>2. MapSeq(OfKey(j), ls) = [i \in DOMAIN w |-> <<>>]
    BY <1>2, <1>3 DEF MapSeq, OfKey, LinesOf
  <2>3. FlattenSeq(MapSeq(OfKey(j), ls)) = <<>>
    BY <2>1, <2>2, FlattenNothing
  <2> QED BY <2>3 DEF Vals, MapFlat
<1> QED BY <1>3, <1>5, <1>6

LEMMA WordFacts ==
  /\ Plain \subseteq Words /\ \A w \in Plain : w \notin LineBroken
  /\ {"", "true", "false"} \subseteq Plain
  /\ \A w \in Words : Trim[w] \in Words /\ Trim[Trim[w]] = Trim[w]
  /\ \A w \in Plain : Trim[w] \in Plain
  /\ \A w \in {"", "true", "false"} : Trim[w] = w
BY WordsAssumption DEF Plain

LEMMA SaidAsType ==
  ASSUME NEW k \in Keys, NEW v \in Sayable(k)
  PROVE  SaidAs(k, v) \in Seq(Said(k)) /\ SaidAs(k, v) # <<>>
<1>1. CASE Kind[k] = "bool"
  <2>1. SaidAs(k, v) = <<IF v THEN "true" ELSE "false">>
    BY <1>1 DEF SaidAs
  <2>2. (IF v THEN "true" ELSE "false") \in Plain
    BY WordFacts
  <2> QED BY <1>1, <2>1, <2>2, SaidIs
<1>2. CASE Kind[k] \in {"int", "positive"}
  <2>1. SaidAs(k, v) = <<v>>
    BY <1>2 DEF SaidAs
  <2>2. v \in Int
    <3>1. v \in MinInt..MaxInt
      BY <1>2 DEF Sayable
    <3>2. MinInt \in Int /\ MaxInt \in Int
      <4>1. MaxInt \in Nat
        BY WordsAssumption
      <4> QED BY <4>1 DEF MinInt
    <3> QED BY <3>1, <3>2
  <2> QED BY <1>2, <2>1, <2>2, SaidIs
<1>3. CASE Kind[k] \in {"text", "mode"}
  <2>1. SaidAs(k, v) = <<v>> /\ v \in Plain
    BY <1>3 DEF SaidAs, Sayable
  <2> QED BY <1>3, <2>1, SaidIs
<1>4. CASE Kind[k] = "list"
  <2>1. SaidAs(k, v) = (IF v = <<>> THEN <<"">> ELSE v) /\ v \in Seq(Plain)
    BY <1>4 DEF SaidAs, Sayable
  <2>2. Said(k) = Plain /\ "" \in Plain
    BY <1>4, SaidIs, WordFacts
  <2>3. SaidAs(k, v) \in Seq(Plain) /\ SaidAs(k, v) # <<>>
    <3>1. CASE v = <<>>
      <4>1. \A w \in Plain : <<w>> \in Seq(Plain) /\ <<w>> # <<>>
        OBVIOUS
      <4> QED BY <2>1, <2>2, <3>1, <4>1
    <3>2. CASE v # <<>>
      BY <2>1, <3>2
    <3> QED BY <3>1, <3>2
  <2> QED BY <2>2, <2>3
<1>5. CASE Kind[k] = "order"
  <2> DEFINE S == Seq(Plain)
  <2>1. SaidAs(k, v) = <<v>> /\ v \in S /\ Said(k) = S
    BY <1>5, SaidIs DEF SaidAs, Sayable
  <2> HIDE DEF S
  <2> QED BY <2>1
<1> QED BY <1>1, <1>2, <1>3, <1>4, <1>5, KindsApart

LEMMA WrittenPlain ==
  ASSUME NEW k, NEW w \in Plain
  PROVE  Written(k, w) = <<[key |-> k, val |-> w]>>
BY WordFacts DEF Written

LEMMA KeyLinesAre ==
  ASSUME NEW k \in Keys, NEW v \in Sayable(k)
  PROVE  KeyLines(k, <<v>>) = LinesOf(k, SaidAs(k, v))
<1>0. <<v>> # <<>> /\ <<v>>[1] = v
  OBVIOUS
<1>a. \A x : LinesOf(k, <<x>>) = <<[key |-> k, val |-> x]>>
  BY DEF LinesOf
<1>1. CASE Kind[k] = "bool"
  <2>1. (IF v THEN "true" ELSE "false") \in Plain
    BY WordFacts
  <2>2. KeyLines(k, <<v>>) = Written(k, IF v THEN "true" ELSE "false")
    BY <1>0, <1>1 DEF KeyLines
  <2> QED BY <1>1, <1>a, <2>1, <2>2, WrittenPlain DEF SaidAs
<1>2. CASE Kind[k] \in {"int", "positive"}
  BY <1>0, <1>2, <1>a DEF KeyLines, SaidAs
<1>3. CASE Kind[k] \in {"text", "mode"}
  <2>1. KeyLines(k, <<v>>) = Written(k, v) /\ v \in Plain
    BY <1>0, <1>3 DEF KeyLines, Sayable
  <2> QED BY <1>3, <1>a, <2>1, WrittenPlain DEF SaidAs
<1>4. CASE Kind[k] = "list"
  <2>1. KeyLines(k, <<v>>) = ListLines(k, v) /\ v \in Seq(Plain)
    BY <1>0, <1>4 DEF KeyLines, Sayable
  <2>2. CASE v = <<>>
    BY <1>4, <1>a, <2>1, <2>2, WrittenPlain, WordFacts DEF SaidAs, ListLines
  <2>3. CASE v # <<>>
    <3>1. [i \in DOMAIN v |-> Written(k, v[i])] = [i \in DOMAIN v |-> <<LinesOf(k, v)[i]>>]
      <4>1. \A i \in DOMAIN v : v[i] \in Plain
        BY <2>1
      <4> QED BY <4>1, WrittenPlain DEF LinesOf
    <3>2. LinesOf(k, v) \in Seq(Lines) /\ DOMAIN LinesOf(k, v) = DOMAIN v
      BY <1>4, <2>1, SaidIs, KindsApart, LinesOfKey DEF LinesOf
    <3>3. FlattenSeq([i \in DOMAIN LinesOf(k, v) |-> <<LinesOf(k, v)[i]>>]) = LinesOf(k, v)
      BY <3>2, FlattenSingles
    <3>4. FlattenSeq([i \in DOMAIN v |-> <<LinesOf(k, v)[i]>>]) = LinesOf(k, v)
      BY <3>2, <3>3
    <3> QED BY <1>4, <2>1, <2>3, <3>1, <3>4 DEF ListLines, SaidAs
  <2> QED BY <2>2, <2>3
<1>5. CASE Kind[k] = "order"
  <2>1. KeyLines(k, <<v>>) = OrderLines(k, v) /\ v \in Seq(Plain)
    BY <1>0, <1>5 DEF KeyLines, Sayable
  <2>2. ~(v # <<>> /\ Last(v) \in LineBroken)
    <3>1. v # <<>> => v[Len(v)] \in Plain
      BY <2>1
    <3> QED BY <3>1, WordFacts DEF Last
  <2>3. OrderLines(k, v) = <<[key |-> k, val |-> v]>>
    BY <2>2 DEF OrderLines
  <2> QED BY <1>5, <1>a, <2>1, <2>3 DEF SaidAs
<1> QED BY <1>1, <1>2, <1>3, <1>4, <1>5, KindsApart

(* Of parts that follow each other, only one of which says anything of a    *)
(* key, the values of the key are those of that part.                       *)
LEMMA PartsSay ==
  ASSUME NEW parts \in Seq(Seq(Lines)), NEW k \in Names
  PROVE  /\ (\A i \in DOMAIN parts : Vals(parts[i], k) = <<>>) => Vals(FlattenSeq(parts), k) = <<>>
         /\ \A j \in DOMAIN parts :
              (\A i \in DOMAIN parts \ {j} : Vals(parts[i], k) = <<>>)
                => Vals(FlattenSeq(parts), k) = Vals(parts[j], k)
<1> DEFINE S == Said(k)
           L == Seq(Lines)
           vv == [i \in DOMAIN parts |-> Vals(parts[i], k)]
<1>1. Vals(FlattenSeq(parts), k) = FlattenSeq(vv)
  BY OfKeyType, MapFlatFlatten DEF Vals
<1>2. \A ls \in L : Vals(ls, k) \in Seq(S)
  BY ValsFacts
<1>3. vv \in Seq(Seq(S)) /\ DOMAIN vv = DOMAIN parts
  <2> DEFINE Q == Seq(S)
  <2>1. parts \in Seq(L) /\ \A ls \in L : Vals(ls, k) \in Q
    BY <1>2
  <2>2. vv \in Seq(Q)
    <3>1. Len(parts) \in Nat /\ DOMAIN parts = 1..Len(parts) /\ \A i \in DOMAIN parts : parts[i] \in L
      OBVIOUS
    <3>2. \A i \in DOMAIN parts : Vals(parts[i], k) \in Q
      BY <2>1, <3>1
    <3> HIDE DEF Q, L, S
    <3> QED BY <3>1, <3>2
  <2> HIDE DEF Q, L, S
  <2> QED BY <2>2 DEF Q
<1>4. \A i \in DOMAIN parts : vv[i] = Vals(parts[i], k)
  OBVIOUS
<1> HIDE DEF vv, S, L
<1>5. (\A i \in DOMAIN vv : vv[i] = <<>>) => FlattenSeq(vv) = <<>>
  BY <1>3, FlattenNothing
<1>6. ASSUME NEW j \in DOMAIN vv, \A i \in DOMAIN vv \ {j} : vv[i] = <<>>
      PROVE  FlattenSeq(vv) = vv[j]
  BY <1>3, <1>6, FlattenOne
<1> QED BY <1>1, <1>3, <1>4, <1>5, <1>6

LEMMA OrderFacts ==
  /\ DOMAIN KeyOrder = 1..Len(KeyOrder) /\ \A i \in DOMAIN KeyOrder : KeyOrder[i] \in Keys
  /\ \A k \in Keys : \E j \in DOMAIN KeyOrder :
        KeyOrder[j] = k /\ \A i \in DOMAIN KeyOrder \ {j} : KeyOrder[i] # k
<1>1. Keys = {KeyOrder[i] : i \in DOMAIN KeyOrder}
  BY DEF Keys, ToSet
<1>2. \A i, j \in DOMAIN KeyOrder : KeyOrder[i] = KeyOrder[j] => i = j
  BY KeysAssumption DEF IsInjective
<1>3. DOMAIN KeyOrder = 1..Len(KeyOrder)
  BY KeysAssumption
<1> QED BY <1>1, <1>2, <1>3

LEMMA RenderedSays ==
  ASSUME NEW cfg, Unbroken(cfg)
  PROVE  /\ Rendered(cfg) \in Seq(Lines)
         /\ \A k \in Keys : Vals(Rendered(cfg), k)
                               = IF cfg[k] = <<>> THEN <<>> ELSE SaidAs(k, cfg[k][1])
         /\ \A k \in Others : Vals(Rendered(cfg), k) = <<>>
<1> DEFINE parts == [i \in DOMAIN KeyOrder |-> KeyLines(KeyOrder[i], cfg[KeyOrder[i]])]
           L == Seq(Lines)
<1>1. ASSUME NEW k \in Keys
      PROVE  /\ KeyLines(k, cfg[k]) \in L
             /\ Vals(KeyLines(k, cfg[k]), k) = IF cfg[k] = <<>> THEN <<>> ELSE SaidAs(k, cfg[k][1])
             /\ \A j \in Names \ {k} : Vals(KeyLines(k, cfg[k]), j) = <<>>
  <2>1. k \in Names
    BY KindsApart
  <2>2. CASE cfg[k] = <<>>
    <3>1. KeyLines(k, cfg[k]) = <<>> /\ <<>> \in L
      BY <2>2 DEF KeyLines
    <3> QED BY <2>1, <2>2, <3>1, ValsFacts
  <2>3. CASE cfg[k] # <<>>
    <3>1. PICK v \in Sayable(k) : cfg[k] = <<v>>
      BY <2>3 DEF Unbroken
    <3>2. KeyLines(k, cfg[k]) = LinesOf(k, SaidAs(k, v)) /\ cfg[k][1] = v
      BY <3>1, KeyLinesAre
    <3>3. SaidAs(k, v) \in Seq(Said(k))
      BY SaidAsType
    <3> HIDE DEF L
    <3>4. /\ LinesOf(k, SaidAs(k, v)) \in L /\ Vals(LinesOf(k, SaidAs(k, v)), k) = SaidAs(k, v)
          /\ \A j \in Names \ {k} : Vals(LinesOf(k, SaidAs(k, v)), j) = <<>>
      BY <2>1, <3>3, LinesOfKey DEF L
    <3> QED BY <2>3, <3>2, <3>4
  <2> QED BY <2>2, <2>3
<1>2. parts \in Seq(L) /\ DOMAIN parts = DOMAIN KeyOrder
  <2>1. \A i \in DOMAIN KeyOrder : KeyLines(KeyOrder[i], cfg[KeyOrder[i]]) \in L
    BY <1>1, OrderFacts
  <2>2. Len(KeyOrder) \in Nat /\ DOMAIN KeyOrder = 1..Len(KeyOrder)
    BY KeysAssumption
  <2> HIDE DEF L
  <2> QED BY <2>1, <2>2
<1>3. Rendered(cfg) = FlattenSeq(parts)
  BY DEF Rendered
<1>4. \A i \in DOMAIN parts : parts[i] = KeyLines(KeyOrder[i], cfg[KeyOrder[i]])
  OBVIOUS
<1> HIDE DEF parts
<1>5. FlattenSeq(parts) \in Seq(Lines)
  BY <1>2, FlattenType
<1>6. ASSUME NEW k \in Keys
      PROVE  Vals(FlattenSeq(parts), k) = IF cfg[k] = <<>> THEN <<>> ELSE SaidAs(k, cfg[k][1])
  <2>1. PICK j \in DOMAIN KeyOrder : KeyOrder[j] = k /\ \A i \in DOMAIN KeyOrder \ {j} : KeyOrder[i] # k
    BY OrderFacts
  <2>2. k \in Names
    BY KindsApart
  <2>3. \A i \in DOMAIN parts \ {j} : Vals(parts[i], k) = <<>>
    <3> SUFFICES ASSUME NEW i \in DOMAIN parts \ {j} PROVE Vals(parts[i], k) = <<>>
      OBVIOUS
    <3>1. i \in DOMAIN KeyOrder /\ KeyOrder[i] # k /\ KeyOrder[i] \in Keys
      BY <1>2, <2>1, OrderFacts
    <3>2. k \in Names \ {KeyOrder[i]}
      BY <2>2, <3>1
    <3>3. Vals(KeyLines(KeyOrder[i], cfg[KeyOrder[i]]), k) = <<>>
      BY <1>1, <3>1, <3>2
    <3> QED BY <1>2, <1>4, <3>3
  <2>4. Vals(FlattenSeq(parts), k) = Vals(parts[j], k)
    BY <1>2, <2>1, <2>2, <2>3, PartsSay
  <2> QED BY <1>1, <1>2, <1>4, <2>1, <2>4
<1>7. ASSUME NEW k \in Others PROVE Vals(FlattenSeq(parts), k) = <<>>
  <2>1. k \in Names /\ k \notin Keys
    BY KindsApart
  <2>2. \A i \in DOMAIN parts : Vals(parts[i], k) = <<>>
    <3> SUFFICES ASSUME NEW i \in DOMAIN parts PROVE Vals(parts[i], k) = <<>>
      OBVIOUS
    <3>1. KeyOrder[i] \in Keys /\ k \in Names \ {KeyOrder[i]}
      BY <1>2, <2>1, OrderFacts
    <3> QED BY <1>1, <1>4, <3>1
  <2> QED BY <1>2, <2>1, <2>2, PartsSay
<1> QED BY <1>3, <1>5, <1>6, <1>7

LEMMA PreservedSays ==
  ASSUME NEW u, \A k \in DOMAIN u : u[k] \in Plain
  PROVE  /\ Preserved(u) \in Seq(Lines)
         /\ \A k \in Keys \cup {NoName} : Vals(Preserved(u), k) = <<>>
         /\ \A k \in ToSet(OtherKeys) : Vals(Preserved(u), k)
                                            = IF k \in DOMAIN u THEN <<u[k]>> ELSE <<>>
<1> DEFINE LineOf(k) == IF k \in DOMAIN u THEN <<[key |-> k, val |-> u[k]]>> ELSE <<>>
           parts == [i \in DOMAIN OtherKeys |-> LineOf(OtherKeys[i])]
           L == Seq(Lines)
<1>0. /\ DOMAIN OtherKeys = 1..Len(OtherKeys) /\ Len(OtherKeys) \in Nat
      /\ ToSet(OtherKeys) = {OtherKeys[i] : i \in DOMAIN OtherKeys}
      /\ \A i, j \in DOMAIN OtherKeys : OtherKeys[i] = OtherKeys[j] => i = j
  BY KeysAssumption DEF IsInjective, ToSet
<1>1. ASSUME NEW k \in ToSet(OtherKeys)
      PROVE  /\ LineOf(k) \in L
             /\ Vals(LineOf(k), k) = IF k \in DOMAIN u THEN <<u[k]>> ELSE <<>>
             /\ \A j \in Names \ {k} : Vals(LineOf(k), j) = <<>>
  <2>1. k \in Names /\ k \in Others
    BY KindsApart DEF Others
  <2>2. CASE k \notin DOMAIN u
    BY <2>1, <2>2, ValsFacts
  <2>3. CASE k \in DOMAIN u
    <3>1. LineOf(k) = LinesOf(k, <<u[k]>>)
      BY <2>3 DEF LinesOf
    <3>2. <<u[k]>> \in Seq(Said(k))
      BY <2>1, <2>3, SaidIs
    <3> DEFINE w == <<u[k]>>
    <3> HIDE DEF LineOf, w
    <3>3. /\ LinesOf(k, w) \in Seq(Lines) /\ Vals(LinesOf(k, w), k) = w
          /\ \A j \in Names \ {k} : Vals(LinesOf(k, w), j) = <<>>
      BY <2>1, <3>2, LinesOfKey DEF w
    <3> QED BY <2>3, <3>1, <3>3 DEF w
  <2> QED BY <2>2, <2>3
<1>2. parts \in Seq(L) /\ DOMAIN parts = DOMAIN OtherKeys
  <2>1. \A i \in DOMAIN OtherKeys : LineOf(OtherKeys[i]) \in L
    BY <1>0, <1>1
  <2> HIDE DEF L, LineOf
  <2> QED BY <1>0, <2>1
<1>3. Preserved(u) = FlattenSeq(parts)
  BY DEF Preserved
<1>4. \A i \in DOMAIN parts : parts[i] = LineOf(OtherKeys[i])
  OBVIOUS
<1> HIDE DEF parts, LineOf
<1>5. FlattenSeq(parts) \in Seq(Lines)
  BY <1>2, FlattenType
<1>6. ASSUME NEW k \in Keys \cup {NoName} PROVE Vals(FlattenSeq(parts), k) = <<>>
  <2>1. k \in Names /\ k \notin ToSet(OtherKeys)
    BY KindsApart, KeysAssumption DEF Others
  <2>2. \A i \in DOMAIN parts : Vals(parts[i], k) = <<>>
    BY <1>0, <1>1, <1>2, <1>4, <2>1
  <2> QED BY <1>2, <2>1, <2>2, PartsSay
<1>7. ASSUME NEW k \in ToSet(OtherKeys)
      PROVE  Vals(FlattenSeq(parts), k) = IF k \in DOMAIN u THEN <<u[k]>> ELSE <<>>
  <2>1. PICK j \in DOMAIN OtherKeys : OtherKeys[j] = k
    BY <1>0
  <2>2. k \in Names
    BY KindsApart DEF Others
  <2>3. \A i \in DOMAIN parts \ {j} : Vals(parts[i], k) = <<>>
    BY <1>0, <1>1, <1>2, <1>4, <2>1, <2>2
  <2>4. Vals(FlattenSeq(parts), k) = Vals(parts[j], k)
    BY <1>2, <2>1, <2>2, <2>3, PartsSay
  <2> QED BY <1>1, <1>2, <1>4, <2>1, <2>4
<1> QED BY <1>3, <1>5, <1>6, <1>7

(***************************************************************************)
(* What was written reads as it was meant, and what was read is settled.   *)
(***************************************************************************)

LEMMA NamedFacts ==
  ASSUME NEW W \in SUBSET Words, \A w \in W : Trim[w] \in W, NEW names \in Seq(W)
  PROVE  /\ Named(names) \in Seq({w \in W : Trim[w] = w})
         /\ Named(Named(names)) = Named(names)
<1> DEFINE NameOf == [w \in W |-> IF Trim[w] = "" THEN <<>> ELSE <<Trim[w]>>]
           Neat == {w \in W : Trim[w] = w /\ w # ""}
<1>1. \A w \in W : Trim[Trim[w]] = Trim[w]
  BY WordFacts
<1>2. NameOf \in [W -> Seq(Neat)]
  <2> SUFFICES ASSUME NEW w \in W
               PROVE  (IF Trim[w] = "" THEN <<>> ELSE <<Trim[w]>>) \in Seq(Neat)
    OBVIOUS
  <2>1. Trim[w] # "" => Trim[w] \in Neat
    BY <1>1
  <2> DEFINE t == Trim[w]
  <2> HIDE DEF Neat, t
  <2>2. (t \in Neat => <<t>> \in Seq(Neat)) /\ <<>> \in Seq(Neat)
    OBVIOUS
  <2>3. CASE Trim[w] = ""
    BY <2>2, <2>3
  <2>4. CASE Trim[w] # ""
    BY <2>1, <2>2, <2>4 DEF t
  <2> QED BY <2>3, <2>4
<1>3. ASSUME NEW ns \in Seq(W) PROVE Named(ns) = MapFlat(NameOf, ns)
  <2>1. MapSeq(NameOf, ns) = [i \in DOMAIN ns |-> IF Trim[ns[i]] = "" THEN <<>> ELSE <<Trim[ns[i]]>>]
    <3>1. \A i \in DOMAIN ns : ns[i] \in W
      OBVIOUS
    <3> QED BY <3>1 DEF MapSeq
  <2> QED BY <2>1 DEF Named, MapFlat
<1>4. \A w \in Neat : NameOf[w] = <<w>>
  OBVIOUS
<1>5. Neat \subseteq {w \in W : Trim[w] = w} /\ Neat \subseteq W
  OBVIOUS
<1> HIDE DEF NameOf, Neat
<1>6. Named(names) \in Seq(Neat)
  <2>1. MapFlat(NameOf, names) \in Seq(Neat)
    BY <1>2, MapFlatType
  <2>2. Named(names) = MapFlat(NameOf, names)
    BY <1>3
  <2> QED BY <2>1, <2>2
<1>7. Named(names) \in Seq({w \in W : Trim[w] = w}) /\ Named(names) \in Seq(W)
  BY <1>5, <1>6
<1> DEFINE ns == Named(names)
<1>8. \A i \in DOMAIN ns : NameOf[ns[i]] = <<ns[i]>>
  <2>1. \A i \in DOMAIN ns : ns[i] \in Neat
    BY <1>6
  <2> QED BY <1>4, <2>1
<1> HIDE DEF ns
<1>9. MapFlat(NameOf, ns) = ns
  BY <1>2, <1>7, <1>8, MapFlatSame DEF ns
<1> QED BY <1>3, <1>7, <1>9 DEF ns

LEMMA TrimmedFacts ==
  ASSUME NEW W \in SUBSET Words, \A w \in W : Trim[w] \in W, NEW v \in Seq(W)
  PROVE  /\ MapSeq(Trim, v) \in Seq(W) /\ DOMAIN MapSeq(Trim, v) = DOMAIN v
         /\ MapSeq(Trim, MapSeq(Trim, v)) = MapSeq(Trim, v)
         /\ MapSeq(Trim, v) = <<>> => v = <<>>
<1>1. Len(v) \in Nat /\ DOMAIN v = 1..Len(v) /\ \A i \in DOMAIN v : v[i] \in W
  OBVIOUS
<1>2. \A i \in DOMAIN v : Trim[v[i]] \in W /\ Trim[Trim[v[i]]] = Trim[v[i]]
  BY <1>1, WordFacts
<1> QED BY <1>1, <1>2 DEF MapSeq

LEMMA WrittenReads ==
  ASSUME NEW k \in Keys, NEW v \in Sayable(k)
  PROVE  ReadVals(SaidAs(k, v), k) = <<Meant(k, v)>>
<1>1. SaidAs(k, v) # <<>>
  BY SaidAsType
<1>2. \A x : <<x>> # <<>> /\ Last(<<x>>) = x
  BY DEF Last
<1>3. CASE Kind[k] = "bool"
  <2>1. v \in BOOLEAN
    BY <1>3 DEF Sayable
  <2>2. ReadVals(SaidAs(k, v), k) = <<Trim[IF v THEN "true" ELSE "false"] = "true">>
    BY <1>2, <1>3 DEF SaidAs, ReadVals, Value
  <2>3. Meant(k, v) = v
    BY <1>3 DEF Meant
  <2>4. (Trim[IF v THEN "true" ELSE "false"] = "true") = v
    BY <2>1, WordFacts
  <2> QED BY <2>2, <2>3, <2>4
<1>4. CASE Kind[k] \in {"int", "positive"}
  <2>1. v \in MinInt..MaxInt
    BY <1>4 DEF Sayable
  <2>2. MaxInt \in Nat /\ NotANumber \notin Int
    BY WordsAssumption
  <2>3. ParseInt(v) = v
    BY <2>1, <2>2 DEF ParseInt, MinInt
  <2>4. ReadVals(SaidAs(k, v), k) = <<ParseInt(v)>>
    BY <1>2, <1>4 DEF SaidAs, ReadVals, Value
  <2>5. Meant(k, v) = v
    BY <1>4 DEF Meant
  <2> QED BY <2>3, <2>4, <2>5
<1>5. CASE Kind[k] \in {"text", "mode"}
  <2>1. ReadVals(SaidAs(k, v), k) = <<Trim[v]>>
    BY <1>2, <1>5 DEF SaidAs, ReadVals, Value
  <2> QED BY <1>5, <2>1 DEF Meant
<1>6. CASE Kind[k] = "list"
  <2>1. SaidAs(k, v) = IF v = <<>> THEN <<"">> ELSE v
    BY <1>6 DEF SaidAs
  <2>2. ReadVals(SaidAs(k, v), k) = <<[i \in DOMAIN SaidAs(k, v) |-> Trim[SaidAs(k, v)[i]]]>>
    BY <1>1, <1>6 DEF ReadVals
  <2>3. Meant(k, v) = IF v = <<>> THEN <<"">> ELSE [i \in DOMAIN v |-> Trim[v[i]]]
    BY <1>6 DEF Meant
  <2>4. [i \in DOMAIN <<"">> |-> Trim[<<"">>[i]]] = <<"">>
    <3>1. Trim[""] = ""
      BY WordFacts
    <3>2. \A w : Trim[w] = w => [i \in DOMAIN <<w>> |-> Trim[<<w>>[i]]] = <<w>>
      <4> SUFFICES ASSUME NEW w, Trim[w] = w
                   PROVE  [i \in DOMAIN <<w>> |-> Trim[<<w>>[i]]] = <<w>>
        OBVIOUS
      <4>1. DOMAIN <<w>> = {1} /\ <<w>>[1] = w
        OBVIOUS
      <4>2. [i \in {1} |-> Trim[<<w>>[i]]] = [i \in {1} |-> w]
        BY <4>1
      <4>3. [i \in {1} |-> w] = <<w>>
        OBVIOUS
      <4> QED BY <4>1, <4>2, <4>3
    <3> QED BY <3>1, <3>2
  <2> QED BY <2>1, <2>2, <2>3, <2>4
<1>7. CASE Kind[k] = "order"
  <2>1. ReadVals(SaidAs(k, v), k) = <<Named(v)>>
    BY <1>2, <1>7 DEF SaidAs, ReadVals, Value
  <2> QED BY <1>7, <2>1 DEF Meant
<1> QED BY <1>3, <1>4, <1>5, <1>6, <1>7, KindsApart

LEMMA ReadSettled ==
  ASSUME NEW k \in Keys, NEW vals \in Seq(Said(k)), vals # <<>>
  PROVE  \E v \in Sayable(k) : ReadVals(vals, k) = <<v>> /\ Meant(k, v) = v
<1> DEFINE S == Said(k)
           x == Last(vals)
<1>1. x \in S
  <2>1. vals \in Seq(S)
    OBVIOUS
  <2> HIDE DEF S
  <2> QED BY <2>1 DEF Last
<1>2. Kind[k] # "list" => ReadVals(vals, k) = Value(k, x, <<>>)
  BY DEF ReadVals
<1> HIDE DEF x
<1>3. CASE Kind[k] = "bool"
  <2>1. ReadVals(vals, k) = <<Trim[x] = "true">> /\ Meant(k, Trim[x] = "true") = (Trim[x] = "true")
    BY <1>2, <1>3 DEF Value, Meant
  <2>2. (Trim[x] = "true") \in Sayable(k)
    BY <1>3 DEF Sayable
  <2> QED BY <2>1, <2>2
<1>4. CASE Kind[k] \in {"int", "positive"}
  <2>1. ReadVals(vals, k) = <<ParseInt(x)>> /\ Meant(k, ParseInt(x)) = ParseInt(x)
    BY <1>2, <1>4 DEF Value, Meant
  <2>2. x \in Int \cup {NotANumber}
    BY <1>1, <1>4, SaidIs
  <2>3. MaxInt \in Nat /\ NotANumber \notin Int
    BY WordsAssumption
  <2>4. ParseInt(x) \in MinInt..MaxInt
    BY <2>2, <2>3 DEF ParseInt, MinInt
  <2>5. ParseInt(x) \in Sayable(k)
    BY <1>4, <2>4 DEF Sayable
  <2> QED BY <2>1, <2>5
<1>5. CASE Kind[k] \in {"text", "mode"}
  <2>1. ReadVals(vals, k) = <<Trim[x]>> /\ Meant(k, Trim[x]) = Trim[Trim[x]]
    BY <1>2, <1>5 DEF Value, Meant
  <2>2. x \in Plain
    BY <1>1, <1>5, SaidIs
  <2>3. Trim[x] \in Sayable(k) /\ Trim[Trim[x]] = Trim[x]
    BY <1>5, <2>2, WordFacts DEF Sayable
  <2> QED BY <2>1, <2>3
<1>6. CASE Kind[k] = "list"
  <2> DEFINE v == MapSeq(Trim, vals)
  <2>1. ReadVals(vals, k) = <<v>>
    BY <1>6 DEF ReadVals, MapSeq
  <2>2. vals \in Seq(Plain) /\ Plain \in SUBSET Words /\ \A w \in Plain : Trim[w] \in Plain
    BY <1>6, SaidIs, WordFacts
  <2>3. v \in Seq(Plain) /\ MapSeq(Trim, v) = v /\ v # <<>>
    BY <2>2, TrimmedFacts
  <2>4. v \in Sayable(k)
    BY <1>6, <2>3 DEF Sayable
  <2>5. Meant(k, v) = MapSeq(Trim, v)
    BY <1>6, <2>3 DEF Meant, MapSeq
  <2> QED BY <2>1, <2>3, <2>4, <2>5
<1>7. CASE Kind[k] = "order"
  <2>1. ReadVals(vals, k) = <<Named(x)>> /\ Meant(k, Named(x)) = Named(Named(x))
    BY <1>2, <1>7 DEF Value, Meant
  <2>2. x \in Seq(Plain) /\ Plain \in SUBSET Words /\ \A w \in Plain : Trim[w] \in Plain
    BY <1>1, <1>7, SaidIs, WordFacts
  <2>3. Named(x) \in Seq({w \in Plain : Trim[w] = w}) /\ Named(Named(x)) = Named(x)
    BY <2>2, NamedFacts
  <2>4. Named(x) \in Sayable(k)
    BY <1>7, <2>3 DEF Sayable
  <2> QED BY <2>1, <2>3, <2>4
<1> QED BY <1>3, <1>4, <1>5, <1>6, <1>7, KindsApart

(***************************************************************************)
(* Texts: whatever is written is lines again.                              *)
(***************************************************************************)

Texts == [lines : Seq(Lines), nl : BOOLEAN]

(* What may be written of a setting, a broken value of a body included.     *)
Storable(cfg) ==
  \A k \in Keys : cfg[k] = <<>> \/ \E v \in Held(k) :
    cfg[k] = <<v>> /\ (k = OrderKey => ToSet(Front(v)) \subseteq Plain)

LEMMA LinesAre ==
  /\ \A l : IsLine(l) <=> l \in Lines
  /\ \A ls : AreLines(ls) <=> ls \in Seq(Lines)
  /\ \A text : IsText(text) <=> text = NoFile \/ text \in Texts
<1>1. ASSUME NEW l PROVE IsLine(l) <=> l \in Lines
  <2>1. CASE IsLine(l)
    BY <2>1 DEF IsLine, Lines
  <2>2. CASE l \in Lines
    BY <2>2, LineFacts DEF IsLine
  <2> QED BY <2>1, <2>2
<1>2. ASSUME NEW ls PROVE AreLines(ls) <=> ls \in Seq(Lines)
  <2>1. CASE AreLines(ls)
    <3> DEFINE S == ToSet(ls)
    <3>1. ls \in Seq(S) /\ \A i \in DOMAIN ls : ls[i] \in Lines
      BY <1>1, <2>1 DEF AreLines
    <3> HIDE DEF S
    <3> QED BY <2>1, <3>1
  <2>2. CASE ls \in Seq(Lines)
    <3> DEFINE S == ToSet(ls)
    <3>1. \A i \in DOMAIN ls : ls[i] \in Lines /\ ls[i] \in S
      BY <2>2 DEF ToSet
    <3>2. ls \in Seq(S)
      <4> HIDE DEF S
      <4> QED BY <2>2, <3>1
    <3> QED BY <1>1, <3>1, <3>2 DEF AreLines
  <2> QED BY <2>1, <2>2
<1>3. ASSUME NEW text PROVE IsText(text) <=> text = NoFile \/ text \in Texts
  <2>1. (text \in [lines : {text.lines}, nl : BOOLEAN] /\ text.lines \in Seq(Lines))
          <=> text \in Texts
    <3> DEFINE L == Seq(Lines)
    <3> HIDE DEF L
    <3>1. (text \in [lines : {text.lines}, nl : BOOLEAN] /\ text.lines \in L)
            <=> text \in [lines : L, nl : BOOLEAN]
      OBVIOUS
    <3> QED BY <3>1 DEF L, Texts
  <2> QED BY <1>2, <2>1 DEF IsText
<1> QED BY <1>1, <1>2, <1>3

LEMMA WholeText ==
  ASSUME NEW ls \in Seq(Lines)
  PROVE  Whole(ls) \in Texts /\ Whole(ls).lines = ls /\ Whole(ls) # NoFile
<1>1. Whole(ls) \in Texts /\ Whole(ls).lines = ls
  BY DEF Whole, Texts
<1> QED BY <1>1, TextsAssumption DEF Texts

LEMMA OneLine ==
  ASSUME NEW k \in Names, NEW v \in Said(k)
  PROVE  <<[key |-> k, val |-> v]>> \in Seq(Lines)
<1> DEFINE l == [key |-> k, val |-> v]
<1>1. l \in Lines
  BY MakeLine
<1> HIDE DEF l
<1>2. <<l>> \in Seq(Lines)
  BY <1>1
<1> QED BY <1>2 DEF l

LEMMA Joined ==
  ASSUME NEW S, NEW s \in Seq(S), NEW t \in Seq(S)
  PROVE  s \o t \in Seq(S)
OBVIOUS

LEMMA WrittenType ==
  ASSUME NEW k \in Keys, Said(k) = Plain, NEW w \in Words
  PROVE  Written(k, w) \in Seq(Lines)
<1>0. k \in Names
  BY KindsApart
<1>1. CASE w \in LineBroken
  <2>1. Pieces[w].first \in Said(k) /\ Pieces[w].rest \in Seq(Lines)
    BY <1>1, TextsAssumption, LinesAre
  <2>2. <<[key |-> k, val |-> Pieces[w].first]>> \in Seq(Lines)
    BY <1>0, <2>1, OneLine
  <2>3. <<[key |-> k, val |-> Pieces[w].first]>> \o Pieces[w].rest \in Seq(Lines)
    BY <2>1, <2>2, Joined
  <2> QED BY <1>1, <2>3 DEF Written
<1>2. CASE w \notin LineBroken
  BY <1>0, <1>2, OneLine DEF Written, Plain
<1> QED BY <1>1, <1>2

LEMMA OrderLinesType ==
  ASSUME NEW names \in Seq(Words), ToSet(Front(names)) \subseteq Plain
  PROVE  OrderLines(OrderKey, names) \in Seq(Lines)
<1> DEFINE front == Front(names)
<1>0. OrderKey \in Names /\ Said(OrderKey) = Seq(Plain)
  BY KindsApart, SaidIs
<1>1. Len(names) \in Nat /\ names # <<>> => front = [i \in 1..(Len(names) - 1) |-> names[i]]
  BY DEF Front
<1>2. names # <<>> => front \in Seq(Plain) /\ \A i \in 1..(Len(names) - 1) : names[i] \in Plain
  <2> SUFFICES ASSUME names # <<>>
               PROVE  front \in Seq(Plain) /\ \A i \in 1..(Len(names) - 1) : names[i] \in Plain
    OBVIOUS
  <2>1. Len(names) \in Nat \ {0} /\ front = [i \in 1..(Len(names) - 1) |-> names[i]]
    BY <1>1
  <2>2. \A i \in 1..(Len(names) - 1) : names[i] \in Plain
    <3> SUFFICES ASSUME NEW i \in 1..(Len(names) - 1) PROVE names[i] \in Plain
      OBVIOUS
    <3>1. front[i] \in ToSet(front)
      BY <2>1 DEF ToSet
    <3> QED BY <2>1, <3>1
  <2> HIDE DEF front
  <2> QED BY <2>1, <2>2
<1>3. CASE names # <<>> /\ Last(names) \in LineBroken
  <2> DEFINE p == Pieces[Last(names)]
  <2>1. p.first \in Plain /\ p.rest \in Seq(Lines)
    BY <1>3, TextsAssumption, LinesAre
  <2>2. Append(front, p.first) \in Said(OrderKey)
    <3> HIDE DEF p, front
    <3>1. Append(front, p.first) \in Seq(Plain)
      BY <1>2, <1>3, <2>1
    <3> QED BY <1>0, <3>1
  <2>3. <<[key |-> OrderKey, val |-> Append(front, p.first)]>> \in Seq(Lines)
    BY <1>0, <2>2, OneLine
  <2>4. <<[key |-> OrderKey, val |-> Append(front, p.first)]>> \o p.rest \in Seq(Lines)
    BY <2>1, <2>3, Joined
  <2> QED BY <1>3, <2>4 DEF OrderLines
<1>4. CASE ~(names # <<>> /\ Last(names) \in LineBroken)
  <2>1. names # <<>> => names[Len(names)] \in Plain
    BY <1>4 DEF Last, Plain
  <2>2. \A i \in 1..Len(names) : names[i] \in Plain
    <3> SUFFICES ASSUME NEW i \in 1..Len(names) PROVE names[i] \in Plain
      OBVIOUS
    <3>1. names # <<>> /\ Len(names) \in Nat
      OBVIOUS
    <3>2. i = Len(names) \/ i \in 1..(Len(names) - 1)
      BY <3>1
    <3> QED BY <1>2, <2>1, <3>1, <3>2
  <2>3. names \in Seq(Plain)
    BY <2>2
  <2>4. <<[key |-> OrderKey, val |-> names]>> \in Seq(Lines)
    BY <1>0, <2>3, OneLine
  <2> QED BY <1>4, <2>4 DEF OrderLines
<1> QED BY <1>3, <1>4

LEMMA RenderedType ==
  ASSUME NEW cfg, Storable(cfg)
  PROVE  Rendered(cfg) \in Seq(Lines)
<1> DEFINE parts == [i \in DOMAIN KeyOrder |-> KeyLines(KeyOrder[i], cfg[KeyOrder[i]])]
           L == Seq(Lines)
<1>1. ASSUME NEW k \in Keys PROVE KeyLines(k, cfg[k]) \in L
  <2>1. CASE cfg[k] = <<>>
    BY <2>1 DEF KeyLines
  <2>2. CASE cfg[k] # <<>>
    <3>1. PICK v \in Held(k) : cfg[k] = <<v>> /\ (k = OrderKey => ToSet(Front(v)) \subseteq Plain)
      BY <2>2 DEF Storable
    <3>2. <<v>> # <<>> /\ <<v>>[1] = v /\ k \in Names
      BY KindsApart
    <3> HIDE DEF L
    <3>3. CASE Kind[k] = "bool"
      <4>1. KeyLines(k, <<v>>) = Written(k, IF v THEN "true" ELSE "false")
        BY <3>2, <3>3 DEF KeyLines
      <4>2. (IF v THEN "true" ELSE "false") \in Words
        BY WordFacts
      <4> QED BY <3>1, <3>3, <4>1, <4>2, SaidIs, WrittenType DEF L
    <3>4. CASE Kind[k] \in {"int", "positive"}
      <4>1. KeyLines(k, <<v>>) = <<[key |-> k, val |-> v]>>
        BY <3>2, <3>4 DEF KeyLines
      <4>2. v \in MinInt..MaxInt
        BY <3>4 DEF Held
      <4>3. MaxInt \in Nat
        BY WordsAssumption
      <4>4. v \in Said(k)
        BY <3>4, <4>2, <4>3, SaidIs DEF MinInt
      <4> QED BY <3>1, <3>2, <4>1, <4>4, OneLine DEF L
    <3>5. CASE Kind[k] \in {"text", "mode"}
      <4>1. KeyLines(k, <<v>>) = Written(k, v) /\ v \in Words
        BY <3>2, <3>5 DEF KeyLines, Held
      <4> QED BY <3>1, <3>5, <4>1, SaidIs, WrittenType DEF L
    <3>6. CASE Kind[k] = "list"
      <4>1. KeyLines(k, <<v>>) = ListLines(k, v) /\ v \in Seq(Words)
        BY <3>2, <3>6 DEF KeyLines, Held
      <4>2. \A w \in Words : Written(k, w) \in L
        BY <3>6, SaidIs, WrittenType DEF L
      <4>3. [i \in DOMAIN v |-> Written(k, v[i])] \in Seq(L)
        BY <4>1, <4>2
      <4>4. FlattenSeq([i \in DOMAIN v |-> Written(k, v[i])]) \in L
        BY <4>3, FlattenType DEF L
      <4> QED BY <3>1, <4>1, <4>2, <4>4, WordFacts DEF ListLines
    <3>7. CASE Kind[k] = "order"
      <4>1. KeyLines(k, <<v>>) = OrderLines(k, v) /\ v \in Seq(Words) /\ k = OrderKey
        BY <3>2, <3>7, KindsApart DEF KeyLines, Held
      <4> QED BY <3>1, <4>1, OrderLinesType DEF L
    <3> QED BY <3>3, <3>4, <3>5, <3>6, <3>7, KindsApart
  <2> QED BY <2>1, <2>2
<1>2. parts \in Seq(L)
  <2>1. \A i \in DOMAIN KeyOrder : KeyLines(KeyOrder[i], cfg[KeyOrder[i]]) \in L
    BY <1>1, OrderFacts
  <2>2. Len(KeyOrder) \in Nat /\ DOMAIN KeyOrder = 1..Len(KeyOrder)
    BY KeysAssumption
  <2> HIDE DEF L
  <2> QED BY <2>1, <2>2
<1> HIDE DEF parts
<1>3. FlattenSeq(parts) \in Seq(Lines)
  BY <1>2, FlattenType
<1> QED BY <1>3 DEF Rendered, parts

LEMMA UnbrokenStorable ==
  ASSUME NEW cfg, Unbroken(cfg)
  PROVE  Storable(cfg)
<1> SUFFICES ASSUME NEW k \in Keys, cfg[k] # <<>>
             PROVE  \E v \in Held(k) :
                      cfg[k] = <<v>> /\ (k = OrderKey => ToSet(Front(v)) \subseteq Plain)
  BY DEF Storable
<1>1. PICK v \in Sayable(k) : cfg[k] = <<v>>
  BY DEF Unbroken
<1>2. v \in Held(k)
  <2>1. CASE Kind[k] \in {"list", "order"}
    <3>1. v \in Seq(Plain) /\ Plain \subseteq Words
      BY <2>1, WordFacts DEF Sayable
    <3>2. v \in Seq(Words)
      BY <3>1
    <3> QED BY <2>1, <3>2 DEF Held
  <2>2. CASE Kind[k] \notin {"list", "order"}
    BY <2>2, KindsApart, WordFacts DEF Sayable, Held
  <2> QED BY <2>1, <2>2
<1>3. k = OrderKey => ToSet(Front(v)) \subseteq Plain
  <2> SUFFICES ASSUME k = OrderKey PROVE ToSet(Front(v)) \subseteq Plain
    OBVIOUS
  <2>1. v \in Seq(Plain)
    BY KindsApart DEF Sayable
  <2>2. Front(v) \in Seq(Plain)
    BY <2>1 DEF Front
  <2> QED BY <2>2 DEF ToSet
<1> QED BY <1>1, <1>2, <1>3

LEMMA PatchStorable ==
  ASSUME NEW patch \in Patches
  PROVE  Storable(patch)
<1>1. IsSettings(patch) /\ (patch[OrderKey] = <<>> \/ ToSet(Front(patch[OrderKey][1])) \subseteq Plain)
  BY BodiesAssumption
<1> QED BY <1>1 DEF IsSettings, Storable

LEMMA DefaultFacts ==
  /\ Unbroken(Default) /\ Storable(Default)
  /\ \A k \in Keys : Default[k] = <<>> \/ \E v \in Sayable(k) :
       Default[k] = <<v>> /\ KeyLines(k, <<Meant(k, v)>>) = KeyLines(k, <<v>>)
<1>1. ASSUME NEW k \in Keys, Default[k] # <<>>
      PROVE  \E v \in Sayable(k) :
               Default[k] = <<v>> /\ KeyLines(k, <<Meant(k, v)>>) = KeyLines(k, <<v>>)
  <2> DEFINE v == Default[k][1]
  <2>1. v \in Held(k) /\ Default[k] = <<v>>
    BY <1>1, BodiesAssumption DEF IsSettings
  <2>2. /\ Kind[k] \in {"text", "mode"} => v \in Plain /\ Trim[v] = v
        /\ Kind[k] \in {"list", "order"} => v = <<>>
    BY <1>1, BodiesAssumption
  <2> HIDE DEF v
  <2>3. v \in Sayable(k)
    BY <2>1, <2>2, KindsApart DEF Sayable, Held
  <2>4. CASE Kind[k] # "list"
    <3>1. Named(<<>>) = <<>>
      BY FlattenEmpty DEF Named
    <3>2. Meant(k, v) = v
      BY <2>2, <2>4, <3>1, KindsApart DEF Meant
    <3> QED BY <2>1, <2>3, <3>2
  <2>5. CASE Kind[k] = "list"
    <3>1. v = <<>> /\ Meant(k, v) = <<"">>
      BY <2>2, <2>5 DEF Meant
    <3>2. <<"">> \in Sayable(k)
      <4>1. \A w \in Plain : <<w>> \in Seq(Plain)
        OBVIOUS
      <4> QED BY <2>5, <4>1, WordFacts DEF Sayable
    <3>3. SaidAs(k, <<"">>) = <<"">> /\ SaidAs(k, v) = <<"">>
      BY <2>5, <3>1 DEF SaidAs
    <3>4. KeyLines(k, <<Meant(k, v)>>) = KeyLines(k, <<v>>)
      BY <2>3, <3>1, <3>2, <3>3, KeyLinesAre
    <3> QED BY <2>1, <2>3, <3>4
  <2> QED BY <2>4, <2>5
<1>2. Unbroken(Default)
  BY <1>1 DEF Unbroken
<1> QED BY <1>1, <1>2, UnbrokenStorable

(* The settings that are read, and the other keys.                          *)
LEMMA ReadIsStorable ==
  ASSUME NEW text \in Texts
  PROVE  LET parsed == Parse(text) IN
         /\ DOMAIN parsed.cfg = Keys /\ Unbroken(parsed.cfg) /\ Storable(parsed.cfg)
         /\ \A k \in Keys : parsed.cfg[k] = Reads(text, k)
         /\ \A k \in Keys : parsed.cfg[k] = <<>> \/ \E v \in Sayable(k) :
              parsed.cfg[k] = <<v>> /\ Meant(k, v) = v
         /\ DOMAIN parsed.unknown = {o \in Others : ValuesOf(text, o) # <<>>}
         /\ \A o \in DOMAIN parsed.unknown :
              /\ parsed.unknown[o] = Trim[Last(ValuesOf(text, o))]
              /\ parsed.unknown[o] \in Plain /\ Trim[parsed.unknown[o]] = parsed.unknown[o]
<1> DEFINE ls == text.lines
           p == Parse(text)
<1>1. ls \in Seq(Lines)
  BY DEF Texts
<1>2. p = ReadOf(ls)
  BY <1>1, ParseIs
<1>3. p.cfg = [k \in Keys |-> ReadVals(Vals(ls, k), k)]
      /\ p.unknown = [k \in {o \in Others : Vals(ls, o) # <<>>} |-> Trim[Last(Vals(ls, k))]]
  BY <1>2 DEF ReadOf
<1>4. \A k : ValuesOf(text, k) = Vals(ls, k) /\ Reads(text, k) = ReadVals(Vals(ls, k), k)
  BY <1>1, ValuesAre
<1>5. \A k \in Keys : k \in Names /\ Vals(ls, k) \in Seq(Said(k))
  BY <1>1, KindsApart, ValsFacts
<1> HIDE DEF p, ls
<1>6. ASSUME NEW k \in Keys
      PROVE  p.cfg[k] = <<>> \/ \E v \in Sayable(k) : p.cfg[k] = <<v>> /\ Meant(k, v) = v
  <2>1. p.cfg[k] = ReadVals(Vals(ls, k), k)
    BY <1>3
  <2>2. CASE Vals(ls, k) = <<>>
    BY <2>1, <2>2 DEF ReadVals
  <2>3. CASE Vals(ls, k) # <<>>
    BY <1>5, <2>1, <2>3, ReadSettled
  <2> QED BY <2>2, <2>3
<1>7. Unbroken(p.cfg)
  BY <1>6 DEF Unbroken
<1>8. ASSUME NEW o \in DOMAIN p.unknown
      PROVE  /\ p.unknown[o] = Trim[Last(ValuesOf(text, o))]
             /\ p.unknown[o] \in Plain /\ Trim[p.unknown[o]] = p.unknown[o]
  <2>1. o \in Others /\ Vals(ls, o) # <<>> /\ p.unknown[o] = Trim[Last(Vals(ls, o))]
    BY <1>3, <1>8
  <2>2. Vals(ls, o) \in Seq(Plain)
    BY <1>1, <2>1, KindsApart, SaidIs, ValsFacts DEF ls
  <2>3. Last(Vals(ls, o)) \in Plain
    BY <2>1, <2>2 DEF Last
  <2> QED BY <1>4, <2>1, <2>3, WordFacts
<1>9. DOMAIN p.cfg = Keys /\ \A k \in Keys : p.cfg[k] = Reads(text, k)
  BY <1>3, <1>4
<1>10. DOMAIN p.unknown = {o \in Others : ValuesOf(text, o) # <<>>}
  BY <1>3, <1>4
<1> QED BY <1>6, <1>7, <1>8, <1>9, <1>10, UnbrokenStorable DEF p

LEMMA MergeStorable ==
  ASSUME NEW base, NEW patch
  PROVE  /\ Storable(base) /\ Storable(patch) => Storable(Merge(base, patch))
         /\ Unbroken(base) /\ Unbroken(patch) => Unbroken(Merge(base, patch))
         /\ \A k \in Keys : Merge(base, patch)[k] = IF patch[k] = <<>> THEN base[k] ELSE patch[k]
BY DEF Merge, Storable, Unbroken

LEMMA RewrittenType ==
  ASSUME NEW text, IsText(text), NEW patch, Storable(patch)
  PROVE  Rewritten(text, patch) \in Texts
<1>1. CASE text = NoFile
  <2>1. Rendered(Merge(Default, patch)) \in Seq(Lines)
    BY DefaultFacts, MergeStorable, RenderedType
  <2> QED BY <1>1, <2>1, WholeText DEF Rewritten
<1>2. CASE text # NoFile
  <2> DEFINE p == Parse(text)
             one == Rendered(Merge(p.cfg, patch))
             two == Preserved(p.unknown)
  <2>1. text \in Texts
    BY <1>2, LinesAre
  <2>2. Storable(p.cfg) /\ \A k \in DOMAIN p.unknown : p.unknown[k] \in Plain
    BY <2>1, ReadIsStorable
  <2>3. one \in Seq(Lines) /\ two \in Seq(Lines)
    BY <2>2, MergeStorable, RenderedType, PreservedSays
  <2>4. Rewritten(text, patch) = Whole(one \o two)
    BY <1>2 DEF Rewritten
  <2> HIDE DEF one, two
  <2>5. one \o two \in Seq(Lines)
    BY <2>3, Joined
  <2> QED BY <2>4, <2>5, WholeText
<1> QED BY <1>1, <1>2

LEMMA DefaultTextType == DefaultText \in Texts
<1>1. Rendered(Default) \in Seq(Lines)
  BY DefaultFacts, RenderedType
<1> QED BY <1>1, WholeText DEF DefaultText

LEMMA AppendedLine ==
  ASSUME NEW ls \in Seq(Lines), NEW l \in Lines
  PROVE  Append(ls, l) \in Seq(Lines)
OBVIOUS

(* Replaced, when there is a line of the key: each line by what stays of it. *)
EditedOf(lines, line) ==
  LET at == Positions(lines, line.key)
      Kept(i) == i \notin at \/ \A j \in at : i <= j
  IN  [i \in DOMAIN lines |->
         IF ~Kept(i) THEN <<>> ELSE IF i \in at THEN <<line>> ELSE <<lines[i]>>]

LEMMA EditedFacts ==
  ASSUME NEW text \in Texts, NEW line \in Lines
  PROVE  /\ EditedOf(text.lines, line) \in Seq(Seq(Lines))
         /\ DOMAIN EditedOf(text.lines, line) = DOMAIN text.lines
         /\ FlattenSeq(EditedOf(text.lines, line)) \in Seq(Lines)
         /\ Positions(text.lines, line.key) # {} =>
              /\ Replaced(text, line) \in Texts
              /\ Replaced(text, line).lines = FlattenSeq(EditedOf(text.lines, line))
         /\ Positions(text.lines, line.key) = {} =>
              /\ Replaced(text, line) \in Texts
              /\ Replaced(text, line).lines = Append(text.lines, line)
<1> DEFINE ls == text.lines
           edited == EditedOf(ls, line)
           L == Seq(Lines)
<1>1. ls \in L /\ \A i \in DOMAIN ls : ls[i] \in Lines
  BY DEF Texts
<1>2. edited \in Seq(L) /\ DOMAIN edited = DOMAIN ls
  <2>1. \A l \in Lines : <<l>> \in L
    OBVIOUS
  <2>2. <<>> \in L
    OBVIOUS
  <2>3. Len(ls) \in Nat /\ DOMAIN ls = 1..Len(ls)
    BY <1>1
  <2> HIDE DEF L
  <2>4. \A i \in DOMAIN ls : edited[i] \in L
    BY <1>1, <2>1, <2>2 DEF EditedOf
  <2>5. DOMAIN edited = DOMAIN ls /\ edited = [i \in DOMAIN ls |-> edited[i]]
    BY DEF EditedOf
  <2> HIDE DEF edited, ls
  <2> QED BY <2>3, <2>4, <2>5
<1>3. FlattenSeq(edited) \in L
  BY <1>2, FlattenType
<1>4. ASSUME Positions(ls, line.key) # {}
      PROVE  Replaced(text, line) \in Texts /\ Replaced(text, line).lines = FlattenSeq(edited)
  <2>1. Replaced(text, line) = [text EXCEPT !.lines = FlattenSeq(edited)]
    BY <1>4 DEF Replaced, EditedOf
  <2> DEFINE flat == FlattenSeq(edited)
  <2> HIDE DEF flat
  <2>2. [text EXCEPT !.lines = flat] \in Texts /\ [text EXCEPT !.lines = flat].lines = flat
    BY <1>3 DEF Texts, flat
  <2> QED BY <2>1, <2>2 DEF flat
<1>5. ASSUME Positions(ls, line.key) = {}
      PROVE  Replaced(text, line) \in Texts /\ Replaced(text, line).lines = Append(ls, line)
  <2>1. Replaced(text, line) = Whole(Append(ls, line))
    BY <1>5 DEF Replaced
  <2> QED BY <1>1, <2>1, AppendedLine, WholeText
<1> QED BY <1>2, <1>3, <1>4, <1>5

LEMMA ValidOrderNamed ==
  ASSUME NEW order \in Orders, ValidOrder(order)
  PROVE  Named(order) \in Said(OrderKey)
<1> DEFINE W == {w \in Words : Trim[w] \in Plain}
<1>1. order \in Seq(Words)
  BY BodiesAssumption
<1>2. \A i \in DOMAIN order : order[i] \in Words /\ Trim[order[i]] \in Plain
  <2> SUFFICES ASSUME NEW i \in DOMAIN order PROVE order[i] \in Words /\ Trim[order[i]] \in Plain
    OBVIOUS
  <2>1. order[i] \in Words
    BY <1>1
  <2>2. Trim[order[i]] \in Words /\ Trim[order[i]] \notin LineBroken
    BY <2>1, WordFacts DEF ValidOrder, ValidName, ValidPath, ValidWord
  <2> QED BY <2>1, <2>2 DEF Plain
<1>3. order \in Seq(W)
  BY <1>1, <1>2
<1>4. W \in SUBSET Words /\ \A w \in W : Trim[w] \in W
  BY WordFacts
<1>5. Named(order) \in Seq({w \in W : Trim[w] = w})
  BY <1>3, <1>4, NamedFacts
<1>6. {w \in W : Trim[w] = w} \subseteq Plain
  OBVIOUS
<1>7. Named(order) \in Seq(Plain)
  <2> DEFINE N == {w \in W : Trim[w] = w}
  <2> HIDE DEF N
  <2> QED BY <1>5, <1>6 DEF N
<1> QED BY <1>7, KindsApart, SaidIs

(* The file is always text that HR Neo and the parser read line by line,    *)
(* whatever a body or an order holds: a value with a line break in it       *)
(* becomes other lines, never half of one.                                  *)
THEOREM TypeCorrect == Spec => []TypeOK
<1>1. Init => TypeOK
  <2>1. MaxRequests \in Nat
    BY WordsAssumption
  <2> QED BY <2>1, TextsAssumption DEF Init, TypeOK
<1>2. TypeOK /\ [Next]_vars => TypeOK'
  <2> SUFFICES ASSUME TypeOK, [Next]_vars PROVE TypeOK'
    OBVIOUS
  <2>0. IsText(file) /\ count \in 0..MaxRequests /\ MaxRequests \in Nat
    BY WordsAssumption DEF TypeOK
  <2>a. ASSUME NEW text \in Texts PROVE IsText(text)
    BY LinesAre
  <2>b. ASSUME NEW request, Serve(request) PROVE count' \in 0..MaxRequests
    BY <2>0, <2>b DEF Serve
  <2>1. ASSUME NEW patch \in Patches, PutStructured(patch) PROVE TypeOK'
    <3>1. Rewritten(file, patch) \in Texts
      BY <2>0, PatchStorable, RewrittenType
    <3>2. IsText(file')
      BY <2>0, <2>1, <2>a, <3>1 DEF PutStructured
    <3> QED BY <2>1, <2>b, <3>2 DEF PutStructured, TypeOK
  <2>2. ASSUME NEW order \in Orders, PutOrder(order) PROVE TypeOK'
    <3> DEFINE line == [key |-> OrderKey, val |-> Named(order)]
    <3>1. ValidOrder(order) /\ file # NoFile => Replaced(file, line) \in Texts
      <4> SUFFICES ASSUME ValidOrder(order), file # NoFile PROVE Replaced(file, line) \in Texts
        OBVIOUS
      <4>1. file \in Texts
        BY <2>0, LinesAre
      <4>2. line \in Lines
        BY ValidOrderNamed, KindsApart, MakeLine
      <4> HIDE DEF line
      <4> QED BY <4>1, <4>2, EditedFacts
    <3>2. IsText(file')
      BY <2>0, <2>2, <2>a, <3>1 DEF PutOrder
    <3> QED BY <2>2, <2>b, <3>2 DEF PutOrder, TypeOK
  <2>3. ASSUME GenerateDefault PROVE TypeOK'
    <3>1. IsText(file')
      BY <2>3, <2>a, DefaultTextType DEF GenerateDefault
    <3> QED BY <2>3, <2>b, <3>1 DEF GenerateDefault, TypeOK
  <2>4. ASSUME NEW k \in ListKeys, NEW path \in Links, Link(k, path) PROVE TypeOK'
    <3> DEFINE line == [key |-> k, val |-> Trim[path]]
               base == IF file = NoFile THEN DefaultText ELSE file
    <3>1. line \in Lines
      <4>1. k \in Keys /\ Kind[k] = "list"
        BY DEF ListKeys
      <4>2. k \in Names /\ Trim[path] \in Said(k)
        BY <4>1, BodiesAssumption, KindsApart, SaidIs
      <4> QED BY <4>2, MakeLine
    <3>2. base.lines \in Seq(Lines)
      BY <2>0, DefaultTextType, LinesAre DEF Texts
    <3> HIDE DEF line
    <3>3. Whole(Append(base.lines, line)) \in Texts
      BY <3>1, <3>2, AppendedLine, WholeText
    <3>4. Linked(file, line) \in {file, Whole(Append(base.lines, line))}
      BY DEF Linked
    <3>5. IsText(file')
      BY <2>0, <2>4, <2>a, <3>3, <3>4 DEF Link, line
    <3> QED BY <2>4, <2>b, <3>5 DEF Link, TypeOK
  <2>5. CASE UNCHANGED vars
    BY <2>0, <2>5 DEF vars, TypeOK
  <2> QED BY <2>1, <2>2, <2>3, <2>4, <2>5 DEF Next
<1> QED BY <1>1, <1>2, PTL DEF Spec

(***************************************************************************)
(* The structured write.                                                   *)
(***************************************************************************)

LEMMA ValidUnbroken ==
  ASSUME NEW patch \in Patches, Valid(patch), ~BrokenBody(patch)
  PROVE  Unbroken(patch)
<1> SUFFICES ASSUME NEW k \in Keys, patch[k] # <<>>
             PROVE  \E v \in Sayable(k) : patch[k] = <<v>>
  BY DEF Unbroken
<1> DEFINE v == patch[k][1]
<1>1. v \in Held(k) /\ patch[k] = <<v>>
  BY BodiesAssumption DEF IsSettings
<1>2. ValidKey(k, v)
  BY DEF Valid
<1>3. Kind[k] \in {"list", "order"} => \A i \in DOMAIN v : v[i] \notin LineBroken
  BY DEF BrokenBody
<1> HIDE DEF v
<1>4. CASE Kind[k] \in {"list", "order"}
  <2>1. v \in Seq(Words)
    BY <1>1, <1>4 DEF Held
  <2>2. \A i \in DOMAIN v : v[i] \in Plain
    <3>1. \A i \in DOMAIN v : v[i] \in Words
      BY <2>1
    <3> QED BY <1>3, <1>4, <3>1 DEF Plain
  <2>3. v \in Seq(Plain)
    BY <2>1, <2>2
  <2> QED BY <1>1, <1>4, <2>3 DEF Sayable
<1>5. CASE Kind[k] \in {"bool", "int", "positive"}
  BY <1>1, <1>5 DEF Sayable, Held
<1>6. CASE Kind[k] = "text"
  BY <1>1, <1>2, <1>6 DEF Sayable, Held, ValidKey, ValidWord, Plain
<1>7. CASE Kind[k] = "mode"
  BY <1>1, <1>2, <1>7, WordsAssumption DEF Sayable, Held, ValidKey
<1> QED BY <1>4, <1>5, <1>6, <1>7, KindsApart

(* How a text reads that holds settings and lines of other keys.            *)
LEMMA HoldingReads ==
  ASSUME NEW cfg, Unbroken(cfg), NEW more \in Seq(Lines), \A k \in Keys : Vals(more, k) = <<>>
  PROVE  LET text == Whole(Rendered(cfg) \o more) IN
         /\ text \in Texts /\ text.lines = Rendered(cfg) \o more
         /\ \A k \in Keys : Reads(text, k) = IF cfg[k] = <<>> THEN <<>> ELSE <<Meant(k, cfg[k][1])>>
         /\ \A o \in Others : ValuesOf(text, o) = Vals(more, o)
<1> DEFINE one == Rendered(cfg)
           text == Whole(one \o more)
<1>1. one \in Seq(Lines)
  BY RenderedSays
<1>2. one \o more \in Seq(Lines)
  BY <1>1, Joined
<1>3. text \in Texts /\ text.lines = one \o more
  BY <1>2, WholeText
<1>4. ASSUME NEW k \in Names PROVE Vals(one \o more, k) = Vals(one, k) \o Vals(more, k)
  BY <1>1, ValsFacts
<1>5. \A k \in Keys : Vals(one, k) = IF cfg[k] = <<>> THEN <<>> ELSE SaidAs(k, cfg[k][1])
  BY RenderedSays
<1>6. \A o \in Others : Vals(one, o) = <<>>
  BY RenderedSays
<1>7. \A k : ValuesOf(text, k) = Vals(text.lines, k) /\ Reads(text, k) = ReadVals(Vals(text.lines, k), k)
  BY <1>2, <1>3, ValuesAre
<1> HIDE DEF one, text
<1>8. ASSUME NEW k \in Keys
      PROVE  Reads(text, k) = IF cfg[k] = <<>> THEN <<>> ELSE <<Meant(k, cfg[k][1])>>
  <2>1. k \in Names /\ Vals(more, k) = <<>>
    BY KindsApart
  <2>2. Vals(one, k) \in Seq(Said(k))
    BY <1>1, <2>1, ValsFacts
  <2>3. Vals(one, k) \o <<>> = Vals(one, k)
    <3> DEFINE S == Said(k)
               s == Vals(one, k)
    <3>1. s \in Seq(S)
      BY <2>2
    <3> HIDE DEF S, s
    <3>2. s \o <<>> = s
      BY <3>1
    <3> QED BY <3>2 DEF s
  <2>4. Reads(text, k) = ReadVals(Vals(one, k), k)
    BY <1>3, <1>4, <1>7, <2>1, <2>3
  <2>5. CASE cfg[k] = <<>>
    BY <1>5, <2>4, <2>5 DEF ReadVals
  <2>6. CASE cfg[k] # <<>>
    <3>1. PICK v \in Sayable(k) : cfg[k] = <<v>>
      BY <2>6 DEF Unbroken
    <3>2. cfg[k][1] = v
      BY <3>1
    <3> QED BY <1>5, <2>4, <2>6, <3>2, WrittenReads
  <2> QED BY <2>5, <2>6
<1>9. ASSUME NEW o \in Others PROVE ValuesOf(text, o) = Vals(more, o)
  <2>1. o \in Names
    BY KindsApart
  <2>2. Vals(more, o) \in Seq(Said(o))
    BY <2>1, ValsFacts
  <2>3. <<>> \o Vals(more, o) = Vals(more, o)
    <3> DEFINE S == Said(o)
               s == Vals(more, o)
    <3>1. s \in Seq(S)
      BY <2>2
    <3> HIDE DEF S, s
    <3>2. <<>> \o s = s
      BY <3>1
    <3> QED BY <3>2 DEF s
  <2> QED BY <1>3, <1>4, <1>6, <1>7, <2>1, <2>3
<1> QED BY <1>3, <1>8, <1>9 DEF text, one

LEMMA NothingMore ==
  /\ <<>> \in Seq(Lines) /\ \A k \in Names : Vals(<<>>, k) = <<>>
  /\ \A cfg : Unbroken(cfg) => Rendered(cfg) \o <<>> = Rendered(cfg)
<1>1. ASSUME NEW cfg, Unbroken(cfg) PROVE Rendered(cfg) \o <<>> = Rendered(cfg)
  <2> DEFINE s == Rendered(cfg)
  <2>1. s \in Seq(Lines)
    BY <1>1, RenderedSays
  <2> HIDE DEF s
  <2>2. s \o <<>> = s
    BY <2>1
  <2> QED BY <2>2 DEF s
<1> QED BY <1>1, ValsFacts

LEMMA RewrittenReads ==
  ASSUME NEW text, IsText(text), NEW patch, Unbroken(patch)
  PROVE  LET before == IF text = NoFile THEN DefaultText ELSE text
             after == Rewritten(text, patch)
         IN  /\ \A k \in Keys : Reads(after, k) =
                  IF patch[k] = <<>> THEN Reads(before, k) ELSE <<Meant(k, patch[k][1])>>
             /\ \A k \in ToSet(OtherKeys) :
                  ValuesOf(after, k) = IF ValuesOf(before, k) = <<>> THEN <<>>
                                       ELSE <<Trim[Last(ValuesOf(before, k))]>>
             /\ ValuesOf(after, NoName) = <<>>
<1> DEFINE before == IF text = NoFile THEN DefaultText ELSE text
           after == Rewritten(text, patch)
<1>0. /\ \A k \in Keys : k \in Names
      /\ \A k \in ToSet(OtherKeys) \cup {NoName} : k \in Names /\ k \in Others
  BY KindsApart DEF Others
<1>1. CASE text = NoFile
  <2> DEFINE cfg == Merge(Default, patch)
  <2>1. Unbroken(Default) /\ Unbroken(cfg)
        /\ \A k \in Keys : cfg[k] = IF patch[k] = <<>> THEN Default[k] ELSE patch[k]
    BY DefaultFacts, MergeStorable
  <2>2. after = Whole(Rendered(cfg) \o <<>>) /\ before = Whole(Rendered(Default) \o <<>>)
    BY <1>1, <2>1, NothingMore DEF Rewritten, DefaultText
  <2> HIDE DEF cfg
  <2>a. <<>> \in Seq(Lines) /\ \A k \in Keys : Vals(<<>>, k) = <<>>
    BY <1>0, NothingMore
  <2> HIDE DEF before, after
  <2>3. /\ \A k \in Keys : Reads(after, k) = IF cfg[k] = <<>> THEN <<>> ELSE <<Meant(k, cfg[k][1])>>
        /\ \A o \in Others : ValuesOf(after, o) = Vals(<<>>, o)
    BY <2>1, <2>2, <2>a, HoldingReads
  <2>4. /\ \A k \in Keys : Reads(before, k) =
             IF Default[k] = <<>> THEN <<>> ELSE <<Meant(k, Default[k][1])>>
        /\ \A o \in Others : ValuesOf(before, o) = Vals(<<>>, o)
    BY <2>1, <2>2, <2>a, HoldingReads
  <2> QED BY <1>0, <2>1, <2>3, <2>4, NothingMore DEF before, after
<1>2. CASE text # NoFile
  <2> DEFINE p == Parse(text)
             cfg == Merge(p.cfg, patch)
             more == Preserved(p.unknown)
  <2>1. text \in Texts
    BY <1>2, LinesAre
  <2>2. /\ Unbroken(p.cfg) /\ \A k \in Keys : p.cfg[k] = Reads(text, k)
        /\ \A k \in Keys : p.cfg[k] = <<>> \/ \E v \in Sayable(k) : p.cfg[k] = <<v>> /\ Meant(k, v) = v
        /\ DOMAIN p.unknown = {o \in Others : ValuesOf(text, o) # <<>>}
        /\ \A o \in DOMAIN p.unknown :
             p.unknown[o] = Trim[Last(ValuesOf(text, o))] /\ p.unknown[o] \in Plain
    BY <2>1, ReadIsStorable
  <2> HIDE DEF p
  <2>3. Unbroken(cfg) /\ \A k \in Keys : cfg[k] = IF patch[k] = <<>> THEN p.cfg[k] ELSE patch[k]
    BY <2>2, MergeStorable
  <2>4. /\ more \in Seq(Lines)
        /\ \A k \in Keys \cup {NoName} : Vals(more, k) = <<>>
        /\ \A k \in ToSet(OtherKeys) : Vals(more, k)
                                          = IF k \in DOMAIN p.unknown THEN <<p.unknown[k]>> ELSE <<>>
    BY <2>2, PreservedSays
  <2>5. after = Whole(Rendered(cfg) \o more) /\ before = text
    BY <1>2 DEF Rewritten, p
  <2> HIDE DEF cfg, more
  <2>6. /\ \A k \in Keys : Reads(after, k) = IF cfg[k] = <<>> THEN <<>> ELSE <<Meant(k, cfg[k][1])>>
        /\ \A o \in Others : ValuesOf(after, o) = Vals(more, o)
    BY <2>3, <2>4, <2>5, HoldingReads
  <2> HIDE DEF before, after
  <2>7. ASSUME NEW k \in Keys
        PROVE  Reads(after, k) = IF patch[k] = <<>> THEN Reads(before, k) ELSE <<Meant(k, patch[k][1])>>
    <3>1. CASE patch[k] = <<>>
      <4>1. cfg[k] = p.cfg[k] /\ Reads(before, k) = p.cfg[k]
        BY <2>2, <2>3, <2>5, <3>1
      <4>2. CASE p.cfg[k] = <<>>
        BY <2>6, <3>1, <4>1, <4>2
      <4>3. CASE p.cfg[k] # <<>>
        <5>1. PICK v \in Sayable(k) : p.cfg[k] = <<v>> /\ Meant(k, v) = v
          BY <2>2, <4>3
        <5>2. p.cfg[k][1] = v
          BY <5>1
        <5> QED BY <2>6, <3>1, <4>1, <4>3, <5>1, <5>2
      <4> QED BY <4>2, <4>3
    <3>2. CASE patch[k] # <<>>
      BY <2>3, <2>6, <3>2
    <3> QED BY <3>1, <3>2
  <2>8. ASSUME NEW k \in ToSet(OtherKeys)
        PROVE  ValuesOf(after, k) = IF ValuesOf(before, k) = <<>> THEN <<>>
                                    ELSE <<Trim[Last(ValuesOf(before, k))]>>
    <3>1. k \in Others /\ before = text
      BY <1>0, <2>5
    <3>2. k \in DOMAIN p.unknown <=> ValuesOf(text, k) # <<>>
      BY <2>2, <3>1
    <3> QED BY <2>2, <2>4, <2>6, <3>1, <3>2
  <2>9. ValuesOf(after, NoName) = <<>>
    BY <1>0, <2>4, <2>6
  <2> QED BY <2>7, <2>8, <2>9 DEF before, after
<1> QED BY <1>1, <1>2

(* A structured write that is accepted changes the settings it names to     *)
(* what it says and leaves what it omits as it was read, whatever a file    *)
(* held; but for a name that is valid only because its break is trimmed.    *)
THEOREM PutIsExact == Spec => PutChangesOnlyWhatItNames
<1> DEFINE P == count' # count /\ last'.op = "put" =>
                  LET patch == last'.patch
                      Before == IF file = NoFile THEN DefaultText ELSE file
                  IN  IF ~last'.valid THEN file' = file
                      ELSE ~BrokenBody(patch) =>
                           /\ \A k \in Keys : Reads(file', k) =
                                IF patch[k] = <<>> THEN Reads(Before, k) ELSE <<Meant(k, patch[k][1])>>
                           /\ \A k \in ToSet(OtherKeys) :
                                LET was == ValuesOf(Before, k)
                                IN  ValuesOf(file', k) = IF was = <<>> THEN <<>> ELSE <<Trim[Last(was)]>>
<1>1. TypeOK /\ [Next]_vars => [P]_vars
  <2> SUFFICES ASSUME TypeOK, Next, count' # count, last'.op = "put" PROVE P
    BY DEF vars
  <2>1. PICK patch \in Patches : PutStructured(patch)
    <3>1. ASSUME NEW order \in Orders, PutOrder(order) PROVE last'.op = "order"
      BY <3>1 DEF PutOrder, Serve
    <3>2. GenerateDefault => last'.op = "default"
      BY DEF GenerateDefault, Serve
    <3>3. ASSUME NEW k \in ListKeys, NEW path \in Links, Link(k, path) PROVE last'.op = "link"
      BY <3>3 DEF Link, Serve
    <3> QED BY <3>1, <3>2, <3>3 DEF Next
  <2>2. last' = [op |-> "put", patch |-> patch, valid |-> Valid(patch)]
        /\ file' = IF Valid(patch) THEN Rewritten(file, patch) ELSE file
    BY <2>1 DEF PutStructured, Serve
  <2>3. last'.patch = patch /\ last'.valid = Valid(patch)
    BY <2>2
  <2>4. CASE ~Valid(patch)
    BY <2>2, <2>3, <2>4
  <2>5. CASE Valid(patch) /\ ~BrokenBody(patch)
    <3>1. Unbroken(patch) /\ IsText(file) /\ file' = Rewritten(file, patch)
      BY <2>2, <2>5, ValidUnbroken DEF TypeOK
    <3> QED BY <2>3, <2>5, <3>1, RewrittenReads
  <2>6. CASE Valid(patch) /\ BrokenBody(patch)
    BY <2>3, <2>6
  <2> QED BY <2>4, <2>5, <2>6
<1> QED BY <1>1, TypeCorrect, PTL DEF Spec, PutChangesOnlyWhatItNames

LEMMA SameParts ==
  /\ \A c, d : (\A k \in Keys : KeyLines(k, c[k]) = KeyLines(k, d[k])) => Rendered(c) = Rendered(d)
  /\ \A u, w : (\A k \in ToSet(OtherKeys) : (k \in DOMAIN u <=> k \in DOMAIN w)
                                              /\ (k \in DOMAIN u => u[k] = w[k]))
                 => Preserved(u) = Preserved(w)
<1>1. ASSUME NEW c, NEW d, \A k \in Keys : KeyLines(k, c[k]) = KeyLines(k, d[k])
      PROVE  Rendered(c) = Rendered(d)
  <2>1. [i \in DOMAIN KeyOrder |-> KeyLines(KeyOrder[i], c[KeyOrder[i]])]
          = [i \in DOMAIN KeyOrder |-> KeyLines(KeyOrder[i], d[KeyOrder[i]])]
    BY <1>1, OrderFacts
  <2> QED BY <2>1 DEF Rendered
<1>2. ASSUME NEW u, NEW w, \A k \in ToSet(OtherKeys) : (k \in DOMAIN u <=> k \in DOMAIN w)
                                                         /\ (k \in DOMAIN u => u[k] = w[k])
      PROVE  Preserved(u) = Preserved(w)
  <2> DEFINE LineOf(x, k) == IF k \in DOMAIN x THEN <<[key |-> k, val |-> x[k]]>> ELSE <<>>
  <2>1. \A i \in DOMAIN OtherKeys : OtherKeys[i] \in ToSet(OtherKeys)
    BY DEF ToSet
  <2>2. \A k \in ToSet(OtherKeys) : LineOf(u, k) = LineOf(w, k)
    BY <1>2
  <2>3. [i \in DOMAIN OtherKeys |-> LineOf(u, OtherKeys[i])]
          = [i \in DOMAIN OtherKeys |-> LineOf(w, OtherKeys[i])]
    <3> HIDE DEF LineOf
    <3> QED BY <2>1, <2>2
  <2> QED BY <2>3 DEF Preserved
<1> QED BY <1>1, <1>2

LEMMA EmptyPatch ==
  /\ \A k \in Keys : Empty[k] = <<>>
  /\ Unbroken(Empty) /\ Storable(Empty)
  /\ \A cfg : DOMAIN cfg = Keys => \A k \in Keys : Merge(cfg, Empty)[k] = cfg[k]
<1>1. \A k \in Keys : Empty[k] = <<>>
  BY DEF Empty
<1> QED BY <1>1 DEF Merge, Unbroken, Storable

LEMMA FirstRewrite ==
  ASSUME NEW text, IsText(text)
  PROVE  LET once == Rewritten(text, Empty) IN
         /\ once \in Texts /\ Rewritten(once, Empty) = once
         /\ text # NoFile =>
              /\ Parse(once).cfg = Parse(text).cfg
              /\ DOMAIN Parse(once).unknown = DOMAIN Parse(text).unknown \ {NoName}
<1> DEFINE once == Rewritten(text, Empty)
           q == Parse(once)
<1>0. /\ \A k \in Keys : k \in Names
      /\ \A k \in ToSet(OtherKeys) : k \in Others /\ k # NoName
      /\ Others = ToSet(OtherKeys) \cup {NoName}
  BY KindsApart, KeysAssumption DEF Others
<1>1. once \in Texts
  BY EmptyPatch, RewrittenType
<1>2. once # NoFile
  BY <1>1, TextsAssumption DEF Texts
<1>3. Rewritten(once, Empty) = Whole(Rendered(Merge(q.cfg, Empty)) \o Preserved(q.unknown))
  BY <1>2 DEF Rewritten
<1>4. /\ DOMAIN q.cfg = Keys /\ \A k \in Keys : q.cfg[k] = Reads(once, k)
      /\ DOMAIN q.unknown = {o \in Others : ValuesOf(once, o) # <<>>}
      /\ \A o \in DOMAIN q.unknown :
           q.unknown[o] = Trim[Last(ValuesOf(once, o))] /\ q.unknown[o] \in Plain
  BY <1>1, ReadIsStorable
<1>5. \A x : Last(<<x>>) = x /\ <<x>> # <<>>
  BY DEF Last
<1> DEFINE before == IF text = NoFile THEN DefaultText ELSE text
<1>6. /\ \A k \in Keys : Reads(once, k) = Reads(before, k)
      /\ \A k \in ToSet(OtherKeys) :
           ValuesOf(once, k) = IF ValuesOf(before, k) = <<>> THEN <<>>
                               ELSE <<Trim[Last(ValuesOf(before, k))]>>
      /\ ValuesOf(once, NoName) = <<>>
  BY EmptyPatch, RewrittenReads
<1>7. CASE text = NoFile
  <2>1. once = Whole(Rendered(Default) \o <<>>) /\ before = once
    <3>1. Rewritten(text, Empty) = Whole(Rendered(Merge(Default, Empty)))
      BY <1>7 DEF Rewritten
    <3>2. \A k \in Keys : Merge(Default, Empty)[k] = Default[k]
      BY EmptyPatch, MergeStorable
    <3>3. Rendered(Merge(Default, Empty)) = Rendered(Default)
      BY <3>2, SameParts
    <3> QED BY <1>7, <3>1, <3>3, DefaultFacts, NothingMore DEF DefaultText
  <2>2. /\ \A k \in Keys : Reads(once, k) = IF Default[k] = <<>> THEN <<>>
                                            ELSE <<Meant(k, Default[k][1])>>
        /\ \A o \in Others : ValuesOf(once, o) = <<>>
    <3>1. <<>> \in Seq(Lines) /\ (\A k \in Keys : Vals(<<>>, k) = <<>>)
          /\ (\A o \in Others : Vals(<<>>, o) = <<>>)
      BY KindsApart, NothingMore
    <3>2. Unbroken(Default)
      BY DefaultFacts
    <3> DEFINE held == Whole(Rendered(Default) \o <<>>)
    <3> HIDE DEF once
    <3>3. /\ \A k \in Keys : Reads(held, k) = IF Default[k] = <<>> THEN <<>>
                                              ELSE <<Meant(k, Default[k][1])>>
          /\ \A o \in Others : ValuesOf(held, o) = Vals(<<>>, o)
      BY <3>1, <3>2, HoldingReads
    <3> HIDE DEF held
    <3>4. once = held
      BY <2>1 DEF held
    <3> QED BY <3>1, <3>3, <3>4
  <2> HIDE DEF once, q, before
  <2>3. ASSUME NEW k \in Keys PROVE KeyLines(k, Merge(q.cfg, Empty)[k]) = KeyLines(k, Default[k])
    <3>1. Merge(q.cfg, Empty)[k] = q.cfg[k]
      BY EmptyPatch, MergeStorable
    <3>2. CASE Default[k] = <<>>
      BY <1>4, <2>2, <3>1, <3>2
    <3>3. CASE Default[k] # <<>>
      <4>1. PICK v \in Sayable(k) :
              Default[k] = <<v>> /\ KeyLines(k, <<Meant(k, v)>>) = KeyLines(k, <<v>>)
        BY <3>3, DefaultFacts
      <4>2. Default[k][1] = v
        BY <4>1
      <4> QED BY <1>4, <2>2, <3>1, <3>3, <4>1, <4>2
    <3> QED BY <3>2, <3>3
  <2>4. Rendered(Merge(q.cfg, Empty)) = Rendered(Default)
    BY <2>3, SameParts
  <2>5. Preserved(q.unknown) = <<>>
    <3>1. DOMAIN q.unknown = {}
      BY <1>4, <2>2
    <3>2. \A k : k \notin DOMAIN q.unknown
      BY <3>1
    <3>3. DOMAIN OtherKeys = 1..Len(OtherKeys) /\ Len(OtherKeys) \in Nat
      BY KeysAssumption
    <3> DEFINE nothing == [i \in DOMAIN OtherKeys |-> <<>>]
    <3>4. Preserved(q.unknown) = FlattenSeq(nothing)
      BY <3>2 DEF Preserved
    <3>5. nothing \in Seq(Seq(Lines)) /\ \A i \in DOMAIN nothing : nothing[i] = <<>>
      <4> DEFINE L == Seq(Lines)
      <4>1. <<>> \in L
        BY NothingMore
      <4> HIDE DEF L
      <4>2. nothing \in Seq(L)
        BY <3>3, <4>1
      <4> QED BY <4>2 DEF L
    <3> HIDE DEF nothing
    <3> QED BY <3>4, <3>5, FlattenNothing
  <2> QED BY <1>1, <1>3, <1>7, <2>1, <2>4, <2>5 DEF once
<1>8. CASE text # NoFile
  <2> DEFINE p == Parse(text)
  <2>1. text \in Texts /\ before = text
    BY <1>8, LinesAre
  <2>2. /\ DOMAIN p.cfg = Keys /\ \A k \in Keys : p.cfg[k] = Reads(text, k)
        /\ DOMAIN p.unknown = {o \in Others : ValuesOf(text, o) # <<>>}
        /\ \A o \in DOMAIN p.unknown : p.unknown[o] = Trim[Last(ValuesOf(text, o))]
                                          /\ Trim[p.unknown[o]] = p.unknown[o]
    BY <2>1, ReadIsStorable
  <2>3. once = Whole(Rendered(Merge(p.cfg, Empty)) \o Preserved(p.unknown))
    BY <1>8 DEF Rewritten
  <2>4. ReadOf(text.lines).cfg = p.cfg /\ ReadOf(once.lines).cfg = q.cfg
    <3>1. text.lines \in Seq(Lines) /\ once.lines \in Seq(Lines)
      BY <1>1, <2>1 DEF Texts
    <3>2. p = ReadOf(text.lines)
      BY <3>1, ParseIs
    <3>3. q = ReadOf(once.lines)
      <4> HIDE DEF once
      <4> QED BY <3>1, ParseIs
    <3> QED BY <3>2, <3>3
  <2>5. p.cfg = [k \in Keys |-> p.cfg[k]] /\ q.cfg = [k \in Keys |-> q.cfg[k]]
    BY <2>4 DEF ReadOf
  <2> HIDE DEF once, q, p, before
  <2>6. q.cfg = p.cfg
    BY <1>4, <1>6, <2>1, <2>2, <2>5
  <2>7. DOMAIN q.unknown = DOMAIN p.unknown \ {NoName}
    <3>1. \A o \in ToSet(OtherKeys) : ValuesOf(once, o) # <<>> <=> ValuesOf(text, o) # <<>>
      BY <1>5, <1>6, <2>1
    <3> QED BY <1>0, <1>4, <1>6, <2>2, <3>1
  <2>8. \A k \in ToSet(OtherKeys) : k \in DOMAIN q.unknown => q.unknown[k] = p.unknown[k]
    <3> SUFFICES ASSUME NEW k \in ToSet(OtherKeys), k \in DOMAIN q.unknown
                 PROVE  q.unknown[k] = p.unknown[k]
      OBVIOUS
    <3>1. k \in DOMAIN p.unknown
      BY <2>7
    <3>2. ValuesOf(text, k) # <<>>
      BY <2>2, <3>1
    <3>3. ValuesOf(once, k) = <<Trim[Last(ValuesOf(text, k))]>>
      BY <1>6, <2>1, <3>2
    <3> QED BY <1>4, <1>5, <2>2, <3>1, <3>3
  <2>9. Preserved(q.unknown) = Preserved(p.unknown)
    BY <1>0, <2>7, <2>8, SameParts
  <2>10. Rewritten(once, Empty) = once
    BY <1>3, <2>3, <2>6, <2>9
  <2> QED BY <1>1, <2>6, <2>7, <2>10 DEF once, q, p
<1> QED BY <1>7, <1>8

(* A structured write that names nothing brings any file into a form of its *)
(* own, and the report misses, does not know and refuses what it did.       *)
THEOREM RewritesAreSettled == Spec => []RewritesSettle
<1>1. TypeOK => RewritesSettle
  <2> SUFFICES ASSUME IsText(file) PROVE RewritesSettle
    BY DEF TypeOK
  <2> DEFINE once == Rewritten(file, Empty)
  <2>1. /\ Rewritten(once, Empty) = once
        /\ file # NoFile =>
              /\ Parse(once).cfg = Parse(file).cfg
              /\ DOMAIN Parse(once).unknown = DOMAIN Parse(file).unknown \ {NoName}
    BY FirstRewrite
  <2> HIDE DEF once
  <2> QED BY <2>1 DEF once, RewritesSettle, Missing, Unknown, Compatible, NoName
<1> QED BY <1>1, TypeCorrect, PTL

(***************************************************************************)
(* The target order.                                                       *)
(***************************************************************************)

(* The lines of other keys. *)
NotOf(key) == [l \in Lines |-> IF l.key = key THEN <<>> ELSE <<l>>]

LEMMA NotOfType ==
  ASSUME NEW key
  PROVE  NotOf(key) \in [Lines -> Seq(Lines)]
<1>1. \A l \in Lines : <<l>> \in Seq(Lines) /\ <<>> \in Seq(Lines)
  OBVIOUS
<1> QED BY <1>1 DEF NotOf

LEMMA OneMapped ==
  ASSUME NEW R, NEW f \in [Lines -> Seq(R)], NEW l \in Lines
  PROVE  MapFlat(f, <<l>>) = f[l]
<1>1. MapFlat(f, <<>>) = <<>> /\ <<>> \in Seq(Lines)
  BY MapFlatEmpty
<1>2. MapFlat(f, Append(<<>>, l)) = <<>> \o f[l]
  BY <1>1, MapFlatAppend
<1>3. Append(<<>>, l) = <<l>>
  OBVIOUS
<1>4. <<>> \o f[l] = f[l]
  <2> DEFINE s == f[l]
  <2>1. s \in Seq(R)
    OBVIOUS
  <2> HIDE DEF s
  <2>2. <<>> \o s = s
    BY <2>1
  <2> QED BY <2>2 DEF s
<1> QED BY <1>2, <1>3, <1>4

LEMMA SmallestPosition ==
  ASSUME NEW at \in SUBSET Nat, at # {}
  PROVE  \E j \in at : \A i \in at : j <= i
<1>1. \E j \in at : \A i \in at : ~ (<<i, j>> \in OpToRel(<, Nat))
  BY NatLessThanWellFounded, WFMin
<1>2. PICK j \in at : \A i \in at : ~ (<<i, j>> \in OpToRel(<, Nat))
  BY <1>1
<1>3. \A i \in at : i \in Nat /\ j \in Nat /\ ~ (i < j)
  BY <1>2 DEF OpToRel
<1>4. \A i \in at : j <= i
  BY <1>3
<1> QED BY <1>4

LEMMA ReplacedFacts ==
  ASSUME NEW text \in Texts, NEW line \in Lines, line.key \in Names
  PROVE  /\ MapFlat(NotOf(line.key), Replaced(text, line).lines)
              = MapFlat(NotOf(line.key), text.lines)
         /\ Vals(Replaced(text, line).lines, line.key) = <<line.val>>
<1> DEFINE ls == text.lines
           key == line.key
           at == Positions(ls, key)
           edited == EditedOf(ls, line)
           new == Replaced(text, line)
           g == NotOf(key)
<1>1. ls \in Seq(Lines) /\ \A i \in DOMAIN ls : ls[i] \in Lines
  BY DEF Texts
<1>2. at = {i \in DOMAIN ls : ls[i].key = key}
  BY DEF Positions
<1>3. g \in [Lines -> Seq(Lines)] /\ \A l \in Lines : g[l] = IF l.key = key THEN <<>> ELSE <<l>>
  BY NotOfType DEF NotOf
<1>4. CASE at = {}
  <2>1. new.lines = Append(ls, line)
    BY <1>4, EditedFacts
  <2>2. MapFlat(g, Append(ls, line)) = MapFlat(g, ls) \o g[line]
    BY <1>1, <1>3, MapFlatAppend
  <2>3. MapFlat(g, ls) \o <<>> = MapFlat(g, ls)
    <3> DEFINE s == MapFlat(g, ls)
    <3>1. s \in Seq(Lines)
      BY <1>1, <1>3, MapFlatType
    <3> HIDE DEF s
    <3>2. s \o <<>> = s
      BY <3>1
    <3> QED BY <3>2 DEF s
  <2>4. Vals(ls, key) = <<>>
    <3>1. MapSeq(OfKey(key), ls) \in Seq(Seq(Said(key)))
      BY <1>1, OfKeyType, MapFlatType
    <3>2. DOMAIN MapSeq(OfKey(key), ls) = DOMAIN ls
          /\ \A i \in DOMAIN ls : MapSeq(OfKey(key), ls)[i] = <<>>
      BY <1>1, <1>2, <1>4 DEF MapSeq, OfKey
    <3> QED BY <3>1, <3>2, FlattenNothing DEF Vals, MapFlat
  <2>5. Vals(Append(ls, line), key) = Append(Vals(ls, key), line.val)
    BY <1>1, ValsFacts
  <2>6. Append(<<>>, line.val) = <<line.val>>
    OBVIOUS
  <2> HIDE DEF new, ls, g, key
  <2> QED BY <1>3, <2>1, <2>2, <2>3, <2>4, <2>5, <2>6 DEF new, ls, g, key
<1>5. CASE at # {}
  <2>1. /\ edited \in Seq(Seq(Lines)) /\ DOMAIN edited = DOMAIN ls
        /\ new.lines = FlattenSeq(edited)
    BY <1>5, EditedFacts
  <2>2. PICK j \in at : \A i \in at : j <= i
    <3>1. at \in SUBSET Nat
      BY <1>1, <1>2
    <3> HIDE DEF at
    <3> QED BY <1>5, <3>1, SmallestPosition
  <2>3. \A i \in DOMAIN ls :
          edited[i] = IF i \in at THEN (IF i = j THEN <<line>> ELSE <<>>) ELSE <<ls[i]>>
    <3> SUFFICES ASSUME NEW i \in DOMAIN ls
                 PROVE  edited[i] = IF i \in at THEN (IF i = j THEN <<line>> ELSE <<>>) ELSE <<ls[i]>>
      OBVIOUS
    <3> DEFINE kept == i \notin at \/ \A n \in at : i <= n
    <3>1. edited[i] = IF ~kept THEN <<>> ELSE IF i \in at THEN <<line>> ELSE <<ls[i]>>
      BY DEF EditedOf
    <3>2. i \in at => (kept <=> i = j)
      <4>1. i \in Nat /\ j \in Nat
        BY <1>1, <1>2
      <4> HIDE DEF at
      <4>2. i \in at /\ kept => i <= j /\ j <= i
        BY <2>2
      <4>3. i = j => kept
        BY <2>2
      <4> QED BY <4>1, <4>2, <4>3
    <3> HIDE DEF at, edited
    <3> QED BY <3>1, <3>2
  <2> HIDE DEF edited, at, new
  <2>4. MapFlat(g, new.lines) = MapFlat(g, ls)
    <3>1. MapFlat(g, FlattenSeq(edited)) = FlattenSeq([i \in DOMAIN edited |-> MapFlat(g, edited[i])])
      <4>1. g \in ListMaps(Lines, Lines)
        BY <1>3 DEF ListMaps
      <4> HIDE DEF g
      <4> QED BY <2>1, <4>1, ListMapFlatten
    <3>2. \A i \in DOMAIN ls : MapFlat(g, edited[i]) = g[ls[i]]
      <4> SUFFICES ASSUME NEW i \in DOMAIN ls PROVE MapFlat(g, edited[i]) = g[ls[i]]
        OBVIOUS
      <4>0. ls[i] \in Lines
        BY <1>1
      <4> HIDE DEF g, ls, key
      <4>1. CASE i \notin at
        BY <1>3, <2>3, <4>0, <4>1, OneMapped
      <4>2. CASE i \in at
        <5>1. g[ls[i]] = <<>> /\ g[line] = <<>>
          BY <1>2, <1>3, <4>0, <4>2 DEF key
        <5>2. MapFlat(g, <<line>>) = <<>> /\ MapFlat(g, <<>>) = <<>>
          BY <1>3, <5>1, MapFlatEmpty, OneMapped
        <5> QED BY <2>3, <4>2, <5>1, <5>2
      <4> QED BY <4>1, <4>2
    <3>3. [i \in DOMAIN edited |-> MapFlat(g, edited[i])] = MapSeq(g, ls)
      BY <2>1, <3>2 DEF MapSeq
    <3> QED BY <2>1, <3>1, <3>3 DEF MapFlat
  <2>5. Vals(new.lines, key) = <<line.val>>
    <3>1. OfKey(key)[line] = <<line.val>>
      BY DEF OfKey
    <3>2. Vals(<<line>>, key) = <<line.val>>
      BY <3>1, OfKeyType, OneMapped DEF Vals
    <3>3. edited[j] = <<line>> /\ j \in DOMAIN edited
      BY <1>2, <2>1, <2>2, <2>3
    <3>4. \A i \in DOMAIN edited \ {j} : Vals(edited[i], key) = <<>>
      <4> SUFFICES ASSUME NEW i \in DOMAIN edited \ {j} PROVE Vals(edited[i], key) = <<>>
        OBVIOUS
      <4>1. i \in DOMAIN ls
        BY <2>1
      <4>2. CASE i \in at
        <5>1. edited[i] = <<>>
          BY <2>3, <4>1, <4>2
        <5> QED BY <5>1, ValsFacts
      <4>3. CASE i \notin at
        <5>1. edited[i] = <<ls[i]>> /\ ls[i].key # key /\ ls[i] \in Lines
          BY <1>1, <1>2, <2>3, <4>1, <4>3
        <5>2. OfKey(key)[ls[i]] = <<>>
          BY <5>1 DEF OfKey
        <5>3. Vals(<<ls[i]>>, key) = <<>>
          BY <5>1, <5>2, OfKeyType, OneMapped DEF Vals
        <5> QED BY <5>1, <5>3
      <4> QED BY <4>2, <4>3
    <3>5. Vals(FlattenSeq(edited), key) = Vals(edited[j], key)
      BY <2>1, <3>3, <3>4, PartsSay
    <3> QED BY <2>1, <3>2, <3>3, <3>5
  <2> QED BY <2>4, <2>5 DEF new
<1> QED BY <1>4, <1>5

LEMMA OtherLinesAre ==
  ASSUME NEW ls \in Seq(Lines), NEW key
  PROVE  FlattenSeq([i \in DOMAIN ls |-> IF ls[i].key = key THEN <<>> ELSE <<ls[i]>>])
           = MapFlat(NotOf(key), ls)
<1>1. \A i \in DOMAIN ls : ls[i] \in Lines
  OBVIOUS
<1>2. MapSeq(NotOf(key), ls) = [i \in DOMAIN ls |-> IF ls[i].key = key THEN <<>> ELSE <<ls[i]>>]
  BY <1>1 DEF MapSeq, NotOf
<1> QED BY <1>2 DEF MapFlat

(* A target order leaves every other line of any file as it is and where it *)
(* is, and leaves one line of the order, with what was asked for.           *)
THEOREM OrderStaysNarrow == Spec => OrderIsNarrow
<1> DEFINE OtherLines(text) ==
             FlattenSeq([i \in DOMAIN text.lines |->
                           IF text.lines[i].key = OrderKey THEN <<>> ELSE <<text.lines[i]>>])
           P == count' # count /\ last'.op = "order" =>
                  IF ~last'.valid THEN file' = file
                  ELSE /\ OtherLines(file') = OtherLines(file)
                       /\ ValuesOf(file', OrderKey) = <<last'.order>>
<1>1. TypeOK /\ [Next]_vars => [P]_vars
  <2> SUFFICES ASSUME TypeOK, Next, count' # count, last'.op = "order" PROVE P
    BY DEF vars
  <2>1. PICK order \in Orders : PutOrder(order)
    <3>1. ASSUME NEW patch \in Patches, PutStructured(patch) PROVE last'.op = "put"
      BY <3>1 DEF PutStructured, Serve
    <3>2. GenerateDefault => last'.op = "default"
      BY DEF GenerateDefault, Serve
    <3>3. ASSUME NEW k \in ListKeys, NEW path \in Links, Link(k, path) PROVE last'.op = "link"
      BY <3>3 DEF Link, Serve
    <3> QED BY <3>1, <3>2, <3>3 DEF Next
  <2> DEFINE line == [key |-> OrderKey, val |-> Named(order)]
             ok == ValidOrder(order) /\ file # NoFile
  <2>2. /\ last' = [op |-> "order", order |-> Named(order), valid |-> ok]
        /\ file' = IF ok THEN Replaced(file, line) ELSE file
    BY <2>1 DEF PutOrder, Serve
  <2>3. last'.order = Named(order) /\ last'.valid = ok
    BY <2>2
  <2>4. CASE ~ok
    BY <2>2, <2>3, <2>4
  <2>5. CASE ok
    <3>1. file \in Texts
      BY <2>5, LinesAre DEF TypeOK
    <3>2. line \in Lines /\ line.key = OrderKey /\ line.val = Named(order) /\ OrderKey \in Names
      BY <2>5, ValidOrderNamed, KindsApart, MakeLine
    <3>3. file' = Replaced(file, line)
      BY <2>2, <2>5
    <3> HIDE DEF line
    <3>4. /\ MapFlat(NotOf(OrderKey), file'.lines) = MapFlat(NotOf(OrderKey), file.lines)
          /\ Vals(file'.lines, OrderKey) = <<Named(order)>>
      BY <3>1, <3>2, <3>3, ReplacedFacts
    <3>5. file' \in Texts
      BY <3>1, <3>2, <3>3, EditedFacts
    <3>6. file.lines \in Seq(Lines) /\ file'.lines \in Seq(Lines)
      BY <3>1, <3>5 DEF Texts
    <3>7. OtherLines(file') = OtherLines(file)
      BY <3>4, <3>6, OtherLinesAre
    <3>8. ValuesOf(file', OrderKey) = <<Named(order)>>
      BY <3>4, <3>6, ValuesAre
    <3> QED BY <2>3, <2>5, <3>7, <3>8
  <2> QED BY <2>4, <2>5
<1> QED BY <1>1, TypeCorrect, PTL DEF Spec, OrderIsNarrow
=============================================================================
