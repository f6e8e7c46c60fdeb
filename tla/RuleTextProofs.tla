--------------------------- MODULE RuleTextProofs ---------------------------
(***************************************************************************)
(* Proofs about RuleText, for any text of either rule file and any rules,  *)
(* targets and comments: every request leaves a text of the file's lines,  *)
(* no patch makes a target list a rule twice, a patch that is repeated     *)
(* changes nothing, and the lines of other targets stay.                   *)
(*                                                                         *)
(* A text has a rule twice if two of its places hold it for one target.    *)
(* So the proof is about places: what a patch keeps is shown by a map from *)
(* the places of the new text to those of the old one.  A repeated patch   *)
(* finds the rule, or does not, in the groups the first one was about:     *)
(* these are told by the comments above a line, so the proof also shows    *)
(* that a line which stays never loses or gains a comment above it.        *)
(***************************************************************************)
EXTENDS RuleText, ListFacts

-----------------------------------------------------------------------------
(* Those and Select: what stands at some places of a sequence, in its       *)
(* order.                                                                   *)

(* The places 1..m of a list stand, in order, for those of 1..n that are in *)
(* places.                                                                  *)
Picks(e, m, n, places) ==
  /\ e \in [1..m -> 1..n]
  /\ \A j, k \in 1..m : j < k => e[j] < e[k]
  /\ \A i \in 1..n : i \in places <=> \E k \in 1..m : e[k] = i

LEMMA ThoseFunction ==
  ASSUME NEW S, NEW s \in Seq(S), NEW places
  PROVE  \E f \in [0..Len(s) -> Seq(S)] :
           /\ \A n \in 0..Len(s) :
                f[n] = IF n = 0 THEN <<>> ELSE IF n \in places THEN Append(f[n - 1], s[n]) ELSE f[n - 1]
           /\ Those(s, places) = f[Len(s)]
<1> DEFINE Step(n, v) == IF n \in places THEN Append(v, s[n]) ELSE v
           step == [x \in (1..Len(s)) \X Seq(S) |-> Step(x[1], x[2])]
           Def(f, n) == IF n = 0 THEN <<>> ELSE IF n \in places THEN Append(f[n - 1], s[n]) ELSE f[n - 1]
           f0 == CHOOSE f : f = [n \in 0..Len(s) |-> Def(f, n)]
<1>1. Len(s) \in Nat /\ <<>> \in Seq(S)
  OBVIOUS
<1>2. \A i \in 1..Len(s), v \in Seq(S) : Step(i, v) \in Seq(S) /\ step[<<i, v>>] = Step(i, v)
  OBVIOUS
<1>3. PICK f \in [0..Len(s) -> Seq(S)] : Follows(f, Len(s), <<>>, step)
  <2>1. Within(step, Len(s), Seq(S))
    BY <1>2 DEF Within
  <2> HIDE DEF step, Step
  <2> QED BY <1>1, <2>1, Recursion
<1>4. \A n \in 0..Len(s) : f[n] = Def(f, n)
  <2> SUFFICES ASSUME NEW n \in 0..Len(s) PROVE f[n] = Def(f, n)
    OBVIOUS
  <2>1. CASE n = 0
    BY <1>3, <2>1 DEF Follows
  <2>2. CASE n # 0
    <3>1. n \in 1..Len(s) /\ n - 1 \in 0..Len(s) /\ f[n - 1] \in Seq(S)
      BY <1>1, <1>3, <2>2
    <3>2. f[n] = step[<<n, f[n - 1]>>]
      BY <1>3, <2>2 DEF Follows
    <3> HIDE DEF step
    <3> QED BY <1>2, <2>2, <3>1, <3>2
  <2> QED BY <2>1, <2>2
<1>5. f = [n \in 0..Len(s) |-> Def(f, n)]
  <2> HIDE DEF Def
  <2> QED BY <1>3, <1>4
<1>6. f0 = [n \in 0..Len(s) |-> Def(f0, n)]
  <2> HIDE DEF Def
  <2> QED BY <1>5
<1>7. f0 = f
  <2> DEFINE T == {n \in Nat : n <= Len(s) => f0[n] = f[n]}
  <2>0. \A n \in 0..Len(s) : f0[n] = Def(f0, n)
    <3> HIDE DEF Def, f0
    <3> QED BY <1>6
  <2>00. DOMAIN f0 = 0..Len(s)
    <3> HIDE DEF Def, f0
    <3> QED BY <1>6
  <2> HIDE DEF f0
  <2>1. 0 \in T
    BY <1>1, <2>0, <1>4
  <2>2. ASSUME NEW n \in T PROVE n + 1 \in T
    <3> SUFFICES ASSUME n + 1 <= Len(s) PROVE f0[n + 1] = f[n + 1]
      OBVIOUS
    <3>1. f0[n] = f[n] /\ n + 1 \in 0..Len(s) /\ (n + 1) - 1 = n /\ n + 1 # 0
      BY <1>1
    <3>2. f0[n + 1] = Def(f0, n + 1) /\ f[n + 1] = Def(f, n + 1)
      BY <3>1, <2>0, <1>4
    <3> QED BY <3>1, <3>2
  <2>3. T = Nat
    <3> HIDE DEF T
    <3>1. T \subseteq Nat BY DEF T
    <3> QED BY <2>1, <2>2, <3>1, NatSetInduction
  <2>4. \A n \in 0..Len(s) : f0[n] = f[n]
    BY <1>1, <2>3
  <2> QED BY <1>3, <2>00, <2>4, <1>6, <1>5
<1>8. Those(s, places) = f0[Len(s)]
  BY DEF Those
<1> QED BY <1>3, <1>4, <1>7, <1>8

LEMMA ThoseFacts ==
  ASSUME NEW S, NEW s \in Seq(S), NEW places
  PROVE  /\ Those(s, places) \in Seq(S)
         /\ \E e : /\ Picks(e, Len(Those(s, places)), Len(s), places)
                   /\ \A k \in 1..Len(Those(s, places)) : Those(s, places)[k] = s[e[k]]
<1>1. PICK f \in [0..Len(s) -> Seq(S)] :
        /\ \A n \in 0..Len(s) :
             f[n] = IF n = 0 THEN <<>> ELSE IF n \in places THEN Append(f[n - 1], s[n]) ELSE f[n - 1]
        /\ Those(s, places) = f[Len(s)]
  BY ThoseFunction
<1> DEFINE Good(n) == \E e : /\ Picks(e, Len(f[n]), n, places)
                             /\ \A k \in 1..Len(f[n]) : f[n][k] = s[e[k]]
           T == {n \in Nat : n <= Len(s) => Good(n)}
<1>2. 0 \in T
  <2>1. f[0] = <<>> /\ Len(f[0]) = 0
    BY <1>1
  <2>2. Picks(<<>>, 0, 0, places)
    BY DEF Picks
  <2>3. Good(0)
    BY <2>1, <2>2
  <2> HIDE DEF Good
  <2> QED BY <2>3
<1>3. ASSUME NEW n \in T PROVE n + 1 \in T
  <2> SUFFICES ASSUME n + 1 <= Len(s) PROVE Good(n + 1)
    <3> HIDE DEF Good
    <3> QED OBVIOUS
  <2>1. n \in Nat /\ n \in 0..Len(s) /\ n + 1 \in 0..Len(s) /\ n + 1 \in 1..Len(s) /\ Good(n)
    <3> HIDE DEF Good
    <3> QED OBVIOUS
  <2>2. PICK e : Picks(e, Len(f[n]), n, places) /\ \A k \in 1..Len(f[n]) : f[n][k] = s[e[k]]
    BY <2>1
  <2>3. f[n] \in Seq(S) /\ s[n + 1] \in S /\ (n + 1) - 1 = n /\ n + 1 # 0
    <3>1. s[n + 1] \in S /\ (n + 1) - 1 = n /\ n + 1 # 0
      BY <2>1
    <3>2. f[n] \in Seq(S)
      BY <2>1
    <3> QED BY <3>1, <3>2
  <2>4. CASE n + 1 \in places
    <3>1. f[n + 1] = Append(f[n], s[n + 1])
      BY <1>1, <2>1, <2>3, <2>4
    <3> DEFINE m == Len(f[n])
               g == [k \in 1..(m + 1) |-> IF k = m + 1 THEN n + 1 ELSE e[k]]
    <3>2. m \in Nat /\ Len(f[n + 1]) = m + 1 /\ \A k \in 1..m : f[n + 1][k] = f[n][k]
      BY <2>3, <3>1
    <3>20. f[n + 1][m + 1] = s[n + 1]
      BY <2>3, <3>1
    <3> HIDE DEF m
    <3>3. Picks(e, m, n, places)
      BY <2>2 DEF m
    <3>4. g \in [1..(m + 1) -> 1..(n + 1)]
      BY <3>2, <3>3, <2>1 DEF Picks
    <3>5. \A j, k \in 1..(m + 1) : j < k => g[j] < g[k]
      BY <3>2, <3>3, <2>1 DEF Picks
    <3>6. \A i \in 1..(n + 1) : i \in places <=> \E k \in 1..(m + 1) : g[k] = i
      <4> SUFFICES ASSUME NEW i \in 1..(n + 1) PROVE i \in places <=> \E k \in 1..(m + 1) : g[k] = i
        OBVIOUS
      <4>1. CASE i = n + 1
        <5>1. m + 1 \in 1..(m + 1) /\ g[m + 1] = n + 1
          BY <3>2
        <5> HIDE DEF g
        <5> QED BY <2>4, <4>1, <5>1
      <4>2. CASE i # n + 1
        <5>1. i \in 1..n
          BY <2>1, <4>2
        <5>2. i \in places <=> \E k \in 1..m : e[k] = i
          BY <3>3, <5>1 DEF Picks
        <5>3. \A k \in 1..m : k \in 1..(m + 1) /\ g[k] = e[k]
          BY <3>2
        <5>4. g[m + 1] = n + 1
          BY <3>2
        <5>5. \A k \in 1..(m + 1) : k \in 1..m \/ k = m + 1
          BY <3>2
        <5> HIDE DEF g
        <5> QED BY <4>2, <5>2, <5>3, <5>4, <5>5
      <4> QED BY <4>1, <4>2
    <3>7. \A k \in 1..(m + 1) : f[n + 1][k] = s[g[k]]
      <4> SUFFICES ASSUME NEW k \in 1..(m + 1) PROVE f[n + 1][k] = s[g[k]]
        OBVIOUS
      <4>1. CASE k = m + 1
        BY <3>20, <4>1
      <4>2. CASE k # m + 1
        <5>1. k \in 1..m /\ g[k] = e[k]
          BY <3>2, <4>2
        <5> HIDE DEF g
        <5> QED BY <2>2, <3>2, <5>1 DEF m
      <4> QED BY <4>1, <4>2
    <3> HIDE DEF g
    <3>8. Picks(g, m + 1, n + 1, places)
      BY <3>4, <3>5, <3>6 DEF Picks
    <3> HIDE DEF m
    <3> QED BY <3>2, <3>7, <3>8
  <2>5. CASE n + 1 \notin places
    <3>1. f[n + 1] = f[n]
      BY <1>1, <2>1, <2>3, <2>5
    <3> DEFINE m == Len(f[n])
    <3>3. m \in Nat /\ Picks(e, m, n, places)
      BY <2>2, <2>3
    <3> HIDE DEF m
    <3>4. e \in [1..m -> 1..(n + 1)] /\ \A k \in 1..m : e[k] # n + 1
      BY <2>1, <3>3 DEF Picks
    <3>5. \A i \in 1..(n + 1) : i \in 1..n \/ i = n + 1
      BY <2>1
    <3>6. Picks(e, m, n + 1, places)
      BY <2>5, <3>3, <3>4, <3>5 DEF Picks
    <3>2. Picks(e, Len(f[n]), n + 1, places)
      BY <3>6 DEF m
    <3> QED BY <2>2, <3>1, <3>2
  <2> QED BY <2>4, <2>5
<1>4. T = Nat
  <2> HIDE DEF T
  <2>1. T \subseteq Nat BY DEF T
  <2> QED BY <1>2, <1>3, <2>1, NatSetInduction
<1>5. Len(s) \in Nat
  OBVIOUS
<1>6. Good(Len(s))
  <2> HIDE DEF Good
  <2> QED BY <1>4, <1>5
<1> QED BY <1>1, <1>5, <1>6

(* There is one such list. *)
LEMMA OneOrder ==
  ASSUME NEW m \in Nat, NEW n \in Nat, NEW N \in Nat, NEW M \in Nat, NEW e, NEW f, NEW P, NEW Q,
         Picks(e, m, N, P), Picks(f, n, M, Q),
         \A i \in Nat : (i \in 1..N /\ i \in P) <=> (i \in 1..M /\ i \in Q)
  PROVE  m = n /\ e = f
<1> DEFINE T == {k \in Nat : \A j \in 1..k : j <= m \/ j <= n => j <= m /\ j <= n /\ e[j] = f[j]}
<1>1. 0 \in T
  OBVIOUS
<1>0. ASSUME NEW a, NEW b, NEW p \in Nat, NEW q \in Nat, NEW A \in Nat, NEW B \in Nat, NEW X, NEW Y,
             Picks(a, p, A, X), Picks(b, q, B, Y),
             \A i \in Nat : (i \in 1..A /\ i \in X) => (i \in 1..B /\ i \in Y),
             NEW k \in Nat, k + 1 <= p, \A j \in 1..k : j <= q /\ a[j] = b[j]
      PROVE  k + 1 <= q /\ b[k + 1] <= a[k + 1]
  <2>1. k + 1 \in 1..p /\ a[k + 1] \in 1..A /\ a[k + 1] \in X
    BY <1>0 DEF Picks
  <2>2. PICK l \in 1..q : b[l] = a[k + 1]
    <3>1. a[k + 1] \in 1..B /\ a[k + 1] \in Y
      BY <1>0, <2>1
    <3> QED BY <1>0, <3>1 DEF Picks
  <2>3. l > k
    <3> SUFFICES ASSUME l <= k PROVE FALSE
      OBVIOUS
    <3>1. l \in 1..k /\ a[l] = b[l] /\ l \in 1..p /\ l < k + 1
      BY <1>0
    <3>2. a[l] < a[k + 1] /\ a[l] \in Nat /\ a[k + 1] \in Nat
      BY <1>0, <2>1, <3>1 DEF Picks
    <3> QED BY <2>2, <3>1, <3>2
  <2>4. k + 1 <= q /\ k + 1 \in 1..q
    BY <2>3
  <2>5. CASE l = k + 1
    <3>1. b[k + 1] \in Nat
      BY <1>0, <2>4 DEF Picks
    <3> QED BY <2>2, <2>4, <2>5, <3>1
  <2>6. CASE l # k + 1
    <3>1. k + 1 < l
      BY <2>3, <2>6
    <3>2. b[k + 1] < b[l] /\ b[k + 1] \in Nat /\ b[l] \in Nat
      BY <1>0, <2>4, <3>1 DEF Picks
    <3> QED BY <2>2, <2>4, <3>2
  <2> QED BY <2>5, <2>6
<1>2. ASSUME NEW k \in T PROVE k + 1 \in T
  <2>1. k \in Nat
    OBVIOUS
  <2> SUFFICES ASSUME k + 1 <= m \/ k + 1 <= n
               PROVE  k + 1 <= m /\ k + 1 <= n /\ e[k + 1] = f[k + 1]
    <3>1. \A j \in 1..(k + 1) : j \in 1..k \/ j = k + 1
      BY <2>1
    <3> QED BY <2>1, <3>1
  <2>2. \A j \in 1..k : j <= m /\ j <= n /\ e[j] = f[j]
    BY <2>1
  <2> HIDE DEF T
  <2>3. k + 1 <= m => k + 1 <= n /\ f[k + 1] <= e[k + 1]
    BY <1>0, <2>1, <2>2, SMTT(20)
  <2>4. k + 1 <= n => k + 1 <= m /\ e[k + 1] <= f[k + 1]
    <3>1. \A j \in 1..k : j <= m /\ f[j] = e[j]
      BY <2>2
    <3>2. \A i \in Nat : (i \in 1..M /\ i \in Q) => (i \in 1..N /\ i \in P)
      OBVIOUS
    <3> SUFFICES ASSUME k + 1 <= n PROVE k + 1 <= m /\ e[k + 1] <= f[k + 1]
      OBVIOUS
    <3>3. k + 1 <= n
      OBVIOUS
    <3> QED
      BY <1>0, <2>1, <3>1, <3>2, <3>3
  <2>5. k + 1 \in 1..m /\ k + 1 \in 1..n
    BY <2>1, <2>3, <2>4
  <2>6. e[k + 1] \in Nat /\ f[k + 1] \in Nat
    BY <2>5 DEF Picks
  <2> QED BY <2>3, <2>4, <2>5, <2>6
<1>3. T = Nat
  <2> HIDE DEF T
  <2>1. T \subseteq Nat BY DEF T
  <2> QED BY <1>1, <1>2, <2>1, NatSetInduction
<1>4. m \in T /\ n \in T
  BY <1>3
<1>5. m = n /\ \A j \in 1..m : e[j] = f[j]
  <2>1. m <= n
    <3>1. CASE m = 0
      BY <3>1
    <3>2. CASE m # 0
      <4>1. m \in 1..m /\ m <= m
        BY <3>2
      <4> QED BY <1>4, <4>1
    <3> QED BY <3>1, <3>2
  <2>2. n <= m
    <3>1. CASE n = 0
      BY <3>1
    <3>2. CASE n # 0
      <4>1. n \in 1..n /\ n <= n
        BY <3>2
      <4> QED BY <1>4, <4>1
    <3> QED BY <3>1, <3>2
  <2> QED BY <1>4, <2>1, <2>2
<1> QED BY <1>5 DEF Picks

-----------------------------------------------------------------------------
(* Kinds of lines; the sets that line positions are chosen from.            *)

LEMMA LineKinds ==
  ASSUME NEW f \in Files, NEW line \in Lines(f)
  PROVE  /\ line.kind \in {"blank", "note", "##", "#/", "rules", "/", "entry"}
         /\ line.kind = "blank" <=> line = Blank
         /\ line.kind = "##" => line.text \in Comments /\ line = Comment(line.text)
         /\ IsGroup(line) => line.target \in Targets
         /\ line.kind = "rules" => /\ f = "domain" /\ line.rules \in Seq(Values)
                                   /\ line = RulesLine(line.rules, line.target)
         /\ line.kind \in {"/", "entry"} => f = "cidr"
         /\ line.kind = "entry" => line.rule \in Values /\ line = Entry(line.rule)
<1> USE DEF Blank, Note, Comment, Off, RulesLine, Header, Entry, IsGroup
<1>1. CASE line \in CommonLines
  BY <1>1 DEF CommonLines
<1>2. CASE f = "domain" /\ line \in [kind : {"rules"}, rules : Seq(Values), target : Targets]
  BY <1>2
<1>3. CASE f = "cidr" /\ line \in {Header(t) : t \in Targets} \cup {Entry(v) : v \in Values}
  BY <1>3
<1> QED BY <1>1, <1>2, <1>3 DEF Lines, Files

(* Which lines a file may have, by their kind. *)
LEMMA LinesOf ==
  ASSUME NEW f \in Files
  PROVE  /\ Blank \in Lines(f) /\ Note \in Lines(f)
         /\ \A c \in Comments : Comment(c) \in Lines(f)
         /\ \A t \in Targets : /\ Off(t) \in Lines(f)
                               /\ f = "domain" => \A vs \in Seq(Values) : RulesLine(vs, t) \in Lines(f)
                               /\ f = "cidr" => Header(t) \in Lines(f)
         /\ f = "cidr" => \A v \in Values : Entry(v) \in Lines(f)
<1>1. \A x \in CommonLines : x \in Lines(f)
  BY DEF Lines
<1>2. Blank \in CommonLines /\ Note \in CommonLines /\ (\A c \in Comments : Comment(c) \in CommonLines)
        /\ \A t \in Targets : Off(t) \in CommonLines
  BY DEF CommonLines
<1>3. f = "domain" => \A t \in Targets, vs \in Seq(Values) : RulesLine(vs, t) \in Lines(f)
  BY DEF Lines, RulesLine
<1>4. ASSUME f = "cidr" PROVE (\A t \in Targets : Header(t) \in Lines(f)) /\ \A v \in Values : Entry(v) \in Lines(f)
  <2>1. Lines(f) = CommonLines \cup ({Header(t) : t \in Targets} \cup {Entry(v) : v \in Values})
    BY <1>4 DEF Lines
  <2> QED BY <2>1
<1> QED BY <1>1, <1>2, <1>3, <1>4

InnerLine(line) == line.kind \in {"entry", "note"}

LEMMA GreatestOf ==
  ASSUME NEW n \in Nat, NEW P, P \subseteq 0..n, P # {}
  PROVE  Greatest(P) \in P /\ \A j \in P : j <= Greatest(P)
<1> DEFINE Q == {n - p : p \in P}
<1>1. Q \subseteq Nat /\ Q # {}
  <2>1. \A p \in P : p \in 0..n /\ n - p \in Nat
    OBVIOUS
  <2> QED BY <2>1
<1>2. Min(Q) \in Q /\ \A k \in Q : Min(Q) <= k
  BY <1>1, LeastOf
<1>3. PICK x \in P : Min(Q) = n - x
  BY <1>2
<1>4. \A j \in P : n - j \in Q
  OBVIOUS
<1> HIDE DEF Q
<1>5. \A j \in P : j <= x
  BY <1>2, <1>3, <1>4
<1> QED BY <1>5 DEF Greatest

LEMMA LeastIn ==
  ASSUME NEW P, P \subseteq Nat, P # {}
  PROVE  Least(P) \in P /\ \A j \in P : Least(P) <= j
<1>1. Min(P) \in P /\ \A j \in P : Min(P) <= j
  BY LeastOf
<1> QED BY <1>1 DEF Least

(* A block goes as far as entries and notes follow each other. *)
LEMMA InBlock ==
  ASSUME NEW S, NEW lines \in Seq(S), NEW i \in 1..Len(lines)
  PROVE  /\ BlockEnd(lines, i) \in i..Len(lines)
         /\ \A j \in Nat : j \in i..BlockEnd(lines, i) <=>
              j \in i..Len(lines) /\ \A l \in (i + 1)..j : InnerLine(lines[l])
<1> DEFINE P == {e \in i..Len(lines) : \A j \in (i + 1)..e : lines[j].kind \in {"entry", "note"}}
<1>1. Len(lines) \in Nat /\ i \in P /\ P \subseteq 0..Len(lines)
  OBVIOUS
<1>2. BlockEnd(lines, i) = Greatest(P)
  BY DEF BlockEnd
<1>3. Greatest(P) \in P /\ \A j \in P : j <= Greatest(P)
  <2> HIDE DEF P
  <2> QED BY <1>1, GreatestOf
<1> DEFINE e == Greatest(P)
<1>4. e \in i..Len(lines) /\ \A l \in (i + 1)..e : InnerLine(lines[l])
  BY <1>3 DEF InnerLine
<1>5. ASSUME NEW j \in Nat, j \in i..e PROVE \A l \in (i + 1)..j : InnerLine(lines[l])
  <2> HIDE DEF e
  <2> QED BY <1>4, <1>5
<1>6. ASSUME NEW j \in Nat, j \in i..Len(lines), \A l \in (i + 1)..j : InnerLine(lines[l]) PROVE j \in i..e
  <2>1. j \in P
    BY <1>6 DEF InnerLine
  <2>2. j <= e
    BY <1>3, <2>1
  <2> HIDE DEF e
  <2> QED BY <1>4, <1>6, <2>2
<1>7. \A j \in Nat : j \in i..e => j \in i..Len(lines)
  <2> HIDE DEF e
  <2> QED BY <1>1, <1>4
<1> HIDE DEF e, P
<1>8. BlockEnd(lines, i) = e
  BY <1>2 DEF e
<1>9. \A j \in Nat : j \in i..e <=> j \in i..Len(lines) /\ \A l \in (i + 1)..j : InnerLine(lines[l])
  BY <1>5, <1>6, <1>7
<1> QED BY <1>4, <1>8, <1>9

(* The comments right above a line. *)
LEMMA Above ==
  ASSUME NEW S, NEW lines \in Seq(S), NEW i \in 1..Len(lines)
  PROVE  /\ BlockStart(lines, i) \in 1..i
         /\ \A j \in Nat : j \in BlockStart(lines, i)..(i - 1) <=>
              j \in 1..(i - 1) /\ \A l \in j..(i - 1) : IsComment(lines[l])
<1> DEFINE P == {s \in 1..i : \A j \in s..(i - 1) : IsComment(lines[j])}
<1>1. i \in P /\ P \subseteq Nat
  OBVIOUS
<1>2. BlockStart(lines, i) = Least(P)
  BY DEF BlockStart
<1>3. Least(P) \in P /\ \A j \in P : Least(P) <= j
  <2> HIDE DEF P
  <2> QED BY <1>1, LeastIn
<1> DEFINE e == Least(P)
<1>4. e \in 1..i /\ \A l \in e..(i - 1) : IsComment(lines[l])
  BY <1>3
<1>5. ASSUME NEW j \in Nat, j \in e..(i - 1) PROVE \A l \in j..(i - 1) : IsComment(lines[l])
  <2> HIDE DEF e
  <2> QED BY <1>4, <1>5
<1>6. ASSUME NEW j \in Nat, j \in 1..(i - 1), \A l \in j..(i - 1) : IsComment(lines[l]) PROVE j \in e..(i - 1)
  <2>1. j \in P
    BY <1>6
  <2>2. e <= j
    BY <1>3, <2>1
  <2> HIDE DEF e
  <2> QED BY <1>4, <1>6, <2>2
<1>7. \A j \in Nat : j \in e..(i - 1) => j \in 1..(i - 1)
  <2> HIDE DEF e
  <2> QED BY <1>1, <1>4
<1> HIDE DEF e, P
<1>8. BlockStart(lines, i) = e
  BY <1>2 DEF e
<1>9. \A j \in Nat : j \in e..(i - 1) <=> j \in 1..(i - 1) /\ \A l \in j..(i - 1) : IsComment(lines[l])
  BY <1>5, <1>6, <1>7
<1> QED BY <1>4, <1>8, <1>9

(* Where an element of a flattened sequence comes from. *)
Comes(at, ss) ==
  /\ at \in [1..Len(FlattenSeq(ss)) -> Nat \X Nat]
  /\ \A n \in 1..Len(FlattenSeq(ss)) :
       /\ at[n][1] \in 1..Len(ss) /\ at[n][2] \in 1..Len(ss[at[n][1]])
       /\ FlattenSeq(ss)[n] = ss[at[n][1]][at[n][2]]
  /\ \A n, m \in 1..Len(FlattenSeq(ss)) : at[n] = at[m] => n = m
  /\ \A i \in 1..Len(ss) : \A k \in 1..Len(ss[i]) :
       \E n \in 1..Len(FlattenSeq(ss)) : at[n] = <<i, k>>

LEMMA FlattenPlaces ==
  ASSUME NEW S, NEW ss \in Seq(Seq(S))
  PROVE  \E at : Comes(at, ss)
<1> DEFINE T == {tt \in Seq(Seq(S)) : \E at : Comes(at, tt)}
<1>1. <<>> \in T
  <2>1. FlattenSeq(<<>>) = <<>> /\ Len(<<>>) = 0
    BY FlattenEmpty
  <2>2. Comes(<<>>, <<>>)
    BY <2>1 DEF Comes
  <2> QED BY <2>2
<1>2. ASSUME NEW tt \in T \cap Seq(Seq(S)), NEW x \in Seq(S) PROVE Append(tt, x) \in T
  <2> DEFINE uu == Append(tt, x)
             m == Len(FlattenSeq(tt))
             c == Len(tt)
             l == Len(x)
             A == FlattenSeq(tt)
             B == FlattenSeq(uu)
  <2>1. PICK at : Comes(at, tt)
    OBVIOUS
  <2>2. /\ uu \in Seq(Seq(S)) /\ c \in Nat /\ Len(uu) = c + 1 /\ uu[c + 1] = x
        /\ \A i \in 1..c : uu[i] = tt[i] /\ tt[i] \in Seq(S)
    BY AppendFacts
  <2>3. B = A \o x /\ A \in Seq(S) /\ m \in Nat /\ l \in Nat
    BY FlattenAppend, FlattenType
  <2>4. /\ Len(B) = m + l
        /\ \A n \in 1..m : B[n] = A[n]
        /\ \A n \in 1..l : B[m + n] = x[n]
    BY <2>3, ConcatFacts
  <2> HIDE DEF uu, m, c, l, A, B
  <2> DEFINE bt == [n \in 1..(m + l) |-> IF n <= m THEN at[n] ELSE <<c + 1, n - m>>]
  <2>5. /\ at \in [1..m -> Nat \X Nat]
        /\ \A n \in 1..m : /\ at[n][1] \in 1..c /\ at[n][2] \in 1..Len(tt[at[n][1]])
                           /\ A[n] = tt[at[n][1]][at[n][2]]
        /\ \A n, k \in 1..m : at[n] = at[k] => n = k
        /\ \A i \in 1..c : \A k \in 1..Len(tt[i]) : \E n \in 1..m : at[n] = <<i, k>>
    BY <2>1 DEF Comes, m, c, A
  <2>6. bt \in [1..(m + l) -> Nat \X Nat]
    <3>1. \A n \in 1..(m + l) : n <= m => n \in 1..m
      BY <2>3
    <3>2. \A n \in 1..(m + l) : ~(n <= m) => n - m \in Nat
      BY <2>3
    <3> QED BY <2>2, <2>3, <2>5, <3>1, <3>2
  <2>7. ASSUME NEW n \in 1..(m + l)
        PROVE  /\ n \in 1..m => bt[n] = at[n]
               /\ n \notin 1..m => bt[n] = <<c + 1, n - m>> /\ n - m \in 1..l
    BY <2>3
  <2> HIDE DEF bt
  <2>8. ASSUME NEW n \in 1..(m + l)
        PROVE  /\ bt[n][1] \in 1..(c + 1) /\ bt[n][2] \in 1..Len(uu[bt[n][1]])
               /\ B[n] = uu[bt[n][1]][bt[n][2]]
    <3>1. CASE n \in 1..m
      <4>1. bt[n] = at[n] /\ B[n] = A[n] /\ A[n] = tt[at[n][1]][at[n][2]]
        BY <2>4, <2>5, <2>7, <3>1
      <4>2. at[n][1] \in 1..c /\ at[n][1] \in 1..(c + 1) /\ at[n][2] \in 1..Len(tt[at[n][1]])
        BY <2>2, <2>5, <3>1
      <4>3. uu[at[n][1]] = tt[at[n][1]]
        BY <2>2, <4>2
      <4> QED BY <4>1, <4>2, <4>3
    <3>2. CASE n \notin 1..m
      <4>1. n - m \in 1..l /\ bt[n][1] = c + 1 /\ bt[n][2] = n - m /\ m + (n - m) = n
        BY <2>3, <2>7, <3>2
      <4>2. B[m + (n - m)] = x[n - m] /\ uu[c + 1] = x
        BY <2>2, <2>4, <4>1
      <4>3. c + 1 \in 1..(c + 1) /\ n - m \in 1..Len(x)
        BY <2>2, <4>1 DEF l
      <4> QED BY <4>1, <4>2, <4>3
    <3> QED BY <3>1, <3>2
  <2>9. ASSUME NEW n \in 1..(m + l), NEW k \in 1..(m + l), bt[n] = bt[k] PROVE n = k
    <3>1. CASE n \in 1..m /\ k \in 1..m
      BY <2>5, <2>7, <2>9, <3>1
    <3>2. CASE n \notin 1..m /\ k \notin 1..m
      <4>1. n - m = k - m
        BY <2>7, <2>9, <3>2
      <4> QED BY <4>1, <2>3
    <3>3. CASE n \in 1..m /\ k \notin 1..m
      <4>1. at[n][1] = c + 1
        BY <2>7, <2>9, <3>3
      <4> QED BY <2>2, <2>5, <3>3, <4>1
    <3>4. CASE n \notin 1..m /\ k \in 1..m
      <4>1. at[k][1] = c + 1
        BY <2>7, <2>9, <3>4
      <4> QED BY <2>2, <2>5, <3>4, <4>1
    <3> QED BY <3>1, <3>2, <3>3, <3>4
  <2>10. ASSUME NEW i \in 1..(c + 1), NEW k \in 1..Len(uu[i]) PROVE \E n \in 1..(m + l) : bt[n] = <<i, k>>
    <3>1. CASE i = c + 1
      <4>1. k \in 1..l /\ m + k \in 1..(m + l) /\ m + k \notin 1..m /\ (m + k) - m = k
        BY <2>2, <2>3, <3>1 DEF l
      <4>2. bt[m + k] = <<i, k>>
        BY <2>7, <3>1, <4>1
      <4> QED BY <4>1, <4>2
    <3>2. CASE i # c + 1
      <4>1. i \in 1..c /\ k \in 1..Len(tt[i])
        BY <2>2, <3>2
      <4>2. PICK n \in 1..m : at[n] = <<i, k>>
        BY <2>5, <4>1
      <4>3. n \in 1..(m + l)
        BY <2>3
      <4> QED BY <2>7, <4>2, <4>3
    <3> QED BY <3>1, <3>2
  <2>11. Comes(bt, uu)
    <3>1. Len(FlattenSeq(uu)) = m + l /\ Len(uu) = c + 1
      BY <2>2, <2>4 DEF B
    <3>2. FlattenSeq(uu) = B
      BY DEF B
    <3> DEFINE N == Len(FlattenSeq(uu))
    <3>3. N = m + l
      BY <3>1
    <3> HIDE DEF N
    <3>4. bt \in [1..N -> Nat \X Nat] /\ \A n, k \in 1..N : bt[n] = bt[k] => n = k
      BY <2>6, <2>9, <3>3
    <3>5. \A i \in 1..Len(uu) : \A k \in 1..Len(uu[i]) : \E n \in 1..N : bt[n] = <<i, k>>
      BY <2>10, <3>1, <3>3
    <3>6. \A n \in 1..N : /\ bt[n][1] \in 1..Len(uu) /\ bt[n][2] \in 1..Len(uu[bt[n][1]])
                          /\ FlattenSeq(uu)[n] = uu[bt[n][1]][bt[n][2]]
      BY <2>8, <3>1, <3>2, <3>3
    <3> QED BY <3>4, <3>5, <3>6 DEF Comes, N
  <2> QED BY <2>2, <2>11 DEF uu
<1>3. Seq(Seq(S)) \subseteq T
  <2> HIDE DEF T
  <2> QED BY <1>1, <1>2, SeqSetInduction
<1> QED BY <1>3

-----------------------------------------------------------------------------
(* The types of what a text is parsed to.                                   *)

(* A list of another's elements at some places, each replaced. *)
MapOf(g, s, places) == [k \in DOMAIN Those(s, places) |-> g[Those(s, places)[k]]]

LEMMA MapThose ==
  ASSUME NEW S, NEW R, NEW s \in Seq(S), NEW places, NEW g,
         \A i \in 1..Len(s) : i \in places => g[s[i]] \in R
  PROVE  /\ MapOf(g, s, places) \in Seq(R)
         /\ Len(MapOf(g, s, places)) = Len(Those(s, places))
         /\ \E e : /\ Picks(e, Len(MapOf(g, s, places)), Len(s), places)
                   /\ \A k \in 1..Len(MapOf(g, s, places)) : MapOf(g, s, places)[k] = g[s[e[k]]]
<1> DEFINE t == Those(s, places)
           u == [k \in DOMAIN t |-> g[t[k]]]
<1>1. t \in Seq(S)
  BY ThoseFacts
<1>2. PICK e : Picks(e, Len(t), Len(s), places) /\ \A k \in 1..Len(t) : t[k] = s[e[k]]
  BY ThoseFacts
<1> HIDE DEF t
<1>3. Len(t) \in Nat /\ DOMAIN t = 1..Len(t)
  BY <1>1
<1>4. \A k \in 1..Len(t) : u[k] = g[s[e[k]]] /\ u[k] \in R
  <2> SUFFICES ASSUME NEW k \in 1..Len(t) PROVE u[k] = g[s[e[k]]] /\ u[k] \in R
    OBVIOUS
  <2>1. u[k] = g[t[k]] /\ t[k] = s[e[k]]
    BY <1>2, <1>3
  <2>2. e[k] \in 1..Len(s) /\ e[k] \in places
    BY <1>2 DEF Picks
  <2> QED BY <2>1, <2>2
<1>5. u \in Seq(R) /\ Len(u) = Len(t)
  <2>1. u \in [1..Len(t) -> R]
    BY <1>3, <1>4
  <2> HIDE DEF u
  <2> QED BY <1>3, <2>1
<1>6. MapOf(g, s, places) = u
  BY DEF MapOf, t
<1> HIDE DEF u
<1>7. Len(t) = Len(Those(s, places))
  BY DEF t
<1> QED BY <1>2, <1>4, <1>5, <1>6, <1>7

LEMMA RulesOfType ==
  ASSUME NEW f \in Files, NEW lines \in Seq(Lines(f)), NEW i \in 1..Len(lines)
  PROVE  /\ RulesOf(f, lines, i) \in Seq(Values)
         /\ f = "cidr" =>
              \E e : /\ Picks(e, Len(RulesOf(f, lines, i)), Len(lines),
                              {j \in i..BlockEnd(lines, i) : lines[j].kind = "entry"})
                     /\ \A k \in 1..Len(RulesOf(f, lines, i)) : RulesOf(f, lines, i)[k] = lines[e[k]].rule
<1>1. \A j \in 1..Len(lines) : lines[j] \in Lines(f)
  OBVIOUS
<1>2. CASE f = "cidr"
  <2> DEFINE P == {j \in i..BlockEnd(lines, i) : lines[j].kind = "entry"}
             g == [line \in Lines(f) |-> line.rule]
             t == Those(lines, P)
             u == [k \in DOMAIN t |-> g[t[k]]]
             w == [k \in DOMAIN t |-> t[k].rule]
  <2>1. \A j \in 1..Len(lines) : j \in P => g[lines[j]] \in Values
    BY <1>1, LineKinds
  <2>2. t \in Seq(Lines(f))
    BY ThoseFacts
  <2>3. RulesOf(f, lines, i) = w
    BY <1>2 DEF RulesOf, Map
  <2>4. /\ u \in Seq(Values) /\ Len(u) = Len(t)
        /\ \E e : Picks(e, Len(u), Len(lines), P) /\ \A k \in 1..Len(u) : u[k] = g[lines[e[k]]]
    <3> HIDE DEF P, g
    <3>1. u = MapOf(g, lines, P)
      BY DEF MapOf
    <3> HIDE DEF u
    <3> HIDE DEF t
    <3>5. lines \in Seq(Lines(f)) /\ \A j \in 1..Len(lines) : j \in P => g[lines[j]] \in Values
      BY <2>1
    <3>3. /\ MapOf(g, lines, P) \in Seq(Values)
          /\ Len(MapOf(g, lines, P)) = Len(Those(lines, P))
          /\ \E e : /\ Picks(e, Len(MapOf(g, lines, P)), Len(lines), P)
                    /\ \A k \in 1..Len(MapOf(g, lines, P)) : MapOf(g, lines, P)[k] = g[lines[e[k]]]
      BY ONLY <3>5, MapThose
    <3>2. Len(MapOf(g, lines, P)) = Len(t)
      BY <3>3 DEF t
    <3> QED BY <3>1, <3>2, <3>3
  <2> HIDE DEF t
  <2>5. u = w
    BY <2>2
  <2>6. \A j \in 1..Len(lines) : g[lines[j]] = lines[j].rule
    BY <1>1
  <2>7. ASSUME NEW e, Picks(e, Len(u), Len(lines), P), NEW k \in 1..Len(u) PROVE e[k] \in 1..Len(lines)
    BY <2>7 DEF Picks
  <2> HIDE DEF u, w, g
  <2>8. PICK e : Picks(e, Len(u), Len(lines), P) /\ \A k \in 1..Len(u) : u[k] = g[lines[e[k]]]
    BY <2>4
  <2>9. \A k \in 1..Len(u) : u[k] = lines[e[k]].rule
    BY <2>6, <2>7, <2>8
  <2> QED BY <2>3, <2>4, <2>5, <2>8, <2>9
<1>3. CASE f = "domain"
  <2>1. CASE lines[i].kind = "rules"
    <3>1. lines[i].rules \in Seq(Values)
      BY <1>1, <2>1, LineKinds
    <3> QED BY <1>3, <2>1, <3>1 DEF RulesOf
  <2>2. CASE lines[i].kind # "rules"
    BY <1>3, <2>2 DEF RulesOf
  <2> QED BY <1>3, <2>1, <2>2
<1> QED BY <1>2, <1>3 DEF Files

LEMMA LowerFacts ==
  /\ \A v \in Values : /\ Fold(v) \in Values /\ Fold(Fold(v)) = Fold(v)
                       /\ v \in Tags => Fold(v) \in Tags
  /\ \A f \in Files, v \in Values :
       /\ Spelled(f, v) \in Values /\ Fold(Spelled(f, v)) = Fold(v) /\ Spelled(f, Spelled(f, v)) = Spelled(f, v)
       /\ v \in Tags => Spelled(f, v) = v
       /\ v \notin Tags => Spelled(f, v) \in Values
BY FormatAssumption DEF Fold, Spelled

(* The tags of some rules and then their other values: each rule once.      *)
Shuffled(p, m, n) ==
  /\ p \in [1..m -> 1..n]
  /\ \A j, k \in 1..m : p[j] = p[k] => j = k
  /\ \A i \in 1..n : \E k \in 1..m : p[k] = i

TagsFirst(f, rules) ==
  LET spelled(v) == Spelled(f, v)
  IN  Select(rules, IsTag) \o Map(spelled, Select(rules, NotTag))

LEMMA TagsFirstFacts ==
  ASSUME NEW f \in Files, NEW rules \in Seq(Values)
  PROVE  LET spelled(v) == Spelled(f, v)
             tags == Select(rules, IsTag)
             values == Map(spelled, Select(rules, NotTag))
         IN  /\ tags \in Seq(Tags) /\ values \in Seq(Values)
             /\ TagsFirst(f, rules) = tags \o values
             /\ TagsFirst(f, rules) \in Seq(Values)
             /\ \E p : /\ Shuffled(p, Len(TagsFirst(f, rules)), Len(rules))
                       /\ \A k \in 1..Len(TagsFirst(f, rules)) :
                            TagsFirst(f, rules)[k] = Spelled(f, rules[p[k]])
<1> DEFINE P == {i \in DOMAIN rules : IsTag(rules[i])}
           Q == {i \in DOMAIN rules : NotTag(rules[i])}
           n == Len(rules)
           A == Those(rules, P)
           B == Those(rules, Q)
           g == [v \in Values |-> Spelled(f, v)]
           h == [v \in Values |-> v]
           A2 == [k \in DOMAIN A |-> h[A[k]]]
           C == [k \in DOMAIN B |-> g[B[k]]]
           W == [k \in DOMAIN B |-> Spelled(f, B[k])]
<1>1. n \in Nat /\ DOMAIN rules = 1..n /\ (\A i \in 1..n : rules[i] \in Values) /\ Tags \subseteq Values
  BY FormatAssumption
<1>2. \A i \in 1..n : i \in P <=> rules[i] \in Tags
  BY <1>1 DEF IsTag
<1>3. \A i \in 1..n : i \in Q <=> rules[i] \notin Tags
  BY <1>1 DEF NotTag
<1> HIDE DEF P, Q, n
<1>4. A \in Seq(Values) /\ B \in Seq(Values)
  BY ThoseFacts
<1>5. /\ A2 \in Seq(Tags) /\ Len(A2) = Len(A)
      /\ \E e : Picks(e, Len(A2), n, P) /\ \A k \in 1..Len(A2) : A2[k] = h[rules[e[k]]]
  <2>1. \A i \in 1..n : i \in P => h[rules[i]] \in Tags
    BY <1>1, <1>2
  <2> HIDE DEF h
  <2>2. A2 = MapOf(h, rules, P) /\ n = Len(rules)
    BY DEF MapOf, n
  <2>3. Len(MapOf(h, rules, P)) = Len(A)
    BY <2>1, <2>2, MapThose
  <2> HIDE DEF A2
  <2>4. /\ MapOf(h, rules, P) \in Seq(Tags)
        /\ \E e : /\ Picks(e, Len(MapOf(h, rules, P)), Len(rules), P)
                  /\ \A k \in 1..Len(MapOf(h, rules, P)) : MapOf(h, rules, P)[k] = h[rules[e[k]]]
    BY <2>1, <2>2, MapThose
  <2> HIDE DEF A
  <2> QED BY <2>2, <2>3, <2>4
<1>6. /\ C \in Seq(Values) /\ Len(C) = Len(B)
      /\ \E e : Picks(e, Len(C), n, Q) /\ \A k \in 1..Len(C) : C[k] = g[rules[e[k]]]
  <2>1. \A i \in 1..n : i \in Q => g[rules[i]] \in Values
    BY <1>1, <1>3, LowerFacts
  <2> HIDE DEF g
  <2>2. C = MapOf(g, rules, Q) /\ n = Len(rules)
    BY DEF MapOf, n
  <2>3. Len(MapOf(g, rules, Q)) = Len(B)
    BY <2>1, <2>2, MapThose
  <2> HIDE DEF C
  <2>4. /\ MapOf(g, rules, Q) \in Seq(Values)
        /\ \E e : /\ Picks(e, Len(MapOf(g, rules, Q)), Len(rules), Q)
                  /\ \A k \in 1..Len(MapOf(g, rules, Q)) : MapOf(g, rules, Q)[k] = g[rules[e[k]]]
    BY <2>1, <2>2, MapThose
  <2> HIDE DEF B
  <2> QED BY <2>2, <2>3, <2>4
<1> HIDE DEF A, B
<1>7. A2 = A /\ C = W
  BY <1>4
<1>8. \A i \in 1..n : h[rules[i]] = rules[i] /\ g[rules[i]] = Spelled(f, rules[i])
  BY <1>1
<1> HIDE DEF A2, C, W, g, h
<1> DEFINE a == Len(A)
           b == Len(C)
           T == A \o C
<1>9. a \in Nat /\ b \in Nat /\ A \in Seq(Tags)
  BY <1>4, <1>5, <1>6, <1>7
<1>10. PICK e : Picks(e, a, n, P) /\ \A k \in 1..a : A[k] = h[rules[e[k]]]
  BY <1>5, <1>7
<1>11. PICK d : Picks(d, b, n, Q) /\ \A k \in 1..b : C[k] = g[rules[d[k]]]
  BY <1>6
<1>12. C \in Seq(Values) /\ A \in Seq(Values)
  BY <1>1, <1>4, <1>6
<1>13. T \in Seq(Values) /\ Len(T) = a + b /\ (\A k \in 1..a : T[k] = A[k]) /\ \A k \in 1..b : T[a + k] = C[k]
  BY <1>12, ConcatFacts
<1> HIDE DEF a, b, T
<1> DEFINE p == [k \in 1..(a + b) |-> IF k <= a THEN e[k] ELSE d[k - a]]
<1>14. ASSUME NEW k \in 1..(a + b)
       PROVE  /\ k \in 1..a \/ (k - a \in 1..b /\ k \notin 1..a)
              /\ k \in 1..a => p[k] = e[k] /\ p[k] \in 1..n /\ rules[p[k]] \in Tags /\ T[k] = rules[p[k]]
              /\ k \notin 1..a => /\ p[k] = d[k - a] /\ p[k] \in 1..n /\ rules[p[k]] \notin Tags
                                  /\ T[k] = Spelled(f, rules[p[k]])
  <2>1. CASE k \in 1..a
    <3>1. p[k] = e[k] /\ e[k] \in 1..n /\ e[k] \in P /\ T[k] = A[k]
      BY <1>9, <1>10, <1>13, <2>1 DEF Picks
    <3> HIDE DEF p
    <3> QED BY <1>2, <1>8, <1>10, <2>1, <3>1
  <2>2. CASE k \notin 1..a
    <3>1. k - a \in 1..b /\ p[k] = d[k - a] /\ a + (k - a) = k
      BY <1>9, <2>2
    <3>2. d[k - a] \in 1..n /\ d[k - a] \in Q /\ T[k] = C[k - a]
      BY <1>11, <1>13, <3>1 DEF Picks
    <3> HIDE DEF p
    <3> QED BY <1>3, <1>8, <1>11, <2>2, <3>1, <3>2
  <2> QED BY <2>1, <2>2
<1>15. p \in [1..(a + b) -> 1..n]
  <2>1. \A k \in 1..(a + b) : p[k] \in 1..n
    <3> HIDE DEF p
    <3> QED BY <1>14
  <2> QED BY <2>1
<1> HIDE DEF p
<1>16. \A k \in 1..(a + b) : T[k] = Spelled(f, rules[p[k]])
  <2> SUFFICES ASSUME NEW k \in 1..(a + b) PROVE T[k] = Spelled(f, rules[p[k]])
    OBVIOUS
  <2>1. CASE k \in 1..a
    BY <1>1, <1>14, <2>1, LowerFacts
  <2>2. CASE k \notin 1..a
    BY <1>14, <2>2
  <2> QED BY <2>1, <2>2
<1>17. ASSUME NEW j \in 1..(a + b), NEW k \in 1..(a + b), p[j] = p[k] PROVE j = k
  <2>1. CASE j \in 1..a /\ k \in 1..a
    <3>1. e[j] = e[k] /\ e[j] \in Nat
      BY <1>10, <1>14, <1>17, <2>1 DEF Picks
    <3>2. ~(j < k) /\ ~(k < j)
      BY <1>10, <2>1, <3>1 DEF Picks
    <3> QED BY <2>1, <3>2
  <2>2. CASE j \notin 1..a /\ k \notin 1..a
    <3>0. j - a \in 1..b /\ k - a \in 1..b
      BY <1>14, <2>2
    <3>1. d[j - a] = d[k - a] /\ d[j - a] \in Nat
      BY <1>11, <1>14, <1>17, <2>2, <3>0 DEF Picks
    <3>2. ~(j - a < k - a) /\ ~(k - a < j - a)
      BY <1>11, <3>0, <3>1 DEF Picks
    <3>3. j - a = k - a
      BY <3>0, <3>2
    <3> QED BY <1>9, <3>3
  <2>3. CASE j \in 1..a /\ k \notin 1..a
    BY <1>14, <1>17, <2>3
  <2>4. CASE j \notin 1..a /\ k \in 1..a
    BY <1>14, <1>17, <2>4
  <2> QED BY <2>1, <2>2, <2>3, <2>4
<1>18. ASSUME NEW i \in 1..n PROVE \E k \in 1..(a + b) : p[k] = i
  <2>1. CASE rules[i] \in Tags
    <3>1. PICK k \in 1..a : e[k] = i
      BY <1>2, <1>10, <2>1 DEF Picks
    <3>2. k \in 1..(a + b)
      BY <1>9
    <3> QED BY <1>14, <3>1, <3>2
  <2>2. CASE rules[i] \notin Tags
    <3>1. PICK k \in 1..b : d[k] = i
      BY <1>3, <1>11, <2>2 DEF Picks
    <3>2. a + k \in 1..(a + b) /\ a + k \notin 1..a /\ (a + k) - a = k
      BY <1>9
    <3> QED BY <1>14, <3>1, <3>2
  <2> QED BY <2>1, <2>2
<1>19. Shuffled(p, a + b, n)
  BY <1>15, <1>17, <1>18 DEF Shuffled
<1>20. Select(rules, IsTag) = A /\ Select(rules, NotTag) = B
  BY DEF Select, A, B, P, Q
<1>21. TagsFirst(f, rules) = T
  BY <1>7, <1>20 DEF TagsFirst, Map, W, T
<1>22. Map(LAMBDA v : Spelled(f, v), Select(rules, NotTag)) = C
  BY <1>7, <1>20 DEF Map, W
<1>23. Len(TagsFirst(f, rules)) = a + b /\ \A k \in 1..(a + b) : TagsFirst(f, rules)[k] = Spelled(f, rules[p[k]])
  BY <1>13, <1>16, <1>21
<1>24. \E p1 : /\ Shuffled(p1, Len(TagsFirst(f, rules)), Len(rules))
              /\ \A k \in 1..Len(TagsFirst(f, rules)) : TagsFirst(f, rules)[k] = Spelled(f, rules[p1[k]])
  BY <1>19, <1>23 DEF n
<1>25. TagsFirst(f, rules) = A \o C /\ TagsFirst(f, rules) \in Seq(Values)
  BY <1>13, <1>21 DEF T
<1>26. Select(rules, IsTag) \in Seq(Tags)
  BY <1>9, <1>20
<1> QED BY <1>6, <1>20, <1>22, <1>24, <1>25, <1>26

-----------------------------------------------------------------------------
(* Parsing: the groups of a text are numbered by the lines that start       *)
(* them.                                                                    *)

ParsedGroups ==
  [target : Targets, enabled : BOOLEAN, comment : Seq(Comments), tags : Seq(Tags), values : Seq(Values)]

LEMMA PendingType ==
  ASSUME NEW f \in Files, NEW lines \in Seq(Lines(f)), NEW i \in 1..Len(lines)
  PROVE  Pending(lines, i) \in Seq(Comments)
<1> DEFINE from == Least({s \in 1..i : \A j \in s..(i - 1) :
                       ~IsGroup(lines[j]) /\ lines[j] # Blank})
           P == {j \in from..(i - 1) : IsComment(lines[j])}
           g == [line \in Lines(f) |-> line.text]
           t == Those(lines, P)
           w == [k \in DOMAIN t |-> t[k].text]
           u == [k \in DOMAIN t |-> g[t[k]]]
<1>1. Pending(lines, i) = w
  BY DEF Pending, Map
<1>2. \A j \in 1..Len(lines) : j \in P => g[lines[j]] \in Comments
  BY LineKinds DEF IsComment
<1>3. MapOf(g, lines, P) \in Seq(Comments)
  <2> HIDE DEF P, g
  <2> QED BY <1>2, MapThose
<1>4. t \in Seq(Lines(f))
  <2> HIDE DEF P
  <2> QED BY ThoseFacts
<1>5. MapOf(g, lines, P) = u
  BY DEF MapOf
<1> HIDE DEF t
<1>6. u = w
  BY <1>4
<1> QED BY <1>1, <1>3, <1>5, <1>6

LEMMA GroupType ==
  ASSUME NEW f \in Files, NEW lines \in Seq(Lines(f)), NEW i \in 1..Len(lines), IsGroup(lines[i])
  PROVE  /\ GroupAt(f, lines, i) \in ParsedGroups
         /\ GroupAt(f, lines, i).tags \o GroupAt(f, lines, i).values = TagsFirst(f, RulesOf(f, lines, i))
         /\ GroupAt(f, lines, i).target = lines[i].target
         /\ GroupAt(f, lines, i).enabled <=> lines[i].kind # "#/"
         /\ GroupAt(f, lines, i).comment = Pending(lines, i)
<1> DEFINE rules == RulesOf(f, lines, i)
           tags == Select(rules, IsTag)
           values == Map(LAMBDA v : Spelled(f, v), Select(rules, NotTag))
<1>1. rules \in Seq(Values)
  BY RulesOfType
<1>2. tags \in Seq(Tags) /\ values \in Seq(Values) /\ TagsFirst(f, rules) = tags \o values
  <2> HIDE DEF rules
  <2> QED BY <1>1, TagsFirstFacts
<1>3. GroupAt(f, lines, i) = Group(lines[i].target, lines[i].kind # "#/", Pending(lines, i), tags, values)
  BY DEF GroupAt
<1>4. lines[i].target \in Targets /\ Pending(lines, i) \in Seq(Comments)
  BY LineKinds, PendingType
<1> HIDE DEF tags, values
<1>5. GroupAt(f, lines, i) = [target |-> lines[i].target, enabled |-> lines[i].kind # "#/",
                              comment |-> Pending(lines, i), tags |-> tags, values |-> values]
  BY <1>3 DEF Group
<1>6. GroupAt(f, lines, i) \in ParsedGroups
  BY <1>2, <1>4, <1>5 DEF ParsedGroups
<1> DEFINE g == GroupAt(f, lines, i)
<1>7. g.enabled = (lines[i].kind # "#/") /\ g.target = lines[i].target /\ g.comment = Pending(lines, i)
  BY <1>5
<1>8. g.tags \o g.values = TagsFirst(f, rules)
  BY <1>2, <1>5
<1> HIDE DEF g
<1>9. g.enabled <=> lines[i].kind # "#/"
  BY <1>7
<1> QED BY <1>6, <1>7, <1>8, <1>9 DEF rules, g

LEMMA ParseFacts ==
  ASSUME NEW f \in Files, NEW lines \in Seq(Lines(f))
  PROVE  /\ Parse(f, lines) \in Seq(ParsedGroups)
         /\ \E e : /\ Picks(e, Len(Parse(f, lines)), Len(lines), {i \in 1..Len(lines) : IsGroup(lines[i])})
                   /\ \A k \in 1..Len(Parse(f, lines)) : Parse(f, lines)[k] = GroupAt(f, lines, e[k])
<1> DEFINE n == Len(lines)
           s == [i \in DOMAIN lines |-> i]
           P == {i \in 1..n : IsGroup(lines[i])}
           g == [i \in 1..n |-> GroupAt(f, lines, i)]
           t == Those(s, P)
           w == [k \in DOMAIN t |-> GroupAt(f, lines, t[k])]
<1>1. n \in Nat /\ DOMAIN lines = 1..n
  OBVIOUS
<1>2. s \in Seq(1..n) /\ Len(s) = n /\ \A i \in 1..n : s[i] = i
  BY <1>1
<1>3. Parse(f, lines) = w
  <2>1. {i \in DOMAIN s : IsGroup(lines[s[i]])} = P
    BY <1>1, <1>2
  <2> QED BY <2>1 DEF Parse, Map, Select
<1>4. \A i \in 1..Len(s) : i \in P => g[s[i]] \in ParsedGroups
  BY <1>1, <1>2, GroupType
<1> HIDE DEF s, P
<1>5. t \in Seq(1..n)
  BY <1>2, ThoseFacts
<1>6. MapOf(g, s, P) = w
  <2>1. MapOf(g, s, P) = [k \in DOMAIN t |-> g[t[k]]]
    BY DEF MapOf
  <2>2. \A k \in DOMAIN t : g[t[k]] = GroupAt(f, lines, t[k])
    <3> HIDE DEF t
    <3> QED BY <1>5
  <2> HIDE DEF t, g
  <2> QED BY <2>1, <2>2
<1>7. /\ MapOf(g, s, P) \in Seq(ParsedGroups)
      /\ \E e : /\ Picks(e, Len(MapOf(g, s, P)), Len(s), P)
                /\ \A k \in 1..Len(MapOf(g, s, P)) : MapOf(g, s, P)[k] = g[s[e[k]]]
  <2> HIDE DEF g
  <2> QED BY <1>2, <1>4, MapThose
<1> HIDE DEF w, t
<1>8. PICK e : Picks(e, Len(w), n, P) /\ \A k \in 1..Len(w) : w[k] = g[s[e[k]]]
  <2>1. \E e : Picks(e, Len(w), n, P) /\ \A k \in 1..Len(w) : w[k] = g[s[e[k]]]
    <3> HIDE DEF g, n
    <3> QED BY <1>2, <1>6, <1>7
  <2> QED BY <2>1
<1>9. \A k \in 1..Len(w) : w[k] = GroupAt(f, lines, e[k])
  <2> SUFFICES ASSUME NEW k \in 1..Len(w) PROVE w[k] = GroupAt(f, lines, e[k])
    OBVIOUS
  <2>1. e[k] \in 1..n
    BY <1>8 DEF Picks
  <2> QED BY <1>2, <1>8, <2>1
<1>10. Parse(f, lines) \in Seq(ParsedGroups)
  BY <1>3, <1>6, <1>7
<1>11. Picks(e, Len(Parse(f, lines)), Len(lines), {i \in 1..Len(lines) : IsGroup(lines[i])})
  BY <1>3, <1>8 DEF P
<1>12. \A k \in 1..Len(Parse(f, lines)) : Parse(f, lines)[k] = GroupAt(f, lines, e[k])
  BY <1>3, <1>9
<1> QED BY <1>10, <1>11, <1>12

(* The rules of a text: rule k of the group that line i starts. *)
Slots(f, lines) ==
  {s \in (1..Len(lines)) \X Nat : IsGroup(lines[s[1]]) /\ s[2] \in 1..Len(RulesOf(f, lines, s[1]))}
RuleAt(f, lines, s) ==
  [target |-> lines[s[1]].target, enabled |-> lines[s[1]].kind # "#/",
   comment |-> Pending(lines, s[1]), rule |-> Spelled(f, RulesOf(f, lines, s[1])[s[2]])]

FlatRules == [target : Targets, enabled : BOOLEAN, comment : Seq(Comments), rule : Values]
FlatOf(g) ==
  LET one(v) == [target |-> g.target, enabled |-> g.enabled, comment |-> g.comment, rule |-> v]
  IN  Map(one, g.tags \o g.values)

LEMMA FlatOfFacts ==
  ASSUME NEW g \in ParsedGroups
  PROVE  /\ FlatOf(g) \in Seq(FlatRules) /\ Len(FlatOf(g)) = Len(g.tags \o g.values)
         /\ \A k \in 1..Len(g.tags \o g.values) :
              FlatOf(g)[k] = [target |-> g.target, enabled |-> g.enabled, comment |-> g.comment,
                              rule |-> (g.tags \o g.values)[k]]
<1> DEFINE r == g.tags \o g.values
<1>1. r \in Seq(Values)
  <2>1. g.tags \in Seq(Values) /\ g.values \in Seq(Values)
    BY FormatAssumption DEF ParsedGroups
  <2> QED BY <2>1
<1> HIDE DEF r
<1>2. g.target \in Targets /\ g.enabled \in BOOLEAN /\ g.comment \in Seq(Comments)
  BY DEF ParsedGroups
<1>3. FlatOf(g) = [k \in DOMAIN r |-> [target |-> g.target, enabled |-> g.enabled, comment |-> g.comment,
                              rule |-> r[k]]]
  BY DEF FlatOf, Map, r
<1>4. \A k \in 1..Len(r) : FlatOf(g)[k] = [target |-> g.target, enabled |-> g.enabled, comment |-> g.comment,
                                          rule |-> r[k]]
  BY <1>1, <1>3
<1>5. \A v \in Values : [target |-> g.target, enabled |-> g.enabled, comment |-> g.comment, rule |-> v] \in FlatRules
  BY <1>2 DEF FlatRules
<1>6. FlatOf(g) \in Seq(FlatRules) /\ Len(FlatOf(g)) = Len(r)
  BY <1>1, <1>3, <1>5
<1> QED BY <1>4, <1>6 DEF r

LEMMA FlatFacts ==
  ASSUME NEW groups \in Seq(ParsedGroups)
  PROVE  /\ Flat(groups) = FlattenSeq([i \in DOMAIN groups |-> FlatOf(groups[i])])
         /\ [i \in DOMAIN groups |-> FlatOf(groups[i])] \in Seq(Seq(FlatRules))
         /\ Flat(groups) \in Seq(FlatRules)
<1> DEFINE ss == [i \in DOMAIN groups |-> FlatOf(groups[i])]
<1>1. \A i \in DOMAIN groups : groups[i] \in ParsedGroups
  OBVIOUS
<1>2. ss \in Seq(Seq(FlatRules))
  <2> DEFINE R == Seq(FlatRules)
  <2>0. \A g \in ParsedGroups : FlatOf(g) \in R
    BY FlatOfFacts
  <2> HIDE DEF R
  <2>1. \A i \in 1..Len(groups) : FlatOf(groups[i]) \in R
    BY <1>1, <2>0
  <2>2. ss \in Seq(R)
    BY <2>1
  <2> QED BY <2>2 DEF R
<1>3. Flat(groups) = FlattenSeq(ss)
  BY DEF Flat, Map, FlatOf
<1> HIDE DEF ss
<1>4. FlattenSeq(ss) \in Seq(FlatRules)
  BY <1>2, FlattenType
<1> QED BY <1>2, <1>3, <1>4 DEF ss

-----------------------------------------------------------------------------
(* The listed rules are numbered by line and place; two equal ones of one   *)
(* target are a clash of two places.                                        *)

Sorting(f, rules, p) ==
  /\ Shuffled(p, Len(TagsFirst(f, rules)), Len(rules))
  /\ \A k \in 1..Len(TagsFirst(f, rules)) : TagsFirst(f, rules)[k] = Spelled(f, rules[p[k]])

(* The list slot numbers the rules of a text. *)
Numbering(slot, f, lines) ==
  LET R == Flat(Parse(f, lines))
  IN  /\ slot \in [1..Len(R) -> Slots(f, lines)]
      /\ \A n \in 1..Len(R) : R[n] = RuleAt(f, lines, slot[n])
      /\ \A n, m \in 1..Len(R) : slot[n] = slot[m] => n = m
      /\ \A s \in Slots(f, lines) : \E n \in 1..Len(R) : slot[n] = s

LEMMA RulesSlots ==
  ASSUME NEW f \in Files, NEW lines \in Seq(Lines(f))
  PROVE  \E slot : Numbering(slot, f, lines)
<1> DEFINE G == Parse(f, lines)
           ss == [i \in DOMAIN G |-> FlatOf(G[i])]
           R == Flat(G)
           n == Len(lines)
           g == Len(G)
           q == Len(R)
           rules(i) == RulesOf(f, lines, i)
           sort(i) == CHOOSE p : Sorting(f, rules(i), p)
           L(i) == Len(rules(i))
<1>1. PICK e : Picks(e, g, n, {i \in 1..n : IsGroup(lines[i])}) /\ \A k \in 1..g : G[k] = GroupAt(f, lines, e[k])
  BY ParseFacts
<1>2. G \in Seq(ParsedGroups) /\ g \in Nat /\ DOMAIN G = 1..g /\ n \in Nat
  BY ParseFacts
<1>3. R = FlattenSeq(ss) /\ ss \in Seq(Seq(FlatRules)) /\ R \in Seq(FlatRules)
  <2> HIDE DEF G
  <2> QED BY <1>2, FlatFacts
<1>4. q \in Nat /\ Len(ss) = g /\ \A i \in 1..g : ss[i] = FlatOf(G[i])
  <2> HIDE DEF G, R
  <2> QED BY <1>2, <1>3
<1> HIDE DEF G, ss, R, n, g, q
<1>5. PICK at : Comes(at, ss)
  BY <1>3, FlattenPlaces
<1>6. /\ at \in [1..q -> Nat \X Nat]
      /\ \A k \in 1..q : at[k][1] \in 1..g /\ at[k][2] \in 1..Len(ss[at[k][1]]) /\ R[k] = ss[at[k][1]][at[k][2]]
      /\ \A k, l \in 1..q : at[k] = at[l] => k = l
      /\ \A i \in 1..g : \A k \in 1..Len(ss[i]) : \E m \in 1..q : at[m] = <<i, k>>
  BY <1>3, <1>4, <1>5 DEF Comes, q
<1>7. \A i \in 1..g : e[i] \in 1..n /\ IsGroup(lines[e[i]])
  BY <1>1 DEF Picks
<1>8. ASSUME NEW i \in 1..n
      PROVE  Sorting(f, rules(i), sort(i)) /\ rules(i) \in Seq(Values) /\ L(i) \in Nat
  <2>1. rules(i) \in Seq(Values)
    BY RulesOfType DEF n
  <2>2. \E p : Sorting(f, rules(i), p)
    <3> HIDE DEF rules
    <3> QED BY <2>1, TagsFirstFacts DEF Sorting
  <2> HIDE DEF rules
  <2> QED BY <2>1, <2>2
<1> HIDE DEF rules, sort
<1>9. ASSUME NEW i \in 1..g
      PROVE  /\ Len(ss[i]) = Len(TagsFirst(f, rules(e[i])))
             /\ \A k \in 1..Len(ss[i]) :
                  /\ sort(e[i])[k] \in 1..L(e[i])
                  /\ ss[i][k] = RuleAt(f, lines, <<e[i], sort(e[i])[k]>>)
             /\ \A k, l \in 1..Len(ss[i]) : sort(e[i])[k] = sort(e[i])[l] => k = l
             /\ \A k \in 1..L(e[i]) : \E l \in 1..Len(ss[i]) : sort(e[i])[l] = k
  <2> DEFINE j == e[i]
             h == GroupAt(f, lines, j)
             tf == TagsFirst(f, rules(j))
  <2>1. j \in 1..n /\ IsGroup(lines[j]) /\ G[i] = h
    BY <1>1, <1>7
  <2> HIDE DEF j, h
  <2>2. /\ h \in ParsedGroups /\ h.tags \o h.values = tf
        /\ h.target = lines[j].target
        /\ h.enabled <=> lines[j].kind # "#/"
        /\ h.comment = Pending(lines, j)
    BY <2>1, GroupType DEF n, h, rules
  <2>20. h.enabled = (lines[j].kind # "#/")
    <3>1. h.enabled \in BOOLEAN
      BY <2>2 DEF ParsedGroups
    <3> QED BY <2>2, <3>1
  <2>3. ss[i] = FlatOf(h)
    BY <1>4, <2>1
  <2> HIDE DEF tf
  <2>4. /\ Len(ss[i]) = Len(tf)
        /\ \A k \in 1..Len(tf) : ss[i][k] = [target |-> h.target, enabled |-> h.enabled, comment |-> h.comment,
                                             rule |-> tf[k]]
    BY <2>2, <2>3, FlatOfFacts
  <2>5. /\ Shuffled(sort(j), Len(tf), L(j))
        /\ \A k \in 1..Len(tf) : tf[k] = Spelled(f, rules(j)[sort(j)[k]])
    BY <1>8, <2>1 DEF Sorting, tf
  <2>6. ASSUME NEW k \in 1..Len(tf) PROVE ss[i][k] = RuleAt(f, lines, <<j, sort(j)[k]>>)
    <3>1. tf[k] = Spelled(f, rules(j)[sort(j)[k]])
      BY <2>5
    <3>2. RuleAt(f, lines, <<j, sort(j)[k]>>) =
            [target |-> lines[j].target, enabled |-> lines[j].kind # "#/", comment |-> Pending(lines, j),
             rule |-> tf[k]]
      BY <3>1 DEF RuleAt, rules
    <3> QED BY <2>2, <2>20, <2>4, <3>2
  <2>7. Len(ss[i]) = Len(TagsFirst(f, rules(j)))
    BY <2>4 DEF tf
  <2>8. /\ \A k \in 1..Len(tf) : sort(j)[k] \in 1..L(j)
        /\ \A k, l \in 1..Len(tf) : sort(j)[k] = sort(j)[l] => k = l
        /\ \A k \in 1..L(j) : \E l \in 1..Len(tf) : sort(j)[l] = k
    BY <2>5 DEF Shuffled
  <2> HIDE DEF L
  <2> QED BY <2>4, <2>6, <2>7, <2>8 DEF j
<1> DEFINE slot == [k \in 1..q |-> <<e[at[k][1]], sort(e[at[k][1]])[at[k][2]]>>]
<1>10. ASSUME NEW k \in 1..q
       PROVE  slot[k] \in Slots(f, lines) /\ R[k] = RuleAt(f, lines, slot[k])
  <2>1. at[k][1] \in 1..g /\ at[k][2] \in 1..Len(ss[at[k][1]]) /\ R[k] = ss[at[k][1]][at[k][2]]
    BY <1>6
  <2>2. /\ sort(e[at[k][1]])[at[k][2]] \in 1..L(e[at[k][1]])
        /\ ss[at[k][1]][at[k][2]] = RuleAt(f, lines, <<e[at[k][1]], sort(e[at[k][1]])[at[k][2]]>>)
    BY <1>9, <2>1
  <2>3. e[at[k][1]] \in 1..n /\ IsGroup(lines[e[at[k][1]]]) /\ L(e[at[k][1]]) \in Nat
    BY <1>7, <1>8, <2>1
  <2>4. slot[k] = <<e[at[k][1]], sort(e[at[k][1]])[at[k][2]]>>
    OBVIOUS
  <2> HIDE DEF slot
  <2>5. slot[k] \in Slots(f, lines)
    BY <2>2, <2>3, <2>4 DEF Slots, L, rules, n
  <2> QED BY <2>1, <2>2, <2>4, <2>5
<1>11. ASSUME NEW k \in 1..q, NEW l \in 1..q, slot[k] = slot[l] PROVE k = l
  <2>1. /\ at[k][1] \in 1..g /\ at[k][2] \in 1..Len(ss[at[k][1]])
        /\ at[l][1] \in 1..g /\ at[l][2] \in 1..Len(ss[at[l][1]])
    BY <1>6
  <2>2. e[at[k][1]] = e[at[l][1]] /\ sort(e[at[k][1]])[at[k][2]] = sort(e[at[l][1]])[at[l][2]]
    BY <1>11
  <2>3. at[k][1] = at[l][1]
    <3>1. ~(at[k][1] < at[l][1]) /\ ~(at[l][1] < at[k][1])
      BY <1>1, <1>7, <2>1, <2>2 DEF Picks
    <3> QED BY <2>1, <3>1
  <2>4. at[k][2] = at[l][2]
    <3> HIDE DEF slot
    <3> QED BY <1>9, <2>1, <2>2, <2>3, SMTT(40)
  <2>5. at[k] = at[l]
    <3>1. at[k] \in Nat \X Nat /\ at[l] \in Nat \X Nat
      BY <1>6
    <3>2. at[k] = <<at[k][1], at[k][2]>> /\ at[l] = <<at[l][1], at[l][2]>>
      BY <3>1
    <3> QED BY <2>3, <2>4, <3>2
  <2> QED BY <1>6, <2>5
<1>12. ASSUME NEW s \in Slots(f, lines) PROVE \E k \in 1..q : slot[k] = s
  <2>1. s[1] \in 1..n /\ IsGroup(lines[s[1]]) /\ s[2] \in 1..L(s[1]) /\ s = <<s[1], s[2]>>
    BY DEF Slots, L, rules, n
  <2>2. PICK i \in 1..g : e[i] = s[1]
    BY <1>1, <2>1 DEF Picks
  <2>3. PICK k \in 1..Len(ss[i]) : sort(e[i])[k] = s[2]
    BY <1>9, <2>1, <2>2
  <2>4. PICK m \in 1..q : at[m] = <<i, k>>
    BY <1>6
  <2>5. slot[m] = <<s[1], s[2]>>
    BY <2>2, <2>3, <2>4
  <2> QED BY <2>1, <2>5
<1>13. slot \in [1..q -> Slots(f, lines)]
  BY <1>10
<1> HIDE DEF slot
<1>14. Flat(Parse(f, lines)) = R /\ Len(R) = q
  BY DEF R, G, q
<1>15. \A k, l \in 1..q : slot[k] = slot[l] => k = l
  BY <1>11
<1>16. \A s \in Slots(f, lines) : \E k \in 1..q : slot[k] = s
  BY <1>12
<1>17. \A k \in 1..q : R[k] = RuleAt(f, lines, slot[k])
  BY <1>10
<1> QED BY <1>13, <1>14, <1>15, <1>16, <1>17 DEF Numbering

(* No two rules of active groups of a target are the same. *)
NoClash(f, lines) ==
  \A s, t \in Slots(f, lines) :
    /\ lines[s[1]].kind # "#/" /\ lines[t[1]].kind # "#/"
    /\ lines[s[1]].target = lines[t[1]].target
    /\ Same(RulesOf(f, lines, s[1])[s[2]], RulesOf(f, lines, t[1])[t[2]])
    => s = t

LEMMA SlotRules ==
  ASSUME NEW f \in Files, NEW lines \in Seq(Lines(f)), NEW s \in Slots(f, lines)
  PROVE  /\ RulesOf(f, lines, s[1])[s[2]] \in Values
         /\ RuleAt(f, lines, s).enabled <=> lines[s[1]].kind # "#/"
         /\ RuleAt(f, lines, s).target = lines[s[1]].target
         /\ Fold(RuleAt(f, lines, s).rule) = Fold(RulesOf(f, lines, s[1])[s[2]])
<1>1. s[1] \in 1..Len(lines) /\ s[2] \in 1..Len(RulesOf(f, lines, s[1]))
  BY DEF Slots
<1>2. RulesOf(f, lines, s[1]) \in Seq(Values)
  BY <1>1, RulesOfType
<1>3. RulesOf(f, lines, s[1])[s[2]] \in Values
  BY <1>1, <1>2
<1> DEFINE v == RulesOf(f, lines, s[1])[s[2]]
           r == RuleAt(f, lines, s)
<1>4. /\ r.enabled = (lines[s[1]].kind # "#/") /\ r.target = lines[s[1]].target
      /\ r.rule = Spelled(f, v)
  BY DEF RuleAt
<1> HIDE DEF r, v
<1>5. r.enabled <=> lines[s[1]].kind # "#/"
  BY <1>4
<1>6. v \in Values
  BY <1>3 DEF v
<1>7. Fold(r.rule) = Fold(v)
  BY <1>4, <1>6, LowerFacts
<1> QED BY <1>4, <1>5, <1>6, <1>7 DEF r, v

LEMMA DuplicatesAreClashes ==
  ASSUME NEW f \in Files, NEW lines \in Seq(Lines(f))
  PROVE  LET R == Flat(Parse(f, lines))
             clash(r, q) == r.target = q.target /\ r.enabled /\ q.enabled /\ Same(r.rule, q.rule)
         IN  (\A i, j \in DOMAIN R : i # j => ~clash(R[i], R[j])) <=> NoClash(f, lines)
<1> DEFINE R == Flat(Parse(f, lines))
           clash(r, q) == r.target = q.target /\ r.enabled /\ q.enabled /\ Same(r.rule, q.rule)
           of(s) == RulesOf(f, lines, s[1])[s[2]]
           meet(s, t) == /\ lines[s[1]].kind # "#/" /\ lines[t[1]].kind # "#/"
                         /\ lines[s[1]].target = lines[t[1]].target
                         /\ Same(of(s), of(t))
<1>1. PICK slot : Numbering(slot, f, lines)
  BY RulesSlots
<1>2. DOMAIN R = 1..Len(R)
  <2>1. Parse(f, lines) \in Seq(ParsedGroups)
    BY ParseFacts
  <2>2. R \in Seq(FlatRules)
    BY <2>1, FlatFacts
  <2> HIDE DEF R
  <2> QED BY <2>2
<1>3. /\ slot \in [1..Len(R) -> Slots(f, lines)]
      /\ \A n \in 1..Len(R) : R[n] = RuleAt(f, lines, slot[n])
      /\ \A n, m \in 1..Len(R) : slot[n] = slot[m] => n = m
      /\ \A s \in Slots(f, lines) : \E n \in 1..Len(R) : slot[n] = s
  BY <1>1 DEF Numbering
<1> HIDE DEF R
<1>4. ASSUME NEW i \in 1..Len(R), NEW j \in 1..Len(R)
      PROVE  clash(R[i], R[j]) <=> meet(slot[i], slot[j])
  <2>1. slot[i] \in Slots(f, lines) /\ slot[j] \in Slots(f, lines)
    BY <1>3
  <2>2. R[i] = RuleAt(f, lines, slot[i]) /\ R[j] = RuleAt(f, lines, slot[j])
    BY <1>3
  <2>3. /\ R[i].enabled <=> lines[slot[i][1]].kind # "#/"
        /\ R[j].enabled <=> lines[slot[j][1]].kind # "#/"
        /\ R[i].target = lines[slot[i][1]].target /\ R[j].target = lines[slot[j][1]].target
        /\ Fold(R[i].rule) = Fold(of(slot[i])) /\ Fold(R[j].rule) = Fold(of(slot[j]))
    BY <2>1, <2>2, SlotRules
  <2> HIDE DEF of
  <2> QED BY <2>3 DEF Same
<1>5. NoClash(f, lines) <=> \A s, t \in Slots(f, lines) : meet(s, t) => s = t
  BY DEF NoClash
<1> HIDE DEF clash, meet
<1>6. (\A i, j \in 1..Len(R) : i # j => ~clash(R[i], R[j])) <=> \A s, t \in Slots(f, lines) : meet(s, t) => s = t
  <2>1. ASSUME \A i, j \in 1..Len(R) : i # j => ~clash(R[i], R[j]),
               NEW s \in Slots(f, lines), NEW t \in Slots(f, lines), meet(s, t)
        PROVE  s = t
    <3>1. PICK i \in 1..Len(R) : slot[i] = s
      BY <1>3
    <3>2. PICK j \in 1..Len(R) : slot[j] = t
      BY <1>3
    <3>3. clash(R[i], R[j])
      BY <1>4, <2>1, <3>1, <3>2
    <3>4. i = j
      BY <2>1, <3>3
    <3> QED BY <3>1, <3>2, <3>4
  <2>2. ASSUME \A s, t \in Slots(f, lines) : meet(s, t) => s = t,
               NEW i \in 1..Len(R), NEW j \in 1..Len(R), i # j, clash(R[i], R[j])
        PROVE  FALSE
    <3>1. meet(slot[i], slot[j])
      BY <1>4, <2>2
    <3>2. slot[i] \in Slots(f, lines) /\ slot[j] \in Slots(f, lines)
      BY <1>3
    <3>3. slot[i] = slot[j]
      BY <2>2, <3>1, <3>2
    <3> QED BY <1>3, <2>2, <3>3
  <2> QED BY <2>1, <2>2
<1> QED BY <1>2, <1>5, <1>6 DEF clash, R

-----------------------------------------------------------------------------
(* Inserting lines, joining them, and clashes as each file has them.        *)

LEMMA InsertFacts ==
  ASSUME NEW S, NEW s \in Seq(S), NEW x \in S, NEW at \in 1..(Len(s) + 1)
  PROVE  /\ InsertAt(s, at, x) \in Seq(S) /\ Len(InsertAt(s, at, x)) = Len(s) + 1
         /\ \A i \in 1..(at - 1) : InsertAt(s, at, x)[i] = s[i]
         /\ InsertAt(s, at, x)[at] = x
         /\ \A i \in at..Len(s) : InsertAt(s, at, x)[i + 1] = s[i]
<1> DEFINE a == SubSeq(s, 1, at - 1)
           b == <<x>>
           c == SubSeq(s, at, Len(s))
<1>1. /\ a \in Seq(S) /\ Len(a) = at - 1 /\ \A i \in 1..(at - 1) : a[i] = s[i]
      /\ Len(s) \in Nat
  OBVIOUS
<1>2. b \in Seq(S) /\ Len(b) = 1 /\ b[1] = x
  OBVIOUS
<1>3. c \in Seq(S) /\ Len(c) = Len(s) + 1 - at /\ \A i \in 1..(Len(s) + 1 - at) : c[i] = s[at + i - 1]
  OBVIOUS
<1>4. InsertAt(s, at, x) = (a \o b) \o c
  BY DEF InsertAt
<1> HIDE DEF a, b, c
<1>5. /\ a \o b \in Seq(S) /\ Len(a \o b) = at
      /\ \A i \in 1..(at - 1) : (a \o b)[i] = s[i]
      /\ (a \o b)[at] = x
  <2>1. /\ a \o b \in Seq(S) /\ Len(a \o b) = Len(a) + Len(b)
        /\ \A i \in 1..Len(a) : (a \o b)[i] = a[i]
        /\ \A i \in 1..Len(b) : (a \o b)[Len(a) + i] = b[i]
    <3>1. a \in Seq(S)
      BY <1>1
    <3>2. b \in Seq(S)
      BY <1>2
    <3> QED BY <3>1, <3>2, ConcatFacts
  <2>2. (a \o b)[(at - 1) + 1] = b[1] /\ (at - 1) + 1 = at
    BY <1>1, <1>2, <2>1
  <2> QED BY <1>1, <1>2, <2>1, <2>2
<1> DEFINE d == a \o b
           t == d \o c
<1>6. d \in Seq(S) /\ Len(d) = at
  BY <1>5
<1>7. /\ t \in Seq(S) /\ Len(t) = Len(d) + Len(c)
      /\ \A i \in 1..Len(d) : t[i] = d[i]
      /\ \A i \in 1..Len(c) : t[Len(d) + i] = c[i]
  <2>1. d \in Seq(S)
    BY <1>6
  <2>2. c \in Seq(S)
    BY <1>3
  <2> HIDE DEF d
  <2> QED BY <2>1, <2>2, ConcatFacts
<1>8. t \in Seq(S) /\ Len(t) = Len(s) + 1
  BY <1>1, <1>3, <1>6, <1>7
<1>9. /\ \A i \in 1..at : t[i] = d[i]
      /\ \A i \in 1..(Len(s) + 1 - at) : t[at + i] = c[i]
  BY <1>3, <1>6, <1>7
<1> HIDE DEF t, d
<1>10. \A i \in 1..(at - 1) : t[i] = s[i]
  BY <1>5, <1>9 DEF d
<1>11. t[at] = x
  BY <1>5, <1>9 DEF d
<1>12. ASSUME NEW i \in at..Len(s) PROVE t[i + 1] = s[i]
  <2>0. i \in Nat /\ at \in Nat /\ Len(s) \in Nat /\ at <= i /\ i <= Len(s)
    BY <1>1
  <2>1. (i + 1 - at) \in 1..(Len(s) + 1 - at) /\ at + (i + 1 - at) = i + 1 /\ at + (i + 1 - at) - 1 = i
    BY <2>0
  <2>2. t[at + (i + 1 - at)] = c[i + 1 - at]
    BY <1>9, <2>1
  <2>3. c[i + 1 - at] = s[at + (i + 1 - at) - 1]
    BY <1>3, <2>1
  <2> QED BY <2>1, <2>2, <2>3
<1>13. InsertAt(s, at, x) = t
  BY <1>4 DEF t, d
<1> QED BY <1>8, <1>10, <1>11, <1>12, <1>13

TextsOf(f) == [lines : Seq(Lines(f)), nl : BOOLEAN]

(* The text t has these lines, but for blank ones at the end. *)
ButBlanks(f, t, lines) ==
  /\ t \in TextsOf(f)
  /\ \E m \in 0..Len(lines) : /\ t.lines = SubSeq(lines, 1, m)
                            /\ \A i \in (m + 1)..Len(lines) : lines[i] = Blank

LEMMA TextIs ==
  ASSUME NEW f \in Files, NEW ls \in Seq(Lines(f)), NEW nl \in BOOLEAN
  PROVE  Text(ls, nl) \in TextsOf(f) /\ Text(ls, nl).lines = ls /\ Text(ls, nl).nl = nl
BY DEF Text, TextsOf

LEMMA TerminatedFacts ==
  ASSUME NEW f \in Files, NEW lines \in Seq(Lines(f)), NEW m \in 0..Len(lines), NEW ls,
         ls = SubSeq(lines, 1, m), \A i \in (m + 1)..Len(lines) : lines[i] = Blank
  PROVE  ButBlanks(f, Terminated(ls), lines)
<1>1. /\ ls \in Seq(Lines(f)) /\ Len(ls) = m /\ \A i \in 1..m : ls[i] = lines[i]
      /\ SubSeq(lines, 1, 0) = <<>> /\ 0 \in 0..Len(lines) /\ <<>> \in Seq(Lines(f))
  OBVIOUS
<1>2. CASE ls = <<>>
  <2>1. Terminated(ls) = Text(ls, FALSE)
    BY <1>2 DEF Terminated, NoText
  <2> QED BY <1>1, <2>1, TextIs DEF ButBlanks
<1>3. CASE ls = <<Blank>>
  <2>0. Len(<<Blank>>) = 1 /\ <<Blank>>[1] = Blank /\ <<Blank>> # <<>>
    OBVIOUS
  <2>1. Terminated(ls) = Text(<<>>, TRUE)
    BY <1>3, <2>0 DEF Terminated, Newline
  <2>2. m = 1 /\ lines[1] = Blank
    <3>1. Len(ls) = 1 /\ ls[1] = Blank
      BY <1>3, <2>0
    <3> QED BY <1>1, <3>1
  <2>3. \A i \in (0 + 1)..Len(lines) : lines[i] = Blank
    BY <2>2
  <2> QED BY <1>1, <2>1, <2>3, TextIs DEF ButBlanks
<1>4. CASE ls # <<>> /\ ls # <<Blank>>
  <2>1. Terminated(ls) = Text(ls, TRUE)
    BY <1>4 DEF Terminated
  <2> QED BY <1>1, <2>1, TextIs DEF ButBlanks
<1> QED BY <1>2, <1>3, <1>4

(* What is read back after a write. *)
LEMMA JoinFacts ==
  ASSUME NEW f \in Files, NEW lines \in Seq(Lines(f)), NEW nl \in BOOLEAN
  PROVE  ButBlanks(f, Join(lines, nl), lines)
<1> DEFINE n == Len(lines)
<1>1. /\ n \in Nat /\ n \in 0..n /\ SubSeq(lines, 1, n) = lines
      /\ \A i \in (n + 1)..n : lines[i] = Blank
  OBVIOUS
<1>2. CASE lines = <<>>
  <2>1. Join(lines, nl) = Text(lines, FALSE)
    BY <1>2 DEF Join, NoText
  <2> QED BY <1>1, <2>1, TextIs DEF ButBlanks
<1>3. CASE lines # <<>> /\ nl
  <2>1. Join(lines, nl) = Terminated(lines)
    BY <1>3 DEF Join
  <2> QED BY <1>1, <2>1, TerminatedFacts
<1>4. CASE lines # <<>> /\ ~nl /\ Last(lines) = Blank
  <2>1. Join(lines, nl) = Terminated(Front(lines))
    BY <1>4 DEF Join
  <2>2. Front(lines) = SubSeq(lines, 1, n - 1) /\ n # 0 /\ lines[n] = Blank
    BY <1>4 DEF Front, Last
  <2>3. n - 1 \in 0..n /\ \A i \in ((n - 1) + 1)..n : lines[i] = Blank
    BY <1>1, <2>2
  <2> QED BY <2>1, <2>2, <2>3, TerminatedFacts
<1>5. CASE lines # <<>> /\ ~nl /\ Last(lines) # Blank
  <2>1. Join(lines, nl) = Text(lines, FALSE)
    BY <1>5 DEF Join
  <2> QED BY <1>1, <2>1, TextIs DEF ButBlanks
<1> QED BY <1>2, <1>3, <1>4, <1>5

(* Line k is an entry of the block that line i starts. *)
Owns(lines, i, k) ==
  /\ k \in (i + 1)..Len(lines) /\ lines[k].kind = "entry"
  /\ \A l \in (i + 1)..k : InnerLine(lines[l])

LEMMA BlockEntries ==
  ASSUME NEW lines \in Seq(Lines("cidr")), NEW i \in 1..Len(lines), IsGroup(lines[i])
  PROVE  /\ RulesOf("cidr", lines, i) \in Seq(Values)
         /\ \E e : /\ e \in [1..Len(RulesOf("cidr", lines, i)) -> 1..Len(lines)]
                   /\ \A j, k \in 1..Len(RulesOf("cidr", lines, i)) : j < k => e[j] < e[k]
                   /\ \A k \in 1..Len(lines) : Owns(lines, i, k)
                        <=> \E j \in 1..Len(RulesOf("cidr", lines, i)) : e[j] = k
                   /\ \A k \in 1..Len(RulesOf("cidr", lines, i)) :
                        RulesOf("cidr", lines, i)[k] = lines[e[k]].rule
<1> DEFINE P == {j \in i..BlockEnd(lines, i) : lines[j].kind = "entry"}
           R == RulesOf("cidr", lines, i)
<1>0. "cidr" \in Files
  BY DEF Files
<1>1. PICK e : /\ Picks(e, Len(R), Len(lines), P)
               /\ \A k \in 1..Len(R) : R[k] = lines[e[k]].rule
  BY <1>0, RulesOfType
<1>2. ASSUME NEW k \in 1..Len(lines) PROVE Owns(lines, i, k) <=> k \in P
  <2>1. lines[i].kind # "entry"
    BY DEF IsGroup
  <2>2. k \in i..BlockEnd(lines, i) <=>
              k \in i..Len(lines) /\ \A l \in (i + 1)..k : InnerLine(lines[l])
    BY InBlock
  <2>3. k \in P <=> k \in i..Len(lines) /\ (\A l \in (i + 1)..k : InnerLine(lines[l])) /\ lines[k].kind = "entry"
    BY <2>2
  <2>4. k \in i..Len(lines) /\ lines[k].kind = "entry" => k \in (i + 1)..Len(lines)
    BY <2>1
  <2>5. k \in (i + 1)..Len(lines) => k \in i..Len(lines)
    OBVIOUS
  <2> HIDE DEF P
  <2> QED BY <2>3, <2>4, <2>5 DEF Owns
<1> HIDE DEF P, R
<1>3. /\ e \in [1..Len(R) -> 1..Len(lines)]
      /\ \A j, k \in 1..Len(R) : j < k => e[j] < e[k]
      /\ \A k \in 1..Len(lines) : Owns(lines, i, k) <=> \E j \in 1..Len(R) : e[j] = k
  BY <1>1, <1>2 DEF Picks
<1>4. R \in Seq(Values)
  BY <1>0, RulesOfType DEF R
<1> QED BY <1>1, <1>3, <1>4 DEF R

(* Blocks have no line in common. *)
LEMMA OneOwner ==
  ASSUME NEW lines \in Seq(Lines("cidr")), NEW i \in 1..Len(lines), NEW j \in 1..Len(lines),
         IsGroup(lines[i]), IsGroup(lines[j]), NEW k \in Nat, Owns(lines, i, k), Owns(lines, j, k)
  PROVE  i = j
<1>1. ASSUME NEW a \in 1..Len(lines), NEW b \in 1..Len(lines), IsGroup(lines[b]), Owns(lines, a, k),
             Owns(lines, b, k), a < b
      PROVE  FALSE
  <2>1. b \in (a + 1)..k
    BY <1>1 DEF Owns
  <2>2. InnerLine(lines[b])
    BY <1>1, <2>1 DEF Owns
  <2> QED BY <1>1, <2>2 DEF InnerLine, IsGroup
<1>2. ~(i < j) /\ ~(j < i)
  BY <1>1
<1> QED BY <1>2

CidrClashFree(lines) ==
  \A i, j, k, l \in 1..Len(lines) :
    /\ lines[i].kind = "/" /\ lines[j].kind = "/" /\ lines[i].target = lines[j].target
    /\ Owns(lines, i, k) /\ Owns(lines, j, l) /\ Same(lines[k].rule, lines[l].rule)
    => k = l

DomainClashFree(lines) ==
  \A i, j \in 1..Len(lines) :
    lines[i].kind = "rules" /\ lines[j].kind = "rules" /\ lines[i].target = lines[j].target =>
      \A k \in 1..Len(lines[i].rules), l \in 1..Len(lines[j].rules) :
        Same(lines[i].rules[k], lines[j].rules[l]) => i = j /\ k = l

LEMMA DomainClash ==
  ASSUME NEW lines \in Seq(Lines("domain"))
  PROVE  NoClash("domain", lines) <=> DomainClashFree(lines)
<1>0. "domain" \in Files
  BY DEF Files
<1>1. \A i \in 1..Len(lines) : lines[i] \in Lines("domain")
  OBVIOUS
<1>2. ASSUME NEW i \in 1..Len(lines)
      PROVE  /\ lines[i].kind = "rules" => RulesOf("domain", lines, i) = lines[i].rules
             /\ lines[i].kind # "rules" => RulesOf("domain", lines, i) = <<>>
             /\ lines[i].kind # "/"
  BY <1>0, <1>1, LineKinds DEF RulesOf
<1>3. ASSUME NEW i \in 1..Len(lines), NEW k \in Nat
      PROVE  <<i, k>> \in Slots("domain", lines) <=> lines[i].kind = "rules" /\ k \in 1..Len(lines[i].rules)
  <2>1. <<i, k>> \in Slots("domain", lines) <=> IsGroup(lines[i]) /\ k \in 1..Len(RulesOf("domain", lines, i))
    BY DEF Slots
  <2>2. CASE lines[i].kind = "rules"
    BY <1>2, <2>1, <2>2 DEF IsGroup
  <2>3. CASE lines[i].kind # "rules"
    BY <1>2, <2>1, <2>3
  <2> QED BY <2>2, <2>3
<1>4. \A s \in Slots("domain", lines) : s[1] \in 1..Len(lines) /\ s[2] \in Nat /\ s = <<s[1], s[2]>>
  BY DEF Slots
<1>5. ASSUME NoClash("domain", lines), NEW i \in 1..Len(lines), NEW j \in 1..Len(lines),
             lines[i].kind = "rules", lines[j].kind = "rules", lines[i].target = lines[j].target,
             NEW k \in 1..Len(lines[i].rules), NEW l \in 1..Len(lines[j].rules),
             Same(lines[i].rules[k], lines[j].rules[l])
      PROVE  i = j /\ k = l
  <2>1. k \in Nat /\ l \in Nat
    OBVIOUS
  <2>2. <<i, k>> \in Slots("domain", lines) /\ <<j, l>> \in Slots("domain", lines)
    BY <1>3, <1>5, <2>1
  <2>3. <<i, k>> = <<j, l>>
    <3>1. Same(RulesOf("domain", lines, i)[k], RulesOf("domain", lines, j)[l])
      BY <1>2, <1>5
    <3> QED BY <1>5, <2>2, <3>1 DEF NoClash
  <2> QED BY <2>3
<1>6. ASSUME DomainClashFree(lines), NEW s \in Slots("domain", lines), NEW t \in Slots("domain", lines),
             lines[s[1]].target = lines[t[1]].target,
             Same(RulesOf("domain", lines, s[1])[s[2]], RulesOf("domain", lines, t[1])[t[2]])
      PROVE  s = t
  <2>1. /\ lines[s[1]].kind = "rules" /\ s[2] \in 1..Len(lines[s[1]].rules)
        /\ lines[t[1]].kind = "rules" /\ t[2] \in 1..Len(lines[t[1]].rules)
    BY <1>3, <1>4
  <2>2. Same(lines[s[1]].rules[s[2]], lines[t[1]].rules[t[2]])
    BY <1>2, <1>4, <1>6, <2>1
  <2>3. s[1] = t[1] /\ s[2] = t[2]
    BY <1>4, <1>6, <2>1, <2>2, SMTT(20) DEF DomainClashFree
  <2> QED BY <1>4, <2>3
<1> QED BY <1>5, <1>6 DEF NoClash, DomainClashFree

LEMMA CidrClash ==
  ASSUME NEW lines \in Seq(Lines("cidr"))
  PROVE  NoClash("cidr", lines) <=> CidrClashFree(lines)
<1>0. "cidr" \in Files
  BY DEF Files
<1>1. ASSUME NEW i \in 1..Len(lines), IsGroup(lines[i])
      PROVE  lines[i].kind = "/" <=> lines[i].kind # "#/"
  <2>1. lines[i] \in Lines("cidr")
    OBVIOUS
  <2> QED BY <1>0, <1>1, <2>1, LineKinds DEF IsGroup
<1>2. \A s \in Slots("cidr", lines) : /\ s[1] \in 1..Len(lines) /\ s[2] \in Nat /\ s = <<s[1], s[2]>>
                                      /\ IsGroup(lines[s[1]]) /\ s[2] \in 1..Len(RulesOf("cidr", lines, s[1]))
  BY DEF Slots
<1> DEFINE R(i) == RulesOf("cidr", lines, i)
           Listing(e, i) ==
             /\ e \in [1..Len(R(i)) -> 1..Len(lines)]
             /\ \A m, q \in 1..Len(R(i)) : m < q => e[m] < e[q]
             /\ \A m \in 1..Len(lines) : Owns(lines, i, m) <=> \E q \in 1..Len(R(i)) : e[q] = m
             /\ \A m \in 1..Len(R(i)) : R(i)[m] = lines[e[m]].rule
<1> HIDE DEF Listing
<1>3. ASSUME NEW i \in 1..Len(lines), IsGroup(lines[i]) PROVE \E e : Listing(e, i)
  BY <1>3, BlockEntries DEF Listing
<1> DEFINE list(i) == CHOOSE e : Listing(e, i)
<1>4. ASSUME NEW i \in 1..Len(lines), IsGroup(lines[i])
      PROVE  /\ list(i) \in [1..Len(R(i)) -> 1..Len(lines)] /\ Len(R(i)) \in Nat
             /\ \A m, q \in 1..Len(R(i)) : m < q => list(i)[m] < list(i)[q]
             /\ \A m \in 1..Len(lines) : Owns(lines, i, m) <=> \E q \in 1..Len(R(i)) : list(i)[q] = m
             /\ \A m \in 1..Len(R(i)) : R(i)[m] = lines[list(i)[m]].rule
  <2>1. Listing(list(i), i)
    BY <1>3, <1>4
  <2>2. R(i) \in Seq(Values)
    BY <1>4, BlockEntries
  <2> HIDE DEF list, R
  <2>3. Len(R(i)) \in Nat
    BY <2>2
  <2> QED BY <2>1, <2>3 DEF Listing
<1> HIDE DEF list
<1>5. ASSUME NoClash("cidr", lines), NEW i \in 1..Len(lines), NEW j \in 1..Len(lines),
             NEW k \in 1..Len(lines), NEW l \in 1..Len(lines),
             lines[i].kind = "/", lines[j].kind = "/", lines[i].target = lines[j].target,
             Owns(lines, i, k), Owns(lines, j, l), Same(lines[k].rule, lines[l].rule)
      PROVE  k = l
  <2>1. IsGroup(lines[i]) /\ IsGroup(lines[j])
    BY <1>5 DEF IsGroup
  <2>2. PICK a \in 1..Len(R(i)) : list(i)[a] = k
    BY <1>4, <1>5, <2>1
  <2>3. PICK b \in 1..Len(R(j)) : list(j)[b] = l
    BY <1>4, <1>5, <2>1
  <2>4. <<i, a>> \in Slots("cidr", lines) /\ <<j, b>> \in Slots("cidr", lines)
    BY <2>1 DEF Slots
  <2>5. R(i)[a] = lines[k].rule /\ R(j)[b] = lines[l].rule
    BY <1>4, <2>1, <2>2, <2>3
  <2>6. <<i, a>> = <<j, b>>
    BY <1>5, <2>4, <2>5 DEF NoClash
  <2>7. i = j /\ a = b
    BY <2>6
  <2> QED BY <2>2, <2>3, <2>7
<1>6. ASSUME CidrClashFree(lines), NEW s \in Slots("cidr", lines), NEW t \in Slots("cidr", lines),
             lines[s[1]].kind # "#/", lines[t[1]].kind # "#/", lines[s[1]].target = lines[t[1]].target,
             Same(R(s[1])[s[2]], R(t[1])[t[2]])
      PROVE  s = t
  <2> DEFINE i == s[1]
             j == t[1]
             k == list(i)[s[2]]
             l == list(j)[t[2]]
  <2>1. /\ i \in 1..Len(lines) /\ j \in 1..Len(lines) /\ IsGroup(lines[i]) /\ IsGroup(lines[j])
        /\ s[2] \in 1..Len(R(i)) /\ t[2] \in 1..Len(R(j))
    BY <1>2
  <2>2. lines[i].kind = "/" /\ lines[j].kind = "/"
    BY <1>1, <1>6, <2>1
  <2> HIDE DEF R
  <2>3. /\ k \in 1..Len(lines) /\ l \in 1..Len(lines)
        /\ R(i)[s[2]] = lines[k].rule /\ R(j)[t[2]] = lines[l].rule
    BY <1>4, <2>1
  <2>4. Owns(lines, i, k) /\ Owns(lines, j, l)
    BY <1>4, <2>1, <2>3
  <2>5. Same(lines[k].rule, lines[l].rule)
    BY <1>6, <2>3
  <2> HIDE DEF k, l
  <2>6. k = l
    BY <1>6, <2>1, <2>2, <2>3, <2>4, <2>5 DEF CidrClashFree
  <2>7. i = j
    <3>1. k \in Nat /\ Owns(lines, j, k)
      BY <2>3, <2>4, <2>6
    <3> HIDE DEF i, j
    <3> QED BY <2>1, <2>4, <3>1, OneOwner
  <2>8. s[2] = t[2]
    <3>1. list(i)[s[2]] = list(i)[t[2]]
      BY <2>6, <2>7 DEF k, l
    <3>2. /\ list(i) \in [1..Len(R(i)) -> 1..Len(lines)] /\ Len(R(i)) \in Nat
          /\ \A m, q \in 1..Len(R(i)) : m < q => list(i)[m] < list(i)[q]
      BY <1>4, <2>1
    <3>3. s[2] \in 1..Len(R(i)) /\ t[2] \in 1..Len(R(i))
      BY <2>1, <2>7
    <3> HIDE DEF i, j
    <3>4. ~(s[2] < t[2]) /\ ~(t[2] < s[2])
      BY <3>1, <3>2, <3>3
    <3> QED BY <3>3, <3>4
  <2> QED BY <1>2, <2>7, <2>8
<1> QED BY <1>5, <1>6 DEF NoClash, CidrClashFree, R

-----------------------------------------------------------------------------
(* Patches of domain.conf: texts with fewer rules, and with one more.       *)

(* Rule k of line i of domain.conf. *)
Place(lines, i, k) == i \in 1..Len(lines) /\ lines[i].kind = "rules" /\ k \in 1..Len(lines[i].rules)

LEMMA DomainPlaces ==
  ASSUME NEW lines
  PROVE  DomainClashFree(lines) <=>
           \A i, j, k, l : /\ Place(lines, i, k) /\ Place(lines, j, l) /\ lines[i].target = lines[j].target
                           /\ Same(lines[i].rules[k], lines[j].rules[l])
                           => i = j /\ k = l
BY DEF DomainClashFree, Place

(* What is left of some lines has no clash if they had none. *)
LEMMA DomainFewerLines ==
  ASSUME NEW S, NEW lines, DomainClashFree(lines), NEW new, NEW e,
         \A i \in 1..Len(new) : e[i] \in 1..Len(lines) /\ new[i] = lines[e[i]],
         \A i, j \in 1..Len(new) : e[i] = e[j] => i = j
  PROVE  DomainClashFree(new)
<1> SUFFICES ASSUME NEW i, NEW j, NEW k, NEW l, Place(new, i, k), Place(new, j, l),
                    new[i].target = new[j].target, Same(new[i].rules[k], new[j].rules[l])
             PROVE  i = j /\ k = l
  BY DomainPlaces
<1>1. i \in 1..Len(new) /\ j \in 1..Len(new) /\ new[i] = lines[e[i]] /\ new[j] = lines[e[j]]
  BY DEF Place
<1>2. Place(lines, e[i], k) /\ Place(lines, e[j], l)
  BY <1>1 DEF Place
<1>3. e[i] = e[j] /\ k = l
  BY <1>1, <1>2, DomainPlaces
<1> QED BY <1>1, <1>3

(* So has what is left when lines lose rules. *)
LEMMA DomainFewerRules ==
  ASSUME NEW lines, DomainClashFree(lines), NEW new, NEW e,
         \A i, k : Place(new, i, k) =>
           /\ Place(lines, i, e[i][k]) /\ new[i].target = lines[i].target
           /\ new[i].rules[k] = lines[i].rules[e[i][k]],
         \A i, k, l : Place(new, i, k) /\ Place(new, i, l) /\ e[i][k] = e[i][l] => k = l
  PROVE  DomainClashFree(new)
<1> SUFFICES ASSUME NEW i, NEW j, NEW k, NEW l, Place(new, i, k), Place(new, j, l),
                    new[i].target = new[j].target, Same(new[i].rules[k], new[j].rules[l])
             PROVE  i = j /\ k = l
  BY DomainPlaces
<1>1. /\ Place(lines, i, e[i][k]) /\ new[i].target = lines[i].target
      /\ new[i].rules[k] = lines[i].rules[e[i][k]]
      /\ Place(lines, j, e[j][l]) /\ new[j].target = lines[j].target
      /\ new[j].rules[l] = lines[j].rules[e[j][l]]
  OBVIOUS
<1> DEFINE x == e[i][k]
           y == e[j][l]
<1>0. \A ii, jj, kk, ll : /\ Place(lines, ii, kk) /\ Place(lines, jj, ll) /\ lines[ii].target = lines[jj].target
                           /\ Same(lines[ii].rules[kk], lines[jj].rules[ll])
                           => ii = jj /\ kk = ll
  BY DomainPlaces
<1>2. i = j /\ x = y
  <2>1. /\ Place(lines, i, x) /\ Place(lines, j, y) /\ lines[i].target = lines[j].target
        /\ Same(lines[i].rules[x], lines[j].rules[y])
    BY <1>1
  <2> HIDE DEF x, y
  <2> QED BY <1>0, <2>1
<1> QED BY <1>2

(* One rule more, which its target did not have. *)
Old(lines, new, i, k) ==
  Place(lines, i, k) /\ new[i].target = lines[i].target /\ new[i].rules[k] = lines[i].rules[k]
Added1(new, t, r, i, k) == new[i].target = t /\ Same(new[i].rules[k], r)
DomainMore(lines, new, t, r) ==
  \E a, b : \A i, k : Place(new, i, k) => (i = a /\ k = b /\ Added1(new, t, r, i, k)) \/ Old(lines, new, i, k)
DomainLacks(lines, t, r) ==
  \A i, k : Place(lines, i, k) /\ lines[i].target = t => ~Same(lines[i].rules[k], r)

LEMMA DomainOneMore ==
  ASSUME NEW lines, DomainClashFree(lines), NEW new, NEW t, NEW r, DomainMore(lines, new, t, r),
         DomainLacks(lines, t, r)
  PROVE  DomainClashFree(new)
<1>a. PICK a, b : \A i, k : Place(new, i, k) =>
                    (i = a /\ k = b /\ Added1(new, t, r, i, k)) \/ Old(lines, new, i, k)
  BY DEF DomainMore
<1>b. \A i, k : Place(lines, i, k) /\ lines[i].target = t => ~Same(lines[i].rules[k], r)
  BY DEF DomainLacks
<1> SUFFICES ASSUME NEW i, NEW j, NEW k, NEW l, Place(new, i, k), Place(new, j, l),
                    new[i].target = new[j].target, Same(new[i].rules[k], new[j].rules[l])
             PROVE  i = j /\ k = l
  BY DomainPlaces
<1> DEFINE old(m, q) == Place(lines, m, q) /\ new[m].target = lines[m].target /\ new[m].rules[q] = lines[m].rules[q]
           added(m, q) == m = a /\ q = b /\ new[m].target = t /\ Same(new[m].rules[q], r)
<1>1. (added(i, k) \/ old(i, k)) /\ (added(j, l) \/ old(j, l))
  BY <1>a DEF Old, Added1
<1>0. \A ii, jj, kk, ll : /\ Place(lines, ii, kk) /\ Place(lines, jj, ll) /\ lines[ii].target = lines[jj].target
                           /\ Same(lines[ii].rules[kk], lines[jj].rules[ll])
                           => ii = jj /\ kk = ll
  BY DomainPlaces
<1>2. CASE old(i, k) /\ old(j, l)
  <2>1. /\ Place(lines, i, k) /\ Place(lines, j, l) /\ lines[i].target = lines[j].target
        /\ Same(lines[i].rules[k], lines[j].rules[l])
    BY <1>2
  <2> QED BY <1>0, <2>1
<1>3. CASE added(i, k) /\ added(j, l)
  BY <1>3
<1>4. CASE added(i, k) /\ old(j, l)
  <2>1. Same(lines[j].rules[l], r)
    BY <1>4 DEF Same
  <2>2. Place(lines, j, l) /\ lines[j].target = t
    BY <1>4
  <2> QED BY <1>b, <2>1, <2>2
<1>5. CASE old(i, k) /\ added(j, l)
  <2>1. Same(lines[i].rules[k], r)
    BY <1>5 DEF Same
  <2>2. Place(lines, i, k) /\ lines[i].target = t
    BY <1>5
  <2> QED BY <1>b, <2>1, <2>2
<1> QED BY <1>1, <1>2, <1>3, <1>4, <1>5

(* What a refused duplicate and a rule in scope leave for an added rule. *)
LEMMA FreshDomain ==
  ASSUME NEW lines \in Seq(Lines("domain")), NEW p \in Patches, ~Duplicate("domain", lines, p),
         ~\E i \in Scope(lines, p) : Holds("domain", lines, i, p.rule)
  PROVE  DomainLacks(lines, p.target, p.rule)
<1> SUFFICES ASSUME NEW i, NEW k, Place(lines, i, k), lines[i].target = p.target, Same(lines[i].rules[k], p.rule)
             PROVE  FALSE
  BY DEF DomainLacks
<1>1. /\ i \in 1..Len(lines) /\ lines[i].kind = "rules" /\ i \in DOMAIN lines
      /\ k \in 1..Len(lines[i].rules)
  BY DEF Place
<1>2. i \in Active(lines, p.target)
  BY <1>1 DEF Active
<1>3. RulesOf("domain", lines, i) = lines[i].rules /\ lines[i].rules \in Seq(Values)
  BY <1>1, LineKinds DEF RulesOf, Files
<1>4. Holds("domain", lines, i, p.rule)
  <2>1. lines[i].rules[k] \in ToSet(lines[i].rules)
    BY <1>1, <1>3 DEF ToSet
  <2> QED BY <1>3, <2>1 DEF Holds, Same
<1> QED BY <1>2, <1>4 DEF Duplicate

LEMMA PatchFacts ==
  ASSUME NEW p \in Patches
  PROVE  /\ p.target \in Targets /\ p.rule \in Values /\ p.comment \in Comments \cup {NoComment}
         /\ p.op \in {"add", "delete"}
BY DEF Patches

LEMMA ScopeFacts ==
  ASSUME NEW f \in Files, NEW lines \in Seq(Lines(f)), NEW p \in Patches
  PROVE  /\ Scope(lines, p) \subseteq Active(lines, p.target)
         /\ Active(lines, p.target) \subseteq 1..Len(lines)
         /\ \A i \in Active(lines, p.target) :
              /\ IsGroup(lines[i]) /\ lines[i].target = p.target
              /\ lines[i].kind = (IF f = "cidr" THEN "/" ELSE "rules")
<1>1. Scope(lines, p) \subseteq Active(lines, p.target) /\ Active(lines, p.target) \subseteq 1..Len(lines)
  BY DEF Scope, Active
<1>2. ASSUME NEW i \in Active(lines, p.target)
      PROVE  /\ IsGroup(lines[i]) /\ lines[i].target = p.target
             /\ lines[i].kind = (IF f = "cidr" THEN "/" ELSE "rules")
  <2>1. lines[i] \in Lines(f) /\ lines[i].kind \in {"rules", "/"} /\ lines[i].target = p.target
    BY DEF Active
  <2> QED BY <2>1, LineKinds DEF IsGroup, Files
<1> QED BY <1>1, <1>2

(* The lines of a new group. *)
LEMMA NewLinesFacts ==
  ASSUME NEW f \in Files, NEW p \in Patches
  PROVE  /\ NewLines(f, p) \in Seq(Lines(f)) /\ CommentLines(p) \in Seq(Lines(f))
         /\ NewLines(f, p) = CommentLines(p) \o
              IF f = "cidr" THEN <<Header(p.target), Entry(Token(f, p.rule))>>
              ELSE <<RulesLine(<<Token(f, p.rule)>>, p.target)>>
         /\ Len(CommentLines(p)) \in {0, 1}
         /\ \A i \in 1..Len(CommentLines(p)) : IsComment(CommentLines(p)[i])
         /\ Token(f, p.rule) \in Values /\ Same(Token(f, p.rule), p.rule)
<1>1. Token(f, p.rule) \in Values /\ Same(Token(f, p.rule), p.rule)
  BY PatchFacts, LowerFacts DEF Token, Same
<1>2. /\ CommentLines(p) \in Seq(Lines(f)) /\ Len(CommentLines(p)) \in {0, 1}
      /\ \A i \in 1..Len(CommentLines(p)) : IsComment(CommentLines(p)[i])
  <2>1. CASE p.comment = NoComment
    BY <2>1 DEF CommentLines
  <2>2. CASE p.comment # NoComment
    <3>1. p.comment \in Comments
      BY <2>2, PatchFacts
    <3>2. Comment(p.comment) \in Lines(f) /\ IsComment(Comment(p.comment))
      BY <3>1, LinesOf DEF IsComment, Comment
    <3>3. CommentLines(p) = <<Comment(p.comment)>>
      BY <2>2 DEF CommentLines
    <3> HIDE DEF Comment
    <3> QED BY <3>2, <3>3
  <2> QED BY <2>1, <2>2
<1> DEFINE rest == IF f = "cidr" THEN <<Header(p.target), Entry(Token(f, p.rule))>>
                   ELSE <<RulesLine(<<Token(f, p.rule)>>, p.target)>>
<1>3. rest \in Seq(Lines(f))
  <2>1. CASE f = "cidr"
    <3>1. Header(p.target) \in Lines(f) /\ Entry(Token(f, p.rule)) \in Lines(f)
      BY <1>1, <2>1, PatchFacts, LinesOf
    <3> QED BY <2>1, <3>1
  <2>2. CASE f # "cidr"
    <3>1. <<Token(f, p.rule)>> \in Seq(Values) /\ f = "domain"
      BY <1>1, <2>2 DEF Files
    <3>2. RulesLine(<<Token(f, p.rule)>>, p.target) \in Lines(f)
      BY <3>1, PatchFacts, LinesOf
    <3> QED BY <2>2, <3>2
  <2> QED BY <2>1, <2>2
<1>4. NewLines(f, p) = CommentLines(p) \o rest
  BY DEF NewLines
<1> HIDE DEF rest
<1>5. NewLines(f, p) \in Seq(Lines(f))
  BY <1>2, <1>3, <1>4, ConcatFacts
<1> QED BY <1>1, <1>2, <1>4, <1>5 DEF rest

-----------------------------------------------------------------------------
(* Adding to and deleting from domain.conf.                                 *)

LEMMA DomainExtended ==
  ASSUME NEW lines \in Seq(Lines("domain")), NEW p \in Patches
  PROVE  /\ Extended("domain", lines, p) \in Seq(Lines("domain"))
         /\ DomainMore(lines, Extended("domain", lines, p), p.target, p.rule)
<1> DEFINE new == Extended("domain", lines, p)
           t == p.target
           v == Token("domain", p.rule)
           scope == Scope(lines, p)
           n == Len(lines)
           old(i, k) == Old(lines, new, i, k)
           fresh(i, k) == Added1(new, p.target, p.rule, i, k)
<1>0. /\ "domain" \in Files /\ "domain" # "cidr" /\ n \in Nat
      /\ \A i \in 1..n : lines[i] \in Lines("domain")
  BY DEF Files
<1>1. /\ v \in Values /\ Same(v, p.rule) /\ t \in Targets
      /\ scope \subseteq 1..n
      /\ \A i \in scope : lines[i].target = t /\ lines[i].kind = "rules"
  <2>1. v \in Values /\ Same(v, p.rule) /\ t \in Targets
    BY <1>0, NewLinesFacts, PatchFacts
  <2>2. scope \subseteq Active(lines, t) /\ Active(lines, t) \subseteq 1..n
    BY <1>0, ScopeFacts
  <2>3. \A i \in Active(lines, t) : lines[i].target = t /\ lines[i].kind = "rules"
    BY <1>0, ScopeFacts
  <2> HIDE DEF scope, t
  <2> QED BY <2>1, <2>2, <2>3
<1>2. CASE scope = {}
  <2> DEFINE c == CommentLines(p)
             l == RulesLine(<<v>>, t)
             s == NewLines("domain", p)
  <2>1. /\ s = c \o <<l>> /\ c \in Seq(Lines("domain")) /\ s \in Seq(Lines("domain"))
        /\ \A i \in 1..Len(c) : IsComment(c[i])
    BY <1>0, NewLinesFacts
  <2>2. new = lines \o s
    BY <1>2 DEF Extended
  <2>3. l \in Lines("domain") /\ l.kind = "rules" /\ l.rules = <<v>> /\ l.target = t
    <3>1. <<v>> \in Seq(Values)
      BY <1>1
    <3>2. l \in Lines("domain")
      BY <1>0, <1>1, <3>1, LinesOf
    <3> QED BY <3>2 DEF RulesLine
  <2> HIDE DEF l, c, s, new
  <2>4. <<l>> \in Seq(Lines("domain")) /\ Len(<<l>>) = 1 /\ <<l>>[1] = l
    BY <2>3
  <2>5. /\ Len(s) = Len(c) + 1 /\ Len(c) \in Nat
        /\ \A i \in 1..Len(c) : s[i] = c[i]
        /\ s[Len(c) + 1] = l
    BY <2>1, <2>4, ConcatFacts
  <2>6. /\ new \in Seq(Lines("domain")) /\ Len(new) = n + Len(s)
        /\ \A i \in 1..n : new[i] = lines[i]
        /\ \A i \in 1..Len(s) : new[n + i] = s[i]
    BY <2>1, <2>2, ConcatFacts
  <2> DEFINE a == n + (Len(c) + 1)
  <2>7. ASSUME NEW i, NEW k, Place(new, i, k) PROVE (i = a /\ k = 1 /\ fresh(i, k)) \/ old(i, k)
    <3>1. i \in 1..(n + (Len(c) + 1)) /\ new[i].kind = "rules" /\ k \in 1..Len(new[i].rules)
      BY <2>5, <2>6, <2>7 DEF Place
    <3>2. CASE i \in 1..n
      BY <2>6, <3>1, <3>2 DEF Place, Old
    <3>3. CASE i \notin 1..n
      <4>1. (i - n) \in 1..Len(s) /\ n + (i - n) = i
        BY <1>0, <2>5, <3>1, <3>3
      <4>2. new[i] = s[i - n]
        BY <2>6, <4>1
      <4>3. i - n \notin 1..Len(c)
        BY <2>1, <2>5, <3>1, <4>2 DEF IsComment
      <4>4. i - n = Len(c) + 1
        BY <2>5, <4>1, <4>3
      <4>5. new[i] = l /\ i = a
        BY <1>0, <2>5, <4>1, <4>2, <4>4
      <4>6. k = 1
        <5>1. Len(<<v>>) = 1
          OBVIOUS
        <5>2. new[i].rules = <<v>>
          BY <2>3, <4>5
        <5>3. Len(new[i].rules) = 1
          BY <5>1, <5>2
        <5>4. k \in 1..1
          BY <3>1, <5>3
        <5> QED BY <5>4
      <4>7. fresh(i, k)
        BY <1>1, <2>3, <4>5, <4>6 DEF Added1
      <4> QED BY <4>5, <4>6, <4>7
    <3> QED BY <3>2, <3>3
  <2>8. DomainMore(lines, new, p.target, p.rule)
    BY <2>7 DEF DomainMore
  <2> QED BY <2>6, <2>8 DEF new
<1>3. CASE scope # {}
  <2> DEFINE j == Least(scope)
             l == RulesLine(Append(lines[j].rules, v), t)
             m == Len(lines[j].rules)
  <2>1. j \in scope
    <3>1. scope \subseteq Nat
      BY <1>0, <1>1
    <3> HIDE DEF scope
    <3> QED BY <1>3, <3>1, LeastIn
  <2>2. new = [lines EXCEPT ![j] = l]
    <3>1. new = [lines EXCEPT ![j] = RulesLine(Append(@.rules, v), t)]
      BY <1>0, <1>3 DEF Extended
    <3> QED BY <3>1
  <2> HIDE DEF j, scope
  <2>3. j \in 1..n /\ lines[j].target = t /\ lines[j].kind = "rules" /\ lines[j].rules \in Seq(Values)
    <3>1. j \in 1..n /\ lines[j].target = t /\ lines[j].kind = "rules"
      BY <1>1, <2>1
    <3> QED BY <1>0, <3>1, LineKinds
  <2>4. /\ Append(lines[j].rules, v) \in Seq(Values) /\ m \in Nat
        /\ Len(Append(lines[j].rules, v)) = m + 1 /\ Append(lines[j].rules, v)[m + 1] = v
        /\ \A k \in 1..m : Append(lines[j].rules, v)[k] = lines[j].rules[k]
    BY <1>1, <2>3, AppendFacts
  <2>5. /\ l \in Lines("domain") /\ l.kind = "rules" /\ l.target = t
        /\ l.rules = Append(lines[j].rules, v)
    <3>1. l \in Lines("domain")
      BY <1>0, <1>1, <2>4, LinesOf
    <3> QED BY <3>1 DEF RulesLine
  <2> HIDE DEF l, m, new
  <2>6. /\ new \in Seq(Lines("domain")) /\ Len(new) = n /\ new[j] = l
        /\ \A i \in 1..n : i # j => new[i] = lines[i]
    BY <2>2, <2>3, <2>5
  <2>7. ASSUME NEW i, NEW k, Place(new, i, k) PROVE (i = j /\ k = m + 1 /\ fresh(i, k)) \/ old(i, k)
    <3>1. i \in 1..n /\ new[i].kind = "rules" /\ k \in 1..Len(new[i].rules)
      BY <2>6, <2>7 DEF Place
    <3>2. CASE i # j
      <4>1. new[i] = lines[i]
        BY <2>6, <3>1, <3>2
      <4> QED BY <3>1, <4>1 DEF Place, Old
    <3>3. CASE i = j /\ k # m + 1
      <4>1. new[i] = l /\ k \in 1..m
        BY <2>4, <2>5, <2>6, <3>1, <3>3
      <4>2. Place(lines, i, k)
        BY <2>3, <3>3, <4>1 DEF Place, m
      <4>3. new[i].target = lines[i].target /\ new[i].rules[k] = lines[i].rules[k]
        BY <2>3, <2>4, <2>5, <3>3, <4>1
      <4> QED BY <4>2, <4>3 DEF Old
    <3>4. CASE i = j /\ k = m + 1
      BY <1>1, <2>4, <2>5, <2>6, <3>4 DEF Added1
    <3> QED BY <3>2, <3>3, <3>4
  <2>8. DomainMore(lines, new, p.target, p.rule)
    BY <2>7 DEF DomainMore
  <2> QED BY <2>6, <2>8 DEF new
<1> QED BY <1>2, <1>3

LEMMA DomainAdded ==
  ASSUME NEW lines \in Seq(Lines("domain")), NEW p \in Patches
  PROVE  /\ Added("domain", lines, p) \in Seq(Lines("domain"))
         /\ DomainClashFree(lines) /\ ~Duplicate("domain", lines, p)
              => DomainClashFree(Added("domain", lines, p))
<1>1. CASE \E i \in Scope(lines, p) : Holds("domain", lines, i, p.rule)
  BY <1>1 DEF Added
<1>2. CASE ~\E i \in Scope(lines, p) : Holds("domain", lines, i, p.rule)
  <2> DEFINE new == Extended("domain", lines, p)
  <2>1. Added("domain", lines, p) = new
    BY <1>2 DEF Added
  <2>2. new \in Seq(Lines("domain"))
    BY DomainExtended
  <2>3. ASSUME DomainClashFree(lines), ~Duplicate("domain", lines, p) PROVE DomainClashFree(new)
    <3>1. DomainLacks(lines, p.target, p.rule)
      BY <1>2, <2>3, FreshDomain
    <3>2. DomainMore(lines, new, p.target, p.rule)
      BY DomainExtended
    <3> HIDE DEF new
    <3> QED BY <2>3, <3>1, <3>2, DomainOneMore
  <2> HIDE DEF new
  <2> QED BY <2>1, <2>2, <2>3
<1> QED BY <1>1, <1>2

(* The places e of a text that are left. *)
Leaves(e, lines, gone) ==
  /\ Picks(e, Len(Without(lines, gone)), Len(lines), (1..Len(lines)) \ gone)
  /\ \A k \in 1..Len(Without(lines, gone)) : Without(lines, gone)[k] = lines[e[k]]

LEMMA WithoutFacts ==
  ASSUME NEW S, NEW lines \in Seq(S), NEW gone
  PROVE  Without(lines, gone) \in Seq(S) /\ \E e : Leaves(e, lines, gone)
<1> DEFINE P == (1..Len(lines)) \ gone
           w == Without(lines, gone)
<1>1. w = Those(lines, P)
  <2>1. DOMAIN lines = 1..Len(lines)
    OBVIOUS
  <2> QED BY <2>1 DEF Without
<1>2. w \in Seq(S) /\ \E e : Picks(e, Len(w), Len(lines), P) /\ \A k \in 1..Len(w) : w[k] = lines[e[k]]
  <2> HIDE DEF P, w
  <2> QED BY <1>1, ThoseFacts
<1> QED BY <1>2 DEF Leaves

LEMMA PicksOnce ==
  ASSUME NEW e, NEW m \in Nat, NEW n \in Nat, NEW P, Picks(e, m, n, P)
  PROVE  /\ \A i \in 1..m : e[i] \in 1..n
         /\ \A i, j \in 1..m : e[i] = e[j] => i = j
         /\ \A i, j \in 1..m : e[i] < e[j] => i < j
<1>1. \A i \in 1..m : e[i] \in 1..n
  BY DEF Picks
<1>2. ASSUME NEW i \in 1..m, NEW j \in 1..m, ~(i < j) PROVE i = j \/ e[j] < e[i]
  BY <1>2 DEF Picks
<1>3. ASSUME NEW i \in 1..m, NEW j \in 1..m, e[i] = e[j] PROVE i = j
  <2>1. i = j \/ i < j \/ j < i
    OBVIOUS
  <2>2. i < j => e[i] < e[j]
    BY DEF Picks
  <2>3. j < i => e[j] < e[i]
    BY DEF Picks
  <2> QED BY <1>1, <1>3, <2>1, <2>2, <2>3
<1>4. ASSUME NEW i \in 1..m, NEW j \in 1..m, e[i] < e[j] PROVE i < j
  BY <1>1, <1>2, <1>4
<1> QED BY <1>1, <1>3, <1>4

LEMMA RulesLineIs ==
  ASSUME NEW vs, NEW t
  PROVE  RulesLine(vs, t).kind = "rules" /\ RulesLine(vs, t).rules = vs /\ RulesLine(vs, t).target = t
BY DEF RulesLine

LEMMA DomainDeleted ==
  ASSUME NEW lines \in Seq(Lines("domain")), NEW p \in Patches
  PROVE  /\ Deleted("domain", lines, p) \in Seq(Lines("domain"))
         /\ DomainClashFree(lines) => DomainClashFree(Deleted("domain", lines, p))
<1> DEFINE hit == {i \in Scope(lines, p) : Holds("domain", lines, i, p.rule)}
           other(v) == ~Same(v, p.rule)
           kept(i) == Select(lines[i].rules, other)
           edited == [i \in DOMAIN lines |-> IF i \in hit THEN RulesLine(kept(i), p.target) ELSE lines[i]]
           gone == UNION {Whole(lines, i) : i \in {j \in hit : kept(j) = <<>>}}
           n == Len(lines)
           Q(i) == {k \in DOMAIN lines[i].rules : other(lines[i].rules[k])}
           Keeps(i, d) == /\ Picks(d, Len(kept(i)), Len(lines[i].rules), Q(i))
                          /\ \A k \in 1..Len(kept(i)) : kept(i)[k] = lines[i].rules[d[k]]
           d == [i \in hit |-> CHOOSE x : Keeps(i, x)]
           e == [i \in 1..n |-> IF i \in hit THEN d[i] ELSE [k \in 1..Len(lines[i].rules) |-> k]]
<1>0. /\ "domain" \in Files /\ "domain" # "cidr" /\ n \in Nat /\ DOMAIN lines = 1..n
      /\ \A i \in 1..n : lines[i] \in Lines("domain")
  BY DEF Files
<1>1. Deleted("domain", lines, p) = Without(edited, gone)
  BY <1>0 DEF Deleted, DeletedDomain
<1>2. \A i \in hit : i \in 1..n /\ lines[i].kind = "rules" /\ lines[i].target = p.target
  BY <1>0, ScopeFacts
<1>3. ASSUME NEW i \in hit PROVE lines[i].rules \in Seq(Values) /\ kept(i) = Those(lines[i].rules, Q(i))
  <2>1. lines[i].rules \in Seq(Values)
    BY <1>0, <1>2, LineKinds
  <2>2. kept(i) = Those(lines[i].rules, Q(i))
    BY DEF Select
  <2> QED BY <2>1, <2>2
<1> HIDE DEF hit, kept, Q
<1>4. ASSUME NEW i \in hit PROVE kept(i) \in Seq(Values) /\ Keeps(i, d[i])
  <2>1. kept(i) \in Seq(Values) /\ \E x : Keeps(i, x)
    BY <1>3, ThoseFacts
  <2>2. d[i] = CHOOSE x : Keeps(i, x)
    OBVIOUS
  <2> HIDE DEF Keeps, d
  <2> QED BY <2>1, <2>2
<1> HIDE DEF d
<1>5. /\ edited \in Seq(Lines("domain")) /\ Len(edited) = n
      /\ \A i \in 1..n : /\ i \in hit => edited[i] = RulesLine(kept(i), p.target)
                         /\ i \notin hit => edited[i] = lines[i]
  <2>1. \A i \in hit : RulesLine(kept(i), p.target) \in Lines("domain")
    BY <1>0, <1>4, PatchFacts, LinesOf
  <2>2. edited \in [1..n -> Lines("domain")]
    BY <1>0, <2>1
  <2>3. \A i \in 1..n : /\ i \in hit => edited[i] = RulesLine(kept(i), p.target)
                        /\ i \notin hit => edited[i] = lines[i]
    BY <1>0
  <2> HIDE DEF edited
  <2> QED BY <1>0, <2>2, <2>3
<1> HIDE DEF edited, gone
<1>6. ASSUME NEW i, NEW k, Place(edited, i, k)
      PROVE  /\ Place(lines, i, e[i][k]) /\ edited[i].target = lines[i].target
             /\ edited[i].rules[k] = lines[i].rules[e[i][k]]
  <2>1. i \in 1..n /\ edited[i].kind = "rules" /\ k \in 1..Len(edited[i].rules)
    BY <1>5, <1>6 DEF Place
  <2>2. CASE i \in hit
    <3>1. edited[i].rules = kept(i) /\ edited[i].target = p.target
      BY <1>5, <2>1, <2>2, RulesLineIs
    <3>2. e[i] = d[i]
      BY <2>1, <2>2
    <3>3. d[i][k] \in 1..Len(lines[i].rules) /\ kept(i)[k] = lines[i].rules[d[i][k]]
      BY <1>4, <2>1, <2>2, <3>1 DEF Picks
    <3> HIDE DEF e
    <3> QED BY <1>2, <2>2, <3>1, <3>2, <3>3 DEF Place
  <2>3. CASE i \notin hit
    <3>1. edited[i] = lines[i]
      BY <1>5, <2>1, <2>3
    <3>2. e[i][k] = k
      BY <2>1, <2>3, <3>1
    <3> HIDE DEF e
    <3> QED BY <2>1, <3>1, <3>2 DEF Place
  <2> QED BY <2>2, <2>3
<1>7. ASSUME NEW i, NEW k, NEW l, Place(edited, i, k), Place(edited, i, l), e[i][k] = e[i][l] PROVE k = l
  <2>1. i \in 1..n /\ k \in 1..Len(edited[i].rules) /\ l \in 1..Len(edited[i].rules)
    BY <1>5, <1>7 DEF Place
  <2>2. CASE i \in hit
    <3>1. edited[i].rules = kept(i)
      BY <1>5, <2>1, <2>2, RulesLineIs
    <3>2. e[i] = d[i]
      BY <2>1, <2>2
    <3>3. Len(kept(i)) \in Nat /\ Len(lines[i].rules) \in Nat /\ Picks(d[i], Len(kept(i)), Len(lines[i].rules), Q(i))
      BY <1>3, <1>4, <2>2
    <3> HIDE DEF e, Keeps
    <3>4. \A x, y \in 1..Len(kept(i)) : d[i][x] = d[i][y] => x = y
      BY <3>3, PicksOnce
    <3> QED BY <1>7, <2>1, <3>1, <3>2, <3>4
  <2>3. CASE i \notin hit
    <3>1. edited[i] = lines[i]
      BY <1>5, <2>1, <2>3
    <3>2. e[i][k] = k /\ e[i][l] = l
      BY <2>1, <2>3, <3>1
    <3> HIDE DEF e
    <3> QED BY <1>7, <3>2
  <2> QED BY <2>2, <2>3
<1> HIDE DEF e
<1>8. DomainClashFree(lines) => DomainClashFree(edited)
  BY <1>6, <1>7, DomainFewerRules
<1> DEFINE new == Without(edited, gone)
<1>9. new \in Seq(Lines("domain")) /\ \E c : Leaves(c, edited, gone)
  BY <1>5, WithoutFacts
<1>10. PICK c : /\ Picks(c, Len(new), n, (1..n) \ gone)
                /\ \A k \in 1..Len(new) : new[k] = edited[c[k]]
  BY <1>5, <1>9 DEF Leaves
<1> HIDE DEF new, n
<1>11. Len(new) \in Nat
  BY <1>9
<1>12. /\ \A i \in 1..Len(new) : c[i] \in 1..n
       /\ \A i, j \in 1..Len(new) : c[i] = c[j] => i = j
  <2>1. Len(new) \in Nat /\ n \in Nat /\ Picks(c, Len(new), n, (1..n) \ gone)
    BY <1>0, <1>10, <1>11
  <2> QED BY ONLY <2>1, PicksOnce
<1>13. DomainClashFree(edited) => DomainClashFree(new)
  BY <1>5, <1>10, <1>12, DomainFewerLines
<1> QED BY <1>1, <1>8, <1>9, <1>13 DEF new

-----------------------------------------------------------------------------
(* Patches of ip.list: texts with fewer entries, and with one more.         *)

(* Line k of ip.list is a rule of the active block that line i starts. *)
Listed(lines, i, k) ==
  /\ i \in 1..Len(lines) /\ lines[i].kind = "/"
  /\ k \in 1..Len(lines) /\ Owns(lines, i, k)

LEMMA CidrPlaces ==
  ASSUME NEW lines
  PROVE  CidrClashFree(lines) <=>
           \A i, j, k, l : /\ Listed(lines, i, k) /\ Listed(lines, j, l) /\ lines[i].target = lines[j].target
                           /\ Same(lines[k].rule, lines[l].rule)
                           => k = l
BY DEF CidrClashFree, Listed

(* The rules of new stand in lines, too. *)
OldEntry(lines, new, e, i, k) ==
  /\ Listed(lines, e[i], e[k]) /\ lines[e[i]].target = new[i].target
  /\ lines[e[k]].rule = new[k].rule
CidrFewer(lines, new) ==
  \E e : /\ \A i, k : Listed(new, i, k) => OldEntry(lines, new, e, i, k)
         /\ \A k, l \in 1..Len(new) : e[k] = e[l] => k = l

(* So they do but for one rule of a target. *)
NewEntry(new, t, r, i, k) == new[i].target = t /\ Same(new[k].rule, r)
CidrMore(lines, new, t, r) ==
  \E e, N : /\ \A i, k : Listed(new, i, k) =>
                 (k = N /\ NewEntry(new, t, r, i, k)) \/ (k # N /\ OldEntry(lines, new, e, i, k))
            /\ \A k, l \in (1..Len(new)) \ {N} : e[k] = e[l] => k = l
CidrLacks(lines, t, r) ==
  \A i, k : Listed(lines, i, k) /\ lines[i].target = t => ~Same(lines[k].rule, r)

LEMMA CidrFewerEntries ==
  ASSUME NEW lines, CidrClashFree(lines), NEW new, CidrFewer(lines, new)
  PROVE  CidrClashFree(new)
<1>1. PICK e : /\ \A i, k : Listed(new, i, k) => OldEntry(lines, new, e, i, k)
               /\ \A k, l \in 1..Len(new) : e[k] = e[l] => k = l
  BY DEF CidrFewer
<1> SUFFICES ASSUME NEW i, NEW j, NEW k, NEW l, Listed(new, i, k), Listed(new, j, l),
                    new[i].target = new[j].target, Same(new[k].rule, new[l].rule)
             PROVE  k = l
  BY CidrPlaces
<1>2. OldEntry(lines, new, e, i, k) /\ OldEntry(lines, new, e, j, l)
  BY <1>1
<1> DEFINE a == e[i]
           b == e[j]
           x == e[k]
           y == e[l]
<1>3. /\ Listed(lines, a, x) /\ Listed(lines, b, y) /\ lines[a].target = lines[b].target
      /\ Same(lines[x].rule, lines[y].rule)
  BY <1>2 DEF OldEntry
<1>4. x = y
  <2> HIDE DEF a, b, x, y
  <2> QED BY <1>3, CidrPlaces
<1>5. k \in 1..Len(new) /\ l \in 1..Len(new)
  BY DEF Listed
<1> QED BY <1>1, <1>4, <1>5

LEMMA CidrOneMore ==
  ASSUME NEW lines, CidrClashFree(lines), NEW new, NEW t, NEW r, CidrMore(lines, new, t, r),
         CidrLacks(lines, t, r)
  PROVE  CidrClashFree(new)
<1>1. PICK e, N :
            /\ \A i, k : Listed(new, i, k) =>
                 (k = N /\ NewEntry(new, t, r, i, k)) \/ (k # N /\ OldEntry(lines, new, e, i, k))
            /\ \A k, l \in (1..Len(new)) \ {N} : e[k] = e[l] => k = l
  BY DEF CidrMore
<1> SUFFICES ASSUME NEW i, NEW j, NEW k, NEW l, Listed(new, i, k), Listed(new, j, l),
                    new[i].target = new[j].target, Same(new[k].rule, new[l].rule)
             PROVE  k = l
  BY CidrPlaces
<1> DEFINE a == e[i]
           b == e[j]
           x == e[k]
           y == e[l]
<1>2. /\ (k = N /\ NewEntry(new, t, r, i, k)) \/ (k # N /\ OldEntry(lines, new, e, i, k))
      /\ (l = N /\ NewEntry(new, t, r, j, l)) \/ (l # N /\ OldEntry(lines, new, e, j, l))
  BY <1>1
<1>3. CASE k = N /\ l = N
  BY <1>3
<1>4. CASE k # N /\ l # N
  <2>1. OldEntry(lines, new, e, i, k) /\ OldEntry(lines, new, e, j, l)
    BY <1>2, <1>4
  <2>2. /\ Listed(lines, a, x) /\ Listed(lines, b, y) /\ lines[a].target = lines[b].target
        /\ Same(lines[x].rule, lines[y].rule)
    BY <2>1 DEF OldEntry
  <2>3. x = y
    <3> HIDE DEF a, b, x, y
    <3> QED BY <2>2, CidrPlaces
  <2>4. k \in 1..Len(new) /\ l \in 1..Len(new)
    BY DEF Listed
  <2> QED BY <1>1, <1>4, <2>3, <2>4
<1>5. CASE k = N /\ l # N
  <2>1. NewEntry(new, t, r, i, k) /\ OldEntry(lines, new, e, j, l)
    BY <1>2, <1>5
  <2>2. Listed(lines, b, y) /\ lines[b].target = t /\ Same(lines[y].rule, r)
    BY <2>1 DEF OldEntry, NewEntry, Same
  <2> HIDE DEF b, y
  <2> QED BY <2>2 DEF CidrLacks
<1>6. CASE k # N /\ l = N
  <2>1. OldEntry(lines, new, e, i, k) /\ NewEntry(new, t, r, j, l)
    BY <1>2, <1>6
  <2>2. Listed(lines, a, x) /\ lines[a].target = t /\ Same(lines[x].rule, r)
    BY <2>1 DEF OldEntry, NewEntry, Same
  <2> HIDE DEF a, x
  <2> QED BY <2>2 DEF CidrLacks
<1> QED BY <1>3, <1>4, <1>5, <1>6

LEMMA FreshCidr ==
  ASSUME NEW lines \in Seq(Lines("cidr")), NEW p \in Patches, ~Duplicate("cidr", lines, p),
         ~\E i \in Scope(lines, p) : Holds("cidr", lines, i, p.rule)
  PROVE  CidrLacks(lines, p.target, p.rule)
<1> SUFFICES ASSUME NEW i, NEW k, Listed(lines, i, k), lines[i].target = p.target, Same(lines[k].rule, p.rule)
             PROVE  FALSE
  BY DEF CidrLacks
<1> DEFINE R == RulesOf("cidr", lines, i)
<1>1. i \in 1..Len(lines) /\ lines[i].kind = "/" /\ k \in 1..Len(lines) /\ Owns(lines, i, k) /\ IsGroup(lines[i])
  BY DEF Listed, IsGroup
<1>2. i \in Active(lines, p.target)
  BY <1>1 DEF Active
<1>3. PICK e : /\ \A m \in 1..Len(lines) : Owns(lines, i, m) <=> \E j \in 1..Len(R) : e[j] = m
               /\ \A m \in 1..Len(R) : R[m] = lines[e[m]].rule
  BY <1>1, BlockEntries
<1>4. R \in Seq(Values)
  BY <1>1, BlockEntries
<1>5. PICK j \in 1..Len(R) : e[j] = k
  BY <1>1, <1>3
<1>6. R[j] = lines[k].rule /\ R[j] \in ToSet(R)
  <2> HIDE DEF R
  <2> QED BY <1>3, <1>4, <1>5 DEF ToSet
<1>7. Holds("cidr", lines, i, p.rule)
  BY <1>6 DEF Holds, Same
<1> QED BY <1>2, <1>7 DEF Duplicate

(* Lines at the end, the first of them not one of a block. *)
LEMMA CidrNewBlock ==
  ASSUME NEW lines \in Seq(Lines("cidr")), NEW p \in Patches
  PROVE  LET new == lines \o NewLines("cidr", p)
         IN  new \in Seq(Lines("cidr")) /\ CidrMore(lines, new, p.target, p.rule)
<1> DEFINE n == Len(lines)
           s == NewLines("cidr", p)
           new == lines \o s
           c == CommentLines(p)
           v == Token("cidr", p.rule)
           m == Len(c)
           rest == <<Header(p.target), Entry(v)>>
           a == n + (m + 1)
           N == n + (m + 2)
           e == [i \in 1..Len(new) |-> i]
<1>0. "cidr" \in Files /\ n \in Nat
  BY DEF Files
<1>1. /\ s \in Seq(Lines("cidr")) /\ c \in Seq(Lines("cidr")) /\ s = c \o rest
      /\ \A i \in 1..m : IsComment(c[i])
      /\ Same(v, p.rule)
  BY <1>0, NewLinesFacts
<1>2. /\ Header(p.target).kind = "/" /\ Header(p.target).target = p.target
      /\ Entry(v).kind = "entry" /\ Entry(v).rule = v
  BY DEF Header, Entry
<1>3. rest \in Seq({Header(p.target), Entry(v)}) /\ Len(rest) = 2 /\ rest[1] = Header(p.target) /\ rest[2] = Entry(v)
  OBVIOUS
<1> HIDE DEF s, c, v, rest, new
<1>4. /\ m \in Nat /\ Len(s) = m + 2 /\ \A i \in 1..m : s[i] = c[i]
      /\ s[m + 1] = Header(p.target) /\ s[m + 2] = Entry(v)
  <2> DEFINE L == Lines("cidr") \cup {Header(p.target), Entry(v)}
  <2>1. c \in Seq(L) /\ rest \in Seq(L)
    BY <1>1, <1>3
  <2> HIDE DEF L
  <2>2. /\ Len(c \o rest) = Len(c) + Len(rest) /\ \A i \in 1..Len(c) : (c \o rest)[i] = c[i]
        /\ \A i \in 1..Len(rest) : (c \o rest)[Len(c) + i] = rest[i]
        /\ Len(c) \in Nat
    BY <2>1, ConcatFacts
  <2> QED BY <1>1, <1>3, <2>2
<1>5. /\ new \in Seq(Lines("cidr")) /\ Len(new) = n + (m + 2)
      /\ \A i \in 1..n : new[i] = lines[i]
      /\ \A i \in 1..(m + 2) : new[n + i] = s[i]
  <2>1. new = lines \o s
    BY DEF new
  <2>2. s \in Seq(Lines("cidr"))
    BY <1>1
  <2>3. /\ new \in Seq(Lines("cidr")) /\ Len(new) = Len(lines) + Len(s)
        /\ \A i \in 1..Len(lines) : new[i] = lines[i]
        /\ \A i \in 1..Len(s) : new[Len(lines) + i] = s[i]
    BY ONLY <2>1, <2>2, ConcatFacts, lines \in Seq(Lines("cidr"))
  <2> QED BY <1>4, <2>3
<1> HIDE DEF n, m
<1>6. /\ \A i \in 1..m : IsComment(new[n + i])
      /\ new[a] = Header(p.target) /\ new[N] = Entry(v)
      /\ Len(new) = N /\ a = n + (m + 1) /\ N = n + (m + 2)
  <2>1. \A i \in 1..m : i \in 1..(m + 2) /\ IsComment(s[i])
    BY <1>1, <1>4 DEF m
  <2>2. \A i \in 1..m : IsComment(new[n + i])
    BY <1>5, <2>1
  <2>3. m + 1 \in 1..(m + 2) /\ m + 2 \in 1..(m + 2)
    BY <1>4
  <2>4. new[n + (m + 1)] = Header(p.target) /\ new[n + (m + 2)] = Entry(v)
    BY <1>4, <1>5, <2>3
  <2> QED BY <1>5, <2>2, <2>4
<1> HIDE DEF a, N
<1>7. ASSUME NEW i, NEW k, Listed(new, i, k)
      PROVE  \/ k = N /\ NewEntry(new, p.target, p.rule, i, k)
             \/ k # N /\ OldEntry(lines, new, e, i, k)
  <2>1. /\ i \in 1..N /\ new[i].kind = "/" /\ k \in 1..N /\ k \in (i + 1)..N /\ new[k].kind = "entry"
        /\ \A l \in (i + 1)..k : InnerLine(new[l])
    BY <1>6, <1>7 DEF Listed, Owns
  <2>2. ~InnerLine(new[n + 1])
    <3>1. CASE m = 0
      BY <1>0, <1>2, <1>6, <3>1 DEF InnerLine
    <3>2. CASE m # 0
      BY <1>4, <1>6, <3>2 DEF InnerLine, IsComment
    <3> QED BY <3>1, <3>2
  <2>3. n + 1 \notin (i + 1)..k
    BY <2>1, <2>2
  <2>4. k <= n \/ i > n
    BY <1>0, <2>1, <2>3
  <2>5. CASE k <= n
    <3>1. i \in 1..n /\ k \in 1..n
      BY <1>0, <2>1, <2>5
    <3>2. k # N
      BY <1>0, <1>4, <1>6, <2>5
    <3>3. e[i] = i /\ e[k] = k
      BY <1>6, <2>1
    <3>4. \A l \in (i + 1)..k : new[l] = lines[l]
      BY <1>0, <1>5, <3>1
    <3>5. Owns(lines, i, k)
      BY <1>5, <2>1, <3>1, <3>4 DEF Owns, n
    <3>6. Listed(lines, i, k)
      BY <1>5, <2>1, <3>1, <3>5 DEF Listed, n
    <3> HIDE DEF e
    <3> QED BY <1>5, <3>1, <3>2, <3>3, <3>6 DEF OldEntry
  <2>6. CASE i > n
    <3>1. i - n \in 1..(m + 2) /\ n + (i - n) = i
      BY <1>0, <1>4, <1>6, <2>1, <2>6
    <3>2. i - n \notin 1..m
      BY <1>6, <2>1, <3>1 DEF IsComment
    <3>3. i # N
      BY <1>2, <1>6, <2>1
    <3>4. i = a /\ k = N
      BY <1>0, <1>4, <1>6, <2>1, <3>1, <3>2, <3>3
    <3> QED BY <1>1, <1>2, <1>6, <3>4 DEF NewEntry
  <2> QED BY <2>4, <2>5, <2>6
<1>8. \A k, l \in (1..Len(new)) \ {N} : e[k] = e[l] => k = l
  OBVIOUS
<1> HIDE DEF e
<1>9. CidrMore(lines, new, p.target, p.rule)
  BY <1>7, <1>8 DEF CidrMore
<1> QED BY <1>5, <1>9 DEF new, s

-----------------------------------------------------------------------------
(* Adding to ip.list, and leaving lines of it out.                          *)

(* An entry after the last line of a block of a target. *)
LEMMA CidrInsert ==
  ASSUME NEW lines \in Seq(Lines("cidr")), NEW b \in 1..Len(lines), NEW v \in Values, NEW r, Same(v, r),
         lines[b].kind = "/"
  PROVE  LET new == InsertAt(lines, BlockEnd(lines, b) + 1, Entry(v))
         IN  new \in Seq(Lines("cidr")) /\ CidrMore(lines, new, lines[b].target, r)
<1> DEFINE n == Len(lines)
           end == BlockEnd(lines, b)
           at == end + 1
           new == InsertAt(lines, at, Entry(v))
           e == [i \in 1..Len(new) |-> IF i < at THEN i ELSE i - 1]
<1>0. "cidr" \in Files /\ n \in Nat /\ Entry(v) \in Lines("cidr") /\ Entry(v).kind = "entry" /\ Entry(v).rule = v
  <2>1. "cidr" \in Files
    BY DEF Files
  <2>2. Entry(v) \in Lines("cidr")
    BY <2>1, LinesOf
  <2> QED BY <2>1, <2>2 DEF Entry
<1>1. /\ end \in b..n
      /\ \A j \in Nat : j \in b..end <=> j \in b..n /\ \A l \in (b + 1)..j : InnerLine(lines[l])
  BY InBlock
<1> HIDE DEF end
<1>2. at \in 1..(n + 1) /\ at - 1 = end
  BY <1>0, <1>1
<1>3. /\ new \in Seq(Lines("cidr")) /\ Len(new) = n + 1 /\ new[at] = Entry(v)
      /\ \A i \in 1..(at - 1) : new[i] = lines[i]
      /\ \A i \in at..n : new[i + 1] = lines[i]
  BY <1>0, <1>2, InsertFacts, SMTT(20)
<1> HIDE DEF n, at, new
<1>4. ASSUME NEW i \in 1..(n + 1), i # at
      PROVE  /\ e[i] = (IF i < at THEN i ELSE i - 1) /\ e[i] \in 1..n /\ new[i] = lines[e[i]]
             /\ (i < at => e[i] = i)
             /\ (~(i < at) => i > at /\ e[i] = i - 1)
  <2>1. e[i] = (IF i < at THEN i ELSE i - 1)
    BY <1>3
  <2> HIDE DEF e
  <2>2. CASE i < at
    BY <1>0, <1>2, <1>3, <2>1, <2>2
  <2>3. CASE i > at
    <3>1. i - 1 \in at..n /\ (i - 1) + 1 = i /\ i - 1 \in 1..n
      BY <1>0, <1>2, <2>3
    <3>2. new[(i - 1) + 1] = lines[i - 1]
      BY <1>3, <3>1
    <3>3. e[i] = i - 1
      BY <1>2, <2>1, <2>3
    <3> QED BY <2>1, <2>3, <3>1, <3>2, <3>3
  <2> QED BY <1>2, <1>4, <2>2, <2>3
<1>5. \A i, j \in (1..(n + 1)) \ {at} : e[i] = e[j] => i = j
  <2> SUFFICES ASSUME NEW i \in 1..(n + 1), NEW j \in 1..(n + 1), i # at, j # at, e[i] = e[j] PROVE i = j
    OBVIOUS
  <2>1. /\ (i < at => e[i] = i) /\ (~(i < at) => i > at /\ e[i] = i - 1)
        /\ (j < at => e[j] = j) /\ (~(j < at) => j > at /\ e[j] = j - 1)
    BY <1>4
  <2>2. i \in Nat /\ j \in Nat /\ at \in Nat
    BY <1>0, <1>2
  <2> HIDE DEF e
  <2>3. e[i] = e[j] /\ i # at /\ j # at
    OBVIOUS
  <2>4. CASE i < at /\ j < at
    BY <2>1, <2>3, <2>4
  <2>5. CASE i < at /\ j > at
    <3>1. i = j - 1
      BY <2>1, <2>2, <2>3, <2>5
    <3> QED BY <2>2, <2>5, <3>1
  <2>6. CASE i > at /\ j < at
    <3>1. j = i - 1
      BY <2>1, <2>2, <2>3, <2>6
    <3> QED BY <2>2, <2>6, <3>1
  <2>7. CASE i > at /\ j > at
    <3>1. i - 1 = j - 1
      BY <2>1, <2>2, <2>3, <2>7
    <3> QED BY <2>2, <3>1
  <2> QED BY <2>2, <2>3, <2>4, <2>5, <2>6, <2>7
<1> HIDE DEF e
(* The lines of the block that i starts, without the new one. *)
<1>6. ASSUME NEW i \in 1..(n + 1), NEW k \in 1..(n + 1), i # at, k # at, new[i].kind = "/",
             Owns(new, i, k)
      PROVE  Owns(lines, e[i], e[k])
  <2>1. /\ k \in (i + 1)..(n + 1) /\ new[k].kind = "entry" /\ \A l \in (i + 1)..k : InnerLine(new[l])
    BY <1>3, <1>6 DEF Owns
  <2>2. /\ e[i] = (IF i < at THEN i ELSE i - 1) /\ e[k] = (IF k < at THEN k ELSE k - 1)
        /\ e[i] \in 1..n /\ e[k] \in 1..n /\ new[k] = lines[e[k]]
    BY <1>4, <1>6
  <2>3. e[k] \in (e[i] + 1)..n
    BY <1>0, <1>2, <1>6, <2>1, <2>2
  <2>4. ASSUME NEW l \in (e[i] + 1)..e[k] PROVE InnerLine(lines[l])
    <3>0. l \in Nat /\ l \in 1..n
      BY <1>0, <2>2
    <3>1. CASE l < at
      <4>1. l \in (i + 1)..k /\ l \in 1..(at - 1)
        BY <1>0, <1>2, <1>6, <2>1, <2>2, <3>0, <3>1
      <4> QED BY <1>3, <2>1, <4>1
    <3>2. CASE l >= at
      <4>1. l + 1 \in (i + 1)..k /\ l \in at..n
        BY <1>0, <1>2, <1>6, <2>1, <2>2, <3>0, <3>2
      <4> QED BY <1>3, <2>1, <4>1
    <3> QED BY <1>2, <3>0, <3>1, <3>2
  <2> QED BY <2>1, <2>2, <2>3, <2>4 DEF Owns, n
<1>7. ASSUME NEW i \in 1..(n + 1), new[i].kind = "/", Owns(new, i, at)
      PROVE  i = b
  <2>1. /\ at \in (i + 1)..(n + 1) /\ \A l \in (i + 1)..at : InnerLine(new[l])
    BY <1>3, <1>7 DEF Owns
  <2>2. i \in 1..(at - 1) /\ new[i] = lines[i] /\ b \in 1..(at - 1) /\ new[b] = lines[b]
    BY <1>0, <1>1, <1>2, <1>3, <2>1
  <2>3. CASE i < b
    <3>1. b \in (i + 1)..at
      BY <1>2, <2>2, <2>3
    <3> QED BY <2>1, <2>2, <3>1 DEF InnerLine
  <2>4. CASE b < i
    <3>1. i \in b..end /\ i \in (b + 1)..i
      BY <1>1, <1>2, <2>2, <2>4
    <3>2. InnerLine(lines[i])
      BY <1>1, <3>1
    <3> QED BY <1>7, <2>2, <3>2 DEF InnerLine
  <2> QED BY <2>2, <2>3, <2>4
<1>8. ASSUME NEW i, NEW k, Listed(new, i, k)
      PROVE  \/ k = at /\ NewEntry(new, lines[b].target, r, i, k)
             \/ k # at /\ OldEntry(lines, new, e, i, k)
  <2>1. i \in 1..(n + 1) /\ k \in 1..(n + 1) /\ new[i].kind = "/" /\ Owns(new, i, k) /\ i # at
    BY <1>0, <1>3, <1>8 DEF Listed
  <2>2. CASE k = at
    <3>1. i = b
      BY <1>7, <2>1, <2>2
    <3>2. new[b] = lines[b]
      <4>1. b \in 1..(at - 1)
        BY <1>1, <1>2
      <4> QED BY <1>3, <4>1
    <3> QED BY <1>0, <1>3, <2>2, <3>1, <3>2 DEF NewEntry
  <2>3. CASE k # at
    <3>1. Owns(lines, e[i], e[k])
      BY <1>6, <2>1, <2>3
    <3>2. e[i] \in 1..n /\ e[k] \in 1..n /\ new[i] = lines[e[i]] /\ new[k] = lines[e[k]]
      BY <1>4, <2>1, <2>3
    <3>3. Listed(lines, e[i], e[k])
      BY <2>1, <3>1, <3>2 DEF Listed, n
    <3> QED BY <2>3, <3>2, <3>3 DEF OldEntry
  <2> QED BY <2>2, <2>3
<1>9. CidrMore(lines, new, lines[b].target, r)
  <2> DEFINE t == lines[b].target
  <2>1. /\ \A i, k : Listed(new, i, k) =>
              (k = at /\ NewEntry(new, t, r, i, k)) \/ (k # at /\ OldEntry(lines, new, e, i, k))
        /\ \A k, l \in (1..Len(new)) \ {at} : e[k] = e[l] => k = l
    BY <1>3, <1>5, <1>8
  <2> HIDE DEF t
  <2>2. CidrMore(lines, new, t, r)
    BY <2>1 DEF CidrMore
  <2> QED BY <2>2 DEF t
<1> QED BY <1>3, <1>9 DEF new, at, end

LEMMA CidrExtended ==
  ASSUME NEW lines \in Seq(Lines("cidr")), NEW p \in Patches
  PROVE  /\ Extended("cidr", lines, p) \in Seq(Lines("cidr"))
         /\ CidrMore(lines, Extended("cidr", lines, p), p.target, p.rule)
<1> DEFINE scope == Scope(lines, p)
           v == Token("cidr", p.rule)
           n == Len(lines)
<1>0. "cidr" \in Files /\ "cidr" # "domain" /\ n \in Nat
  BY DEF Files
<1>1. v \in Values /\ Same(v, p.rule)
  BY <1>0, NewLinesFacts
<1>2. /\ scope \subseteq 1..n
      /\ \A i \in scope : lines[i].target = p.target /\ lines[i].kind = "/"
  <2>2. scope \subseteq Active(lines, p.target) /\ Active(lines, p.target) \subseteq 1..n
    BY <1>0, ScopeFacts
  <2>3. \A i \in Active(lines, p.target) : lines[i].target = p.target /\ lines[i].kind = "/"
    BY <1>0, ScopeFacts
  <2> HIDE DEF scope
  <2> QED BY <2>2, <2>3
<1>3. CASE scope = {}
  <2>1. Extended("cidr", lines, p) = lines \o NewLines("cidr", p)
    BY <1>3 DEF Extended
  <2> QED BY <2>1, CidrNewBlock
<1>4. CASE scope # {}
  <2> DEFINE b == Greatest(scope)
  <2>1. Extended("cidr", lines, p) = InsertAt(lines, BlockEnd(lines, b) + 1, Entry(v))
    BY <1>0, <1>4 DEF Extended
  <2>2. b \in scope
    <3>1. scope \subseteq 0..n
      <4> HIDE DEF scope
      <4> QED BY <1>0, <1>2
    <3> HIDE DEF scope
    <3> QED BY <1>0, <1>4, <3>1, GreatestOf
  <2> HIDE DEF b, scope, v
  <2>3. b \in 1..Len(lines) /\ lines[b].kind = "/" /\ lines[b].target = p.target
    BY <1>2, <2>2
  <2> QED BY <1>1, <2>1, <2>3, CidrInsert
<1> QED BY <1>3, <1>4

LEMMA CidrAdded ==
  ASSUME NEW lines \in Seq(Lines("cidr")), NEW p \in Patches
  PROVE  /\ Added("cidr", lines, p) \in Seq(Lines("cidr"))
         /\ CidrClashFree(lines) /\ ~Duplicate("cidr", lines, p)
              => CidrClashFree(Added("cidr", lines, p))
<1>1. CASE \E i \in Scope(lines, p) : Holds("cidr", lines, i, p.rule)
  BY <1>1 DEF Added
<1>2. CASE ~\E i \in Scope(lines, p) : Holds("cidr", lines, i, p.rule)
  <2> DEFINE new == Extended("cidr", lines, p)
  <2>1. Added("cidr", lines, p) = new
    BY <1>2 DEF Added
  <2>2. new \in Seq(Lines("cidr")) /\ CidrMore(lines, new, p.target, p.rule)
    BY CidrExtended
  <2>3. ASSUME CidrClashFree(lines), ~Duplicate("cidr", lines, p) PROVE CidrClashFree(new)
    <3>1. CidrLacks(lines, p.target, p.rule)
      BY <1>2, <2>3, FreshCidr
    <3> HIDE DEF new
    <3> QED BY <2>2, <2>3, <3>1, CidrOneMore
  <2> HIDE DEF new
  <2> QED BY <2>1, <2>2, <2>3
<1> QED BY <1>1, <1>2

(* Lines that go take no header with them that separates what is left. *)
Apart(lines, gone) ==
  \A i, k \in (1..Len(lines)) \ gone :
    i < k /\ (\A l \in ((i + 1)..k) \ gone : InnerLine(lines[l]))
    => \A l \in (i + 1)..k : InnerLine(lines[l])

LEMMA CidrLeft ==
  ASSUME NEW lines \in Seq(Lines("cidr")), NEW gone, Apart(lines, gone), NEW e, Leaves(e, lines, gone),
         NEW i, NEW k, Listed(Without(lines, gone), i, k)
  PROVE  OldEntry(lines, Without(lines, gone), e, i, k)
<1> DEFINE new == Without(lines, gone)
           n == Len(lines)
           m == Len(new)
<1>0. Listed(new, i, k)
  OBVIOUS
<1>1. new \in Seq(Lines("cidr"))
  BY WithoutFacts
<1>2. Picks(e, m, n, (1..n) \ gone) /\ \A j \in 1..m : new[j] = lines[e[j]]
  BY DEF Leaves
<1>3. n \in Nat /\ m \in Nat
  BY <1>1
<1>4. ASSUME NEW a \in (1..n) \ gone, NEW b \in (1..n) \ gone, a < b,
             \A l \in ((a + 1)..b) \ gone : InnerLine(lines[l])
      PROVE  \A l \in (a + 1)..b : InnerLine(lines[l])
  BY <1>4 DEF Apart
<1> HIDE DEF new, m, n
<1>5. /\ \A j \in 1..m : e[j] \in 1..n
      /\ \A j, l \in 1..m : e[j] = e[l] => j = l
      /\ \A j, l \in 1..m : e[j] < e[l] => j < l
  BY <1>2, <1>3, PicksOnce
<1>6. /\ i \in 1..m /\ new[i].kind = "/" /\ k \in 1..m /\ i < k /\ new[k].kind = "entry"
      /\ \A l \in (i + 1)..k : InnerLine(new[l])
  BY <1>0 DEF Listed, Owns, m
<1>7. /\ e[i] \in (1..n) \ gone /\ e[k] \in (1..n) \ gone /\ e[i] < e[k]
      /\ new[i] = lines[e[i]] /\ new[k] = lines[e[k]]
  BY <1>2, <1>5, <1>6 DEF Picks
<1>8. ASSUME NEW l \in ((e[i] + 1)..e[k]) \ gone PROVE InnerLine(lines[l])
  <2>1. l \in 1..n /\ l \notin gone /\ l \in Nat /\ e[i] < l /\ l <= e[k]
    <3>1. e[i] \in Nat /\ e[k] \in Nat /\ e[i] >= 1 /\ e[k] <= n
      BY <1>3, <1>7
    <3> QED BY <1>3, <3>1
  <2>2. PICK q \in 1..m : e[q] = l
    BY <1>2, <2>1 DEF Picks
  <2>3. i < q
    BY <1>5, <1>6, <2>1, <2>2
  <2>4. q <= k
    <3>1. ~(k < q)
      <4>1. k < q => e[k] < e[q]
        BY <1>2, <1>6 DEF Picks
      <4> QED BY <1>5, <1>6, <2>1, <2>2, <4>1
    <3> QED BY <1>6, <3>1
  <2>5. q \in (i + 1)..k
    BY <1>6, <2>3, <2>4
  <2>6. InnerLine(new[q]) /\ new[q] = lines[l]
    BY <1>2, <1>6, <2>2, <2>5
  <2> QED BY <2>6
<1>9. \A l \in (e[i] + 1)..e[k] : InnerLine(lines[l])
  BY <1>4, <1>6, <1>7, <1>8
<1>10. Owns(lines, e[i], e[k])
  BY <1>5, <1>6, <1>7, <1>9 DEF Owns, n
<1>11. Listed(lines, e[i], e[k])
  BY <1>6, <1>7, <1>10 DEF Listed, n
<1> QED BY <1>7, <1>11 DEF OldEntry, new

LEMMA CidrWithout ==
  ASSUME NEW lines \in Seq(Lines("cidr")), NEW gone, Apart(lines, gone)
  PROVE  /\ Without(lines, gone) \in Seq(Lines("cidr"))
         /\ CidrFewer(lines, Without(lines, gone))
<1> DEFINE new == Without(lines, gone)
<1>1. new \in Seq(Lines("cidr"))
  BY WithoutFacts
<1>2. PICK e : Leaves(e, lines, gone)
  BY WithoutFacts
<1>3. \A i, k : Listed(new, i, k) => OldEntry(lines, new, e, i, k)
  BY <1>2, CidrLeft
<1>4. Picks(e, Len(new), Len(lines), (1..Len(lines)) \ gone)
  BY <1>2 DEF Leaves
<1> HIDE DEF new
<1>5. Len(new) \in Nat /\ Len(lines) \in Nat
  BY <1>1
<1>6. \A k, l \in 1..Len(new) : e[k] = e[l] => k = l
  BY <1>4, <1>5, PicksOnce
<1>7. CidrFewer(lines, new)
  BY <1>3, <1>6 DEF CidrFewer
<1> QED BY <1>1, <1>7 DEF new

-----------------------------------------------------------------------------
(* Deleting from ip.list; every patch keeps rules unique.                   *)

LEMMA EntriesApart ==
  ASSUME NEW lines \in Seq(Lines("cidr")), NEW hit,
         \A j \in hit : j \in 1..Len(lines) /\ lines[j].kind = "entry"
  PROVE  Apart(lines, hit)
<1>1. ASSUME NEW i \in (1..Len(lines)) \ hit, NEW k \in (1..Len(lines)) \ hit,
             \A l \in ((i + 1)..k) \ hit : InnerLine(lines[l]), NEW l \in (i + 1)..k
      PROVE  InnerLine(lines[l])
  BY <1>1 DEF InnerLine
<1> QED BY <1>1 DEF Apart

(* The lines of empty blocks and their comments: a line left after one of   *)
(* them is not of a block.                                                  *)
Bares(lines, t) == {j \in Active(lines, t) : BlockEnd(lines, j) = j}

LEMMA EmptyBlocksApart ==
  ASSUME NEW lines \in Seq(Lines("cidr")), NEW t
  PROVE  LET gone == UNION {Whole(lines, i) : i \in Bares(lines, t)}
         IN  NoEmptyBlocks(lines, t) = Without(lines, gone) /\ Apart(lines, gone)
<1> DEFINE n == Len(lines)
           bare == Bares(lines, t)
           gone == UNION {Whole(lines, i) : i \in bare}
<1>0. n \in Nat
  OBVIOUS
<1>1. ASSUME NEW b \in bare
      PROVE  /\ b \in 1..n /\ BlockStart(lines, b) \in 1..b /\ Whole(lines, b) = BlockStart(lines, b)..b
             /\ b + 1 \in 1..n => ~InnerLine(lines[b + 1])
  <2>1. b \in 1..n /\ BlockEnd(lines, b) = b
    BY DEF Active, Bares
  <2>2. BlockStart(lines, b) \in 1..b
    BY <2>1, Above
  <2>3. ASSUME b + 1 \in 1..n, InnerLine(lines[b + 1]) PROVE FALSE
    <3>1. b + 1 \in b..n /\ \A l \in (b + 1)..(b + 1) : InnerLine(lines[l])
      BY <2>1, <2>3
    <3>2. b + 1 \in b..BlockEnd(lines, b)
      BY <2>1, <3>1, InBlock
    <3> QED BY <2>1, <3>2
  <2> QED BY <2>1, <2>2, <2>3 DEF Whole
<1> HIDE DEF bare
<1>2. \A m \in gone : m \in 1..n /\ (m + 1 \in 1..n /\ InnerLine(lines[m + 1]) => m + 1 \in gone)
  <2> SUFFICES ASSUME NEW m \in gone
               PROVE  m \in 1..n /\ (m + 1 \in 1..n /\ InnerLine(lines[m + 1]) => m + 1 \in gone)
    OBVIOUS
  <2>1. PICK b \in bare : m \in Whole(lines, b)
    OBVIOUS
  <2>2. m \in BlockStart(lines, b)..b /\ b \in 1..n /\ BlockStart(lines, b) \in 1..b
    BY <1>1, <2>1
  <2>3. m \in 1..n
    BY <1>0, <2>2
  <2>4. ASSUME m + 1 \in 1..n, InnerLine(lines[m + 1]) PROVE m + 1 \in gone
    <3>1. m # b
      BY <1>1, <2>4
    <3>2. m + 1 \in BlockStart(lines, b)..b
      BY <2>2, <3>1
    <3>3. m + 1 \in Whole(lines, b)
      BY <1>1, <3>2
    <3> QED BY <3>3
  <2> QED BY <2>3, <2>4
<1> HIDE DEF gone
<1>3. ASSUME NEW i \in (1..n) \ gone, NEW k \in (1..n) \ gone,
             \A l \in ((i + 1)..k) \ gone : InnerLine(lines[l]), NEW l \in (i + 1)..k
      PROVE  InnerLine(lines[l])
  <2> DEFINE T == {m \in Nat : m <= k /\ (k - m) \in (i + 1)..k => (k - m) \notin gone}
  <2>0. k \in Nat /\ i \in Nat /\ k <= n
    BY <1>0
  <2>1. 0 \in T
    BY <2>0
  <2>2. ASSUME NEW m \in T PROVE m + 1 \in T
    <3> SUFFICES ASSUME m + 1 <= k, k - (m + 1) \in (i + 1)..k PROVE k - (m + 1) \notin gone
      OBVIOUS
    <3>1. m \in Nat /\ m <= k /\ k - m \in (i + 1)..k /\ (k - (m + 1)) + 1 = k - m /\ k - m \in 1..n
      BY <2>0
    <3>2. k - m \notin gone
      BY <3>1
    <3>3. InnerLine(lines[k - m])
      BY <1>3, <3>1, <3>2
    <3> QED BY <1>2, <3>1, <3>2, <3>3
  <2>3. T = Nat
    <3> HIDE DEF T
    <3>1. T \subseteq Nat BY DEF T
    <3> QED BY <2>1, <2>2, <3>1, NatSetInduction
  <2>4. k - l \in Nat /\ k - l <= k /\ k - (k - l) = l
    BY <2>0
  <2>5. l \notin gone
    BY <2>3, <2>4
  <2> QED BY <1>3, <2>5
<1>4. Apart(lines, gone)
  BY <1>3 DEF Apart
<1>5. NoEmptyBlocks(lines, t) = Without(lines, gone)
  BY DEF NoEmptyBlocks, gone, bare, Bares
<1> QED BY <1>4, <1>5 DEF gone, bare

LEMMA CidrDeleted ==
  ASSUME NEW lines \in Seq(Lines("cidr")), NEW p \in Patches
  PROVE  /\ Deleted("cidr", lines, p) \in Seq(Lines("cidr"))
         /\ CidrClashFree(lines) => CidrClashFree(Deleted("cidr", lines, p))
<1> DEFINE hit == {j \in DOMAIN lines :
                     /\ lines[j].kind = "entry" /\ Same(lines[j].rule, p.rule)
                     /\ \E i \in Scope(lines, p) : j \in i..BlockEnd(lines, i)}
           new == Without(lines, hit)
<1>1. Deleted("cidr", lines, p) = IF hit = {} THEN lines ELSE NoEmptyBlocks(new, p.target)
  BY DEF Deleted, DeletedCIDR
<1>2. \A j \in hit : j \in 1..Len(lines) /\ lines[j].kind = "entry"
  OBVIOUS
<1> HIDE DEF hit
<1>3. new \in Seq(Lines("cidr")) /\ CidrFewer(lines, new)
  BY <1>2, EntriesApart, CidrWithout
<1> HIDE DEF new
<1>4. NoEmptyBlocks(new, p.target) \in Seq(Lines("cidr")) /\ CidrFewer(new, NoEmptyBlocks(new, p.target))
  <2> DEFINE gone == UNION {Whole(new, i) : i \in Bares(new, p.target)}
  <2>1. NoEmptyBlocks(new, p.target) = Without(new, gone) /\ Apart(new, gone)
    BY <1>3, EmptyBlocksApart
  <2> HIDE DEF gone
  <2> QED BY <1>3, <2>1, CidrWithout
<1> QED BY <1>1, <1>3, <1>4, CidrFewerEntries

(* Both files. *)
LEMMA PatchedLines ==
  ASSUME NEW f \in Files, NEW lines \in Seq(Lines(f)), NEW p \in Patches
  PROVE  /\ Added(f, lines, p) \in Seq(Lines(f)) /\ Deleted(f, lines, p) \in Seq(Lines(f))
         /\ NoClash(f, lines) =>
              /\ NoClash(f, Deleted(f, lines, p))
              /\ ~Duplicate(f, lines, p) => NoClash(f, Added(f, lines, p))
<1>1. CASE f = "domain"
  <2>1. /\ Added(f, lines, p) \in Seq(Lines(f)) /\ Deleted(f, lines, p) \in Seq(Lines(f))
        /\ DomainClashFree(lines) =>
             /\ DomainClashFree(Deleted(f, lines, p))
             /\ ~Duplicate(f, lines, p) => DomainClashFree(Added(f, lines, p))
    BY <1>1, DomainAdded, DomainDeleted
  <2> QED BY <1>1, <2>1, DomainClash
<1>2. CASE f = "cidr"
  <2>1. /\ Added(f, lines, p) \in Seq(Lines(f)) /\ Deleted(f, lines, p) \in Seq(Lines(f))
        /\ CidrClashFree(lines) =>
             /\ CidrClashFree(Deleted(f, lines, p))
             /\ ~Duplicate(f, lines, p) => CidrClashFree(Added(f, lines, p))
    BY <1>2, CidrAdded, CidrDeleted
  <2> QED BY <1>2, <2>1, CidrClash
<1> QED BY <1>1, <1>2 DEF Files

LEMMA PrefixNoClash ==
  ASSUME NEW f \in Files, NEW lines \in Seq(Lines(f)), NEW m \in 0..Len(lines), NoClash(f, lines),
         SubSeq(lines, 1, m) \in Seq(Lines(f))
  PROVE  NoClash(f, SubSeq(lines, 1, m))
<1> DEFINE new == SubSeq(lines, 1, m)
           e == [i \in 1..m |-> i]
<1>1. /\ Len(new) = m /\ m \in Nat /\ \A i \in 1..m : i \in 1..Len(lines) /\ new[i] = lines[i]
      /\ new \in Seq(Lines(f))
  OBVIOUS
<1>2. (\A i \in 1..m : e[i] = i) /\ \A i, j \in 1..m : e[i] = e[j] => i = j
  OBVIOUS
<1> HIDE DEF new, e
<1>3. CASE f = "domain"
  <2>1. DomainClashFree(lines)
    BY <1>3, DomainClash
  <2>2. \A i \in 1..Len(new) : e[i] \in 1..Len(lines) /\ new[i] = lines[e[i]]
    BY <1>1, <1>2
  <2>3. DomainClashFree(new)
    BY <1>1, <1>2, <2>1, <2>2, DomainFewerLines, SMTT(20)
  <2>4. NoClash(f, new)
    BY <1>1, <1>3, <2>3, DomainClash
  <2> QED BY <2>4 DEF new
<1>4. CASE f = "cidr"
  <2>1. CidrClashFree(lines)
    BY <1>4, CidrClash
  <2>2. ASSUME NEW i, NEW k, Listed(new, i, k) PROVE OldEntry(lines, new, e, i, k)
    <3>1. /\ i \in 1..m /\ new[i].kind = "/" /\ k \in 1..m /\ k \in (i + 1)..m /\ new[k].kind = "entry"
          /\ \A l \in (i + 1)..k : InnerLine(new[l])
      BY <1>1, <2>2 DEF Listed, Owns
    <3>2. \A l \in (i + 1)..k : l \in 1..m
      BY <1>1, <3>1
    <3>3. \A l \in (i + 1)..k : InnerLine(lines[l])
      BY <1>1, <3>1, <3>2
    <3>4. k \in (i + 1)..Len(lines) /\ e[i] = i /\ e[k] = k
      BY <1>1, <1>2, <3>1
    <3> QED BY <1>1, <3>1, <3>3, <3>4 DEF OldEntry, Listed, Owns
  <2>3. CidrFewer(lines, new)
    BY <1>1, <1>2, <2>2 DEF CidrFewer
  <2>4. CidrClashFree(new)
    BY <2>1, <2>3, CidrFewerEntries
  <2>5. NoClash(f, new)
    BY <1>1, <1>4, <2>4, CidrClash
  <2> QED BY <2>5 DEF new
<1> QED BY <1>3, <1>4 DEF Files

LEMMA JoinNoClash ==
  ASSUME NEW f \in Files, NEW lines \in Seq(Lines(f)), NEW nl \in BOOLEAN, NoClash(f, lines)
  PROVE  NoClash(f, Join(lines, nl).lines)
<1>1. /\ Join(lines, nl).lines \in Seq(Lines(f))
      /\ \E m \in 0..Len(lines) : Join(lines, nl).lines = SubSeq(lines, 1, m)
  BY JoinFacts DEF ButBlanks, TextsOf
<1> QED BY <1>1, PrefixNoClash

LEMMA PatchesUnique ==
  ASSUME NEW f \in Files, NEW t \in TextsOf(f), NEW p \in Patches
  PROVE  /\ Join(Added(f, t.lines, p), t.nl) \in TextsOf(f)
         /\ Join(Deleted(f, t.lines, p), t.nl) \in TextsOf(f)
         /\ NoClash(f, t.lines) =>
              /\ NoClash(f, Join(Deleted(f, t.lines, p), t.nl).lines)
              /\ ~Duplicate(f, t.lines, p) => NoClash(f, Join(Added(f, t.lines, p), t.nl).lines)
<1>1. t.lines \in Seq(Lines(f)) /\ t.nl \in BOOLEAN
  BY DEF TextsOf
<1>2. Added(f, t.lines, p) \in Seq(Lines(f)) /\ Deleted(f, t.lines, p) \in Seq(Lines(f))
  BY <1>1, PatchedLines
<1>3. /\ Join(Added(f, t.lines, p), t.nl) \in TextsOf(f)
      /\ Join(Deleted(f, t.lines, p), t.nl) \in TextsOf(f)
  BY <1>1, <1>2, JoinFacts DEF ButBlanks
<1> QED BY <1>1, <1>2, <1>3, PatchedLines, JoinNoClash

-----------------------------------------------------------------------------
(* Rendering, exporting and importing yield texts and groups.               *)

AnyGroups ==
  [target : Targets, enabled : BOOLEAN, comment : Seq(Comments), tags : Seq(Values), values : Seq(Values)]

LEMMA ListOf ==
  ASSUME NEW S, NEW s \in Seq(S), NEW R, NEW u, u = [i \in DOMAIN s |-> u[i]], \A i \in 1..Len(s) : u[i] \in R
  PROVE  u \in Seq(R) /\ Len(u) = Len(s)
<1>1. DOMAIN s = 1..Len(s) /\ Len(s) \in Nat
  OBVIOUS
<1>2. u \in [1..Len(s) -> R]
  BY <1>1
<1> QED BY <1>1, <1>2

LEMMA FieldsOfGroup ==
  ASSUME NEW g \in AnyGroups
  PROVE  /\ g.target \in Targets /\ g.enabled \in BOOLEAN /\ g.comment \in Seq(Comments)
         /\ g.tags \in Seq(Values) /\ g.values \in Seq(Values) /\ g.tags \o g.values \in Seq(Values)
BY DEF AnyGroups

LEMMA ParsedAreGroups == ParsedGroups \subseteq AnyGroups
<1>1. Seq(Tags) \subseteq Seq(Values)
  BY FormatAssumption
<1> QED BY <1>1 DEF ParsedGroups, AnyGroups

LEMMA GroupIs ==
  ASSUME NEW t \in Targets, NEW e \in BOOLEAN, NEW c \in Seq(Comments), NEW ts \in Seq(Values),
         NEW vs \in Seq(Values)
  PROVE  Group(t, e, c, ts, vs) \in AnyGroups
BY DEF Group, AnyGroups

LEMMA MapEntries ==
  ASSUME NEW f \in Files, f = "cidr", NEW rules \in Seq(Values)
  PROVE  Map(Entry, rules) \in Seq(Lines(f))
<1> DEFINE u == [i \in DOMAIN rules |-> Entry(rules[i])]
<1>1. \A i \in 1..Len(rules) : u[i] \in Lines(f)
  <2>1. \A i \in 1..Len(rules) : rules[i] \in Values /\ u[i] = Entry(rules[i])
    OBVIOUS
  <2> QED BY <2>1, LinesOf
<1>2. u = [i \in DOMAIN rules |-> u[i]]
  OBVIOUS
<1> HIDE DEF u
<1>3. u \in Seq(Lines(f))
  BY <1>1, <1>2, ListOf
<1> QED BY <1>3 DEF Map, u

LEMMA MapComments ==
  ASSUME NEW f \in Files, NEW cs \in Seq(Comments)
  PROVE  Map(Comment, cs) \in Seq(Lines(f))
<1> DEFINE u == [i \in DOMAIN cs |-> Comment(cs[i])]
<1>1. \A i \in 1..Len(cs) : u[i] \in Lines(f)
  <2>1. \A i \in 1..Len(cs) : cs[i] \in Comments /\ u[i] = Comment(cs[i])
    OBVIOUS
  <2> QED BY <2>1, LinesOf
<1>2. u = [i \in DOMAIN cs |-> u[i]]
  OBVIOUS
<1> HIDE DEF u
<1>3. u \in Seq(Lines(f))
  BY <1>1, <1>2, ListOf
<1> QED BY <1>3 DEF Map, u

LEMMA BodyType ==
  ASSUME NEW f \in Files, NEW g \in AnyGroups
  PROVE  Body(f, g) \in Seq(Lines(f))
<1> DEFINE low == [i \in DOMAIN g.values |-> Lower[g.values[i]]]
           vs == IF f = "domain" THEN low ELSE g.values
           rules == g.tags \o vs
           header == IF g.enabled THEN Header(g.target) ELSE Off(g.target)
<1>1. rules \in Seq(Values)
  <2>1. \A i \in 1..Len(g.values) : low[i] \in Values
    BY FieldsOfGroup, FormatAssumption
  <2>2. low = [i \in DOMAIN g.values |-> low[i]] /\ g.values \in Seq(Values) /\ g.tags \in Seq(Values)
    BY FieldsOfGroup
  <2> HIDE DEF low
  <2>3. low \in Seq(Values)
    BY <2>1, <2>2, ListOf
  <2> QED BY <2>2, <2>3
<1>2. Body(f, g) = CASE f = "cidr" -> <<header>> \o Map(Entry, rules)
                     [] f = "domain" /\ ~g.enabled -> <<Off(g.target)>>
                     [] f = "domain" /\ g.enabled /\ Empty(g) -> <<>>
                     [] OTHER -> <<RulesLine(rules, g.target)>>
  BY DEF Body, Map
<1> HIDE DEF rules
<1>3. Off(g.target) \in Lines(f)
  BY FieldsOfGroup, LinesOf
<1>4. CASE f = "cidr"
  <2>1. header \in Lines(f)
    BY <1>3, <1>4, FieldsOfGroup, LinesOf
  <2>2. <<header>> \in Seq(Lines(f)) /\ Map(Entry, rules) \in Seq(Lines(f))
    BY <1>1, <1>4, <2>1, MapEntries
  <2>3. Body(f, g) = <<header>> \o Map(Entry, rules)
    BY <1>2, <1>4
  <2> HIDE DEF header
  <2> QED BY <2>2, <2>3
<1>5. CASE f = "domain"
  <2>1. RulesLine(rules, g.target) \in Lines(f)
    BY <1>1, <1>5, FieldsOfGroup, LinesOf
  <2> HIDE DEF header
  <2> QED BY <1>2, <1>3, <1>5, <2>1
<1> QED BY <1>4, <1>5 DEF Files

LEMMA RenderType ==
  ASSUME NEW f \in Files, NEW groups \in Seq(AnyGroups)
  PROVE  Render(f, groups) \in TextsOf(f)
<1> DEFINE gap(i) == IF i > 1 THEN <<Blank>> ELSE <<>>
           lines(i) == gap(i) \o Map(Comment, groups[i].comment) \o Body(f, groups[i])
           ss == [i \in DOMAIN groups |-> lines(i)]
           R == Seq(Lines(f))
           flat == FlattenSeq(ss)
<1>1. ASSUME NEW i \in 1..Len(groups) PROVE ss[i] \in R
  <2>1. groups[i] \in AnyGroups
    OBVIOUS
  <2>2. Map(Comment, groups[i].comment) \in R /\ Body(f, groups[i]) \in R
    BY <2>1, FieldsOfGroup, MapComments, BodyType
  <2>3. gap(i) \in R
    <3>1. Blank \in Lines(f)
      BY LinesOf
    <3> HIDE DEF Blank
    <3> QED BY <3>1
  <2> HIDE DEF gap
  <2>4. lines(i) \in R
    BY <2>2, <2>3
  <2> HIDE DEF lines
  <2>5. ss[i] = lines(i)
    OBVIOUS
  <2> QED BY <2>4, <2>5
<1>2. ss = [i \in DOMAIN groups |-> ss[i]]
  OBVIOUS
<1> HIDE DEF ss, lines, gap
<1>3. ss \in Seq(R)
  <2> HIDE DEF R
  <2> QED BY <1>1, <1>2, ListOf
<1>4. flat \in Seq(Lines(f))
  BY <1>3, FlattenType
<1>5. Render(f, groups) = Terminated(flat)
  BY DEF Render, ss, lines, gap
<1> HIDE DEF flat
<1>6. Len(flat) \in 0..Len(flat) /\ flat = SubSeq(flat, 1, Len(flat))
      /\ \A i \in (Len(flat) + 1)..Len(flat) : flat[i] = Blank
  BY <1>4
<1>7. ButBlanks(f, Terminated(flat), flat)
  BY <1>4, <1>6, TerminatedFacts
<1> QED BY <1>5, <1>7 DEF ButBlanks

(* CSV. *)
Rows == [target : Targets, kind : {"tag", "value", "target"}, rules : Seq(Values),
         enabled : BOOLEAN, comment : Seq(Comments)]

LEMMA RuleRowsType ==
  ASSUME NEW g \in AnyGroups
  PROVE  RuleRows(g) \in Seq(Rows)
<1> DEFINE t == [i \in DOMAIN g.tags |-> Row(g, "tag", <<g.tags[i]>>)]
           v == [i \in DOMAIN g.values |-> Row(g, "value", <<g.values[i]>>)]
<1>1. \A k \in {"tag", "value", "target"}, vs \in Seq(Values) : Row(g, k, vs) \in Rows
  BY FieldsOfGroup DEF Row, Rows
<1>2. g.tags \in Seq(Values) /\ g.values \in Seq(Values)
  BY FieldsOfGroup
<1>3. \A w \in Values : <<w>> \in Seq(Values)
  OBVIOUS
<1>4. \A w \in Values : Row(g, "tag", <<w>>) \in Rows /\ Row(g, "value", <<w>>) \in Rows
  <2> HIDE DEF Rows
  <2> QED BY <1>1, <1>3
<1>5. RuleRows(g) = t \o v
  BY DEF RuleRows, Map
<1>6. t = [i \in DOMAIN g.tags |-> t[i]] /\ v = [i \in DOMAIN g.values |-> v[i]]
  OBVIOUS
<1>7. \A i \in 1..Len(g.tags) : t[i] \in Rows
  <2> HIDE DEF Rows
  <2> QED BY <1>2, <1>4
<1>8. \A i \in 1..Len(g.values) : v[i] \in Rows
  <2> HIDE DEF Rows
  <2> QED BY <1>2, <1>4
<1> HIDE DEF t, v, Rows
<1>9. t \in Seq(Rows)
  BY <1>2, <1>6, <1>7, ListOf
<1>10. v \in Seq(Rows)
  BY <1>2, <1>6, <1>8, ListOf
<1>11. t \o v \in Seq(Rows)
  BY <1>9, <1>10
<1> QED BY <1>5, <1>11

LEMMA ExportType ==
  ASSUME NEW groups \in Seq(AnyGroups)
  PROVE  Export(groups) \in Seq(Rows)
<1> DEFINE rows(g) == IF ~g.enabled /\ Empty(g) THEN <<Row(g, "target", <<>>)>> ELSE RuleRows(g)
           ss == [i \in DOMAIN groups |-> rows(groups[i])]
           R == Seq(Rows)
<1>1. ASSUME NEW g \in AnyGroups PROVE rows(g) \in R
  <2>1. \A k \in {"tag", "value", "target"}, vs \in Seq(Values) : Row(g, k, vs) \in Rows
    BY FieldsOfGroup DEF Row, Rows
  <2>2. Row(g, "target", <<>>) \in Rows
    <3>1. <<>> \in Seq(Values) /\ "target" \in {"tag", "value", "target"}
      OBVIOUS
    <3> QED BY <2>1, <3>1
  <2>3. <<Row(g, "target", <<>>)>> \in R
    BY <2>2
  <2> HIDE DEF R
  <2> QED BY <2>3, RuleRowsType DEF R
<1>2. Export(groups) = FlattenSeq(ss)
  BY DEF Export, Map
<1> HIDE DEF rows
<1>3. \A i \in 1..Len(groups) : ss[i] \in R
  BY <1>1
<1>4. ss = [i \in DOMAIN groups |-> ss[i]]
  OBVIOUS
<1> HIDE DEF ss
<1>5. ss \in Seq(R)
  <2> HIDE DEF R
  <2> QED BY <1>3, <1>4, ListOf
<1> QED BY <1>2, <1>5, FlattenType

(* One group of the rows of a target. *)
Joined(rs) ==
  LET rules(row) == row.rules
      tag(row) == row.kind = "tag"
      value(row) == row.kind = "value"
      commented(row) == row.comment # <<>>
      comments == Select(rs, commented)
  IN  Group(rs[1].target, SomeEnabled(rs),
            IF comments = <<>> THEN <<>> ELSE comments[1].comment,
            FlattenSeq(Map(rules, Select(rs, tag))),
            FlattenSeq(Map(rules, Select(rs, value))))

LEMMA RulesOfRows ==
  ASSUME NEW rs \in Seq(Rows)
  PROVE  FlattenSeq([i \in DOMAIN rs |-> rs[i].rules]) \in Seq(Values)
<1> DEFINE u == [i \in DOMAIN rs |-> rs[i].rules]
           R == Seq(Values)
<1>1. \A i \in 1..Len(rs) : u[i] \in R
  <2> SUFFICES ASSUME NEW i \in 1..Len(rs) PROVE u[i] \in R
    OBVIOUS
  <2>1. rs[i] \in Rows /\ u[i] = rs[i].rules
    OBVIOUS
  <2>2. rs[i].rules \in R
    BY <2>1 DEF Rows
  <2> HIDE DEF u
  <2> QED BY <2>1, <2>2
<1>2. u = [i \in DOMAIN rs |-> u[i]]
  OBVIOUS
<1> HIDE DEF u
<1>3. u \in Seq(R)
  <2> HIDE DEF R
  <2> QED BY <1>1, <1>2, ListOf
<1>4. FlattenSeq(u) \in Seq(Values)
  BY <1>3, FlattenType
<1> QED BY <1>4 DEF u

LEMMA JoinedType ==
  ASSUME NEW rs \in Seq(Rows), rs # <<>>
  PROVE  Joined(rs) \in AnyGroups
<1> DEFINE cs == Those(rs, {i \in DOMAIN rs : rs[i].comment # <<>>})
           ts == Those(rs, {i \in DOMAIN rs : rs[i].kind = "tag"})
           vs == Those(rs, {i \in DOMAIN rs : rs[i].kind = "value"})
           c == IF cs = <<>> THEN <<>> ELSE cs[1].comment
           tags == FlattenSeq([i \in DOMAIN ts |-> ts[i].rules])
           values == FlattenSeq([i \in DOMAIN vs |-> vs[i].rules])
<1>1. cs \in Seq(Rows) /\ ts \in Seq(Rows) /\ vs \in Seq(Rows)
  BY ThoseFacts
<1>2. Joined(rs) = Group(rs[1].target, SomeEnabled(rs), c, tags, values)
  BY DEF Joined, Select, Map
<1> HIDE DEF cs, ts, vs
<1>3. tags \in Seq(Values) /\ values \in Seq(Values)
  BY <1>1, RulesOfRows
<1>4. c \in Seq(Comments)
  <2>1. CASE cs = <<>>
    BY <2>1
  <2>2. CASE cs # <<>>
    <3>1. cs[1] \in Rows
      BY <1>1, <2>2
    <3> QED BY <2>2, <3>1 DEF Rows
  <2> QED BY <2>1, <2>2
<1>5. rs[1].target \in Targets
  <2>1. rs[1] \in Rows
    OBVIOUS
  <2> QED BY <2>1 DEF Rows
<1>6. SomeEnabled(rs) \in BOOLEAN
  BY DEF SomeEnabled
<1> HIDE DEF c, tags, values
<1> QED BY <1>2, <1>3, <1>4, <1>5, <1>6, GroupIs

LEMMA ImportType ==
  ASSUME NEW rows \in Seq(Rows)
  PROVE  Import(rows) \in Seq(AnyGroups)
<1> DEFINE n == Len(rows)
           ids == [i \in DOMAIN rows |-> i]
           P == {i \in DOMAIN ids : \A j \in 1..(ids[i] - 1) : rows[j].target # rows[ids[i]].target}
           t == Those(ids, P)
           of(i) == Those(rows, {j \in DOMAIN rows : rows[j].target = rows[i].target})
           u == [k \in DOMAIN t |-> Joined(of(t[k]))]
<1>1. Import(rows) = u
  BY DEF Import, ByTarget, Map, Select, Joined
<1>2. ids \in Seq(1..n)
  OBVIOUS
<1> HIDE DEF P, ids
<1>3. t \in Seq(1..n)
  BY <1>2, ThoseFacts
<1>4. ASSUME NEW i \in 1..n PROVE Joined(of(i)) \in AnyGroups
  <2> DEFINE Q == {j \in DOMAIN rows : rows[j].target = rows[i].target}
             w == Those(rows, Q)
  <2>1. i \in Q
    OBVIOUS
  <2> HIDE DEF Q
  <2>2. w \in Seq(Rows) /\ \E e : Picks(e, Len(w), n, Q)
    BY ThoseFacts
  <2>3. w # <<>>
    <3>1. PICK e : Picks(e, Len(w), n, Q)
      BY <2>2
    <3>2. PICK k \in 1..Len(w) : e[k] = i
      BY <2>1, <3>1 DEF Picks
    <3> HIDE DEF w
    <3> QED BY <2>2, <3>2
  <2>4. Joined(w) \in AnyGroups
    BY <2>2, <2>3, JoinedType
  <2> QED BY <2>4 DEF Q
<1> HIDE DEF t, of
<1>5. \A k \in 1..Len(t) : u[k] \in AnyGroups
  BY <1>3, <1>4
<1>6. u = [k \in DOMAIN t |-> u[k]]
  OBVIOUS
<1> HIDE DEF u
<1>7. u \in Seq(AnyGroups)
  BY <1>3, <1>5, <1>6, ListOf
<1> QED BY <1>1, <1>7

-----------------------------------------------------------------------------
(* Comments and the groups of a patch, in texts with lines left out.        *)

(* A comment above a line is one that only comments separate from it. *)
RunAbove(lines, i, j) == j \in 1..(i - 1) /\ \A l \in j..(i - 1) : IsComment(lines[l])

LEMMA InGroupIs ==
  ASSUME NEW S, NEW lines \in Seq(S), NEW i \in 1..Len(lines), NEW c
  PROVE  InGroup(lines, i, c) <=> c = NoComment \/ \E j \in Nat : RunAbove(lines, i, j) /\ lines[j].text = c
<1>1. \A j \in Nat : j \in BlockStart(lines, i)..(i - 1) <=> RunAbove(lines, i, j)
  BY Above DEF RunAbove
<1>2. \A j \in BlockStart(lines, i)..(i - 1) : j \in Nat
  <2>1. BlockStart(lines, i) \in 1..i
    BY Above
  <2> QED BY <2>1
<1> QED BY <1>1, <1>2 DEF InGroup

LEMMA GroupsSame ==
  ASSUME NEW S, NEW lines \in Seq(S), NEW R, NEW new \in Seq(R), NEW i \in 1..Len(lines), i \in 1..Len(new),
         \A l \in 1..(i - 1) : /\ IsComment(new[l]) <=> IsComment(lines[l])
                               /\ IsComment(lines[l]) => new[l].text = lines[l].text,
         NEW c
  PROVE  InGroup(new, i, c) <=> InGroup(lines, i, c)
<1>1. \A j \in Nat : RunAbove(new, i, j) <=> RunAbove(lines, i, j)
  <2> SUFFICES ASSUME NEW j \in Nat PROVE RunAbove(new, i, j) <=> RunAbove(lines, i, j)
    OBVIOUS
  <2>1. j \in 1..(i - 1) => \A l \in j..(i - 1) : l \in 1..(i - 1)
    OBVIOUS
  <2> QED BY <2>1 DEF RunAbove
<1>2. \A j \in Nat : RunAbove(lines, i, j) => IsComment(lines[j]) /\ j \in 1..(i - 1)
  BY DEF RunAbove
<1>3. \A j \in Nat : RunAbove(lines, i, j) => new[j].text = lines[j].text
  BY <1>2
<1> QED BY <1>1, <1>3, InGroupIs

(* A comment goes with the line below it, and stays with it. *)
Tied(lines, gone) ==
  \A a \in 1..(Len(lines) - 1) : IsComment(lines[a]) => (a \in gone <=> a + 1 \in gone)

LEMMA CommentsStay ==
  ASSUME NEW S, NEW lines \in Seq(S), NEW gone, Tied(lines, gone), NEW m \in Nat, NEW e,
         Picks(e, m, Len(lines), (1..Len(lines)) \ gone), NEW q \in 1..m
  PROVE  /\ q + 1 <= m /\ IsComment(lines[e[q]]) => e[q + 1] = e[q] + 1
         /\ e[q] # 1 /\ IsComment(lines[e[q] - 1]) => q # 1 /\ e[q - 1] = e[q] - 1
<1> DEFINE n == Len(lines)
<1>0. n \in Nat
  OBVIOUS
<1>1. /\ \A i \in 1..m : e[i] \in 1..n /\ e[i] \notin gone
      /\ \A i \in 1..n : i \notin gone => \E k \in 1..m : e[k] = i
      /\ \A i, j \in 1..m : i < j => e[i] < e[j]
  BY DEF Picks
<1>2. \A i, j \in 1..m : e[i] < e[j] => i < j
  BY <1>0, PicksOnce
<1> HIDE DEF n
<1>3. ASSUME q + 1 <= m, IsComment(lines[e[q]]) PROVE e[q + 1] = e[q] + 1
  <2>1. q + 1 \in 1..m /\ e[q] < e[q + 1] /\ e[q] \in 1..n /\ e[q + 1] \in 1..n
    BY <1>1, <1>3
  <2>2. e[q] \in 1..(n - 1)
    BY <1>0, <2>1
  <2>3. e[q] + 1 \notin gone
    BY <1>1, <1>3, <2>2 DEF Tied, n
  <2>4. PICK r \in 1..m : e[r] = e[q] + 1
    <3>1. e[q] + 1 \in 1..n
      BY <1>0, <2>2
    <3> QED BY <1>1, <2>3, <3>1
  <2>5. q < r
    BY <1>2, <2>1, <2>4
  <2>6. ~(q + 1 < r)
    <3>1. q + 1 < r => e[q + 1] < e[r]
      BY <1>1, <2>1
    <3> QED BY <2>1, <2>4, <3>1
  <2> QED BY <2>4, <2>5, <2>6
<1>4. ASSUME e[q] # 1, IsComment(lines[e[q] - 1]) PROVE q # 1 /\ e[q - 1] = e[q] - 1
  <2>1. e[q] \in 1..n /\ e[q] - 1 \in 1..(n - 1) /\ e[q] - 1 \in 1..n /\ (e[q] - 1) + 1 = e[q]
    BY <1>0, <1>1, <1>4
  <2>2. e[q] - 1 \notin gone
    BY <1>1, <1>4, <2>1 DEF Tied, n
  <2>3. PICK r \in 1..m : e[r] = e[q] - 1
    BY <1>1, <2>1, <2>2
  <2>4. r < q
    BY <1>2, <2>1, <2>3
  <2>5. ~(r < q - 1)
    <3>1. q - 1 \in Nat /\ (r < q - 1 => q - 1 \in 1..m)
      BY <2>4
    <3>2. r < q - 1 => e[r] < e[q - 1] /\ e[q - 1] < e[q] /\ e[q - 1] \in 1..n
      BY <1>1, <3>1
    <3> QED BY <2>1, <2>3, <3>2
  <2>6. r = q - 1
    BY <2>4, <2>5
  <2> QED BY <2>3, <2>4, <2>6
<1> QED BY <1>3, <1>4

LEMMA RunsStay ==
  ASSUME NEW S, NEW lines \in Seq(S), NEW gone, Tied(lines, gone), NEW m \in Nat, NEW e,
         Picks(e, m, Len(lines), (1..Len(lines)) \ gone), NEW i \in 1..m, NEW d \in Nat
  PROVE  /\ d < e[i] /\ (\A l \in (e[i] - d)..(e[i] - 1) : IsComment(lines[l])) => d < i /\ e[i - d] = e[i] - d
         /\ d < i /\ (\A l \in (i - d)..(i - 1) : IsComment(lines[e[l]])) => d < e[i] /\ e[i - d] = e[i] - d
<1> DEFINE n == Len(lines)
           P(x) == x < e[i] /\ \A l \in (e[i] - x)..(e[i] - 1) : IsComment(lines[l])
           Q(x) == x < i /\ \A l \in (i - x)..(i - 1) : IsComment(lines[e[l]])
           T == {x \in Nat : /\ P(x) => x < i /\ e[i - x] = e[i] - x
                             /\ Q(x) => x < e[i] /\ e[i - x] = e[i] - x}
<1>0. n \in Nat /\ \A k \in 1..m : e[k] \in 1..n
  BY DEF Picks
<1>9. ASSUME NEW q \in 1..m
      PROVE  /\ q + 1 <= m /\ IsComment(lines[e[q]]) => e[q + 1] = e[q] + 1
             /\ e[q] # 1 /\ IsComment(lines[e[q] - 1]) => q # 1 /\ e[q - 1] = e[q] - 1
  BY CommentsStay
<1>1. 0 \in T
  BY <1>0
<1>2. ASSUME NEW x \in T PROVE x + 1 \in T
  <2>0. x \in Nat /\ i \in Nat /\ i <= m /\ e[i] \in Nat
    BY <1>0
  <2>1. ASSUME P(x + 1) PROVE x + 1 < i /\ e[i - (x + 1)] = e[i] - (x + 1)
    <3>1. P(x)
      BY <2>0, <2>1
    <3>2. x < i /\ e[i - x] = e[i] - x
      BY <3>1
    <3>3. i - x \in 1..m /\ e[i - x] # 1 /\ IsComment(lines[e[i - x] - 1])
      <4>1. e[i] - (x + 1) \in (e[i] - (x + 1))..(e[i] - 1) /\ x + 1 < e[i]
        BY <2>0, <2>1
      <4>2. IsComment(lines[e[i] - (x + 1)])
        BY <2>1, <4>1
      <4>3. (e[i] - x) - 1 = e[i] - (x + 1) /\ e[i] - x # 1 /\ i - x \in 1..m
        BY <2>0, <3>2, <4>1
      <4> QED BY <3>2, <4>2, <4>3
    <3> DEFINE q == i - x
    <3>6. q \in 1..m /\ e[q] # 1 /\ IsComment(lines[e[q] - 1])
      BY <3>3
    <3> HIDE DEF q
    <3>7. q # 1 /\ e[q - 1] = e[q] - 1
      BY <1>9, <3>6
    <3>4. i - x # 1 /\ e[(i - x) - 1] = e[i - x] - 1
      BY <3>7 DEF q
    <3>5. (i - x) - 1 = i - (x + 1) /\ (e[i] - x) - 1 = e[i] - (x + 1) /\ x + 1 < i
      BY <2>0, <3>2, <3>4
    <3> QED BY <3>2, <3>4, <3>5
  <2>2. ASSUME Q(x + 1) PROVE x + 1 < e[i] /\ e[i - (x + 1)] = e[i] - (x + 1)
    <3>1. Q(x)
      BY <2>0, <2>2
    <3>2. x < e[i] /\ e[i - x] = e[i] - x
      BY <3>1
    <3> DEFINE q == i - (x + 1)
    <3>3. q \in 1..m /\ q + 1 = i - x /\ q + 1 <= m /\ q \in (i - (x + 1))..(i - 1)
      BY <2>0, <2>2
    <3>4. IsComment(lines[e[q]])
      BY <2>2, <3>3
    <3>5. e[q + 1] = e[q] + 1
      <4> HIDE DEF q
      <4> QED BY <1>9, <3>3, <3>4
    <3>6. e[q] \in Nat /\ e[q] >= 1
      BY <1>0, <3>3
    <3> HIDE DEF q
    <3>7. e[q] = e[i] - (x + 1) /\ x + 1 < e[i]
      <4>1. e[q + 1] = e[i] - x /\ e[i] \in Nat /\ x \in Nat
        BY <2>0, <3>2, <3>3
      <4> QED BY ONLY <4>1, <3>5, <3>6, SMTT(30)
    <3> QED BY <3>7 DEF q
  <2> HIDE DEF P, Q
  <2> QED BY <2>0, <2>1, <2>2
<1>3. T = Nat
  <2> HIDE DEF T
  <2>1. T \subseteq Nat BY DEF T
  <2> QED BY <1>1, <1>2, <2>1, NatSetInduction
<1>4. d \in T
  BY <1>3
<1> QED BY <1>4

(* The comments above a line that is left are left, and no others. *)
LEMMA AboveStays ==
  ASSUME NEW S, NEW lines \in Seq(S), NEW gone, Tied(lines, gone), NEW R, NEW new \in Seq(R), NEW e,
         Picks(e, Len(new), Len(lines), (1..Len(lines)) \ gone),
         \A k \in 1..Len(new) : IsComment(new[k]) <=> IsComment(lines[e[k]]),
         NEW i \in 1..Len(new)
  PROVE  /\ \A j \in Nat : RunAbove(new, i, j) => RunAbove(lines, e[i], e[j])
         /\ \A k \in Nat : RunAbove(lines, e[i], k) => \E j \in Nat : RunAbove(new, i, j) /\ e[j] = k
<1> DEFINE n == Len(lines)
           m == Len(new)
<1>0. n \in Nat /\ m \in Nat /\ e[i] \in 1..n /\ i \in Nat /\ e[i] \in Nat /\ i <= m
  BY DEF Picks
<1>9. ASSUME NEW d \in Nat
      PROVE  /\ d < e[i] /\ (\A l \in (e[i] - d)..(e[i] - 1) : IsComment(lines[l])) => d < i /\ e[i - d] = e[i] - d
             /\ d < i /\ (\A l \in (i - d)..(i - 1) : IsComment(lines[e[l]])) => d < e[i] /\ e[i - d] = e[i] - d
  <2>1. m \in Nat /\ Picks(e, m, Len(lines), (1..Len(lines)) \ gone) /\ i \in 1..m
    BY <1>0
  <2> HIDE DEF m, n
  <2> QED BY <2>1, RunsStay, ZenonT(40)
<1>1. ASSUME NEW j \in Nat, RunAbove(new, i, j) PROVE RunAbove(lines, e[i], e[j])
  <2> DEFINE d == i - j
  <2>1. j \in 1..(i - 1) /\ \A l \in j..(i - 1) : IsComment(new[l])
    BY <1>1 DEF RunAbove
  <2>2. d \in Nat /\ d < i /\ i - d = j /\ d >= 1
    BY <1>0, <2>1
  <2>3. \A x \in Nat : x <= d => \A l \in (i - x)..(i - 1) : l \in j..(i - 1) /\ l \in 1..m
    BY <1>0, <2>1
  <2>4. \A l \in (i - d)..(i - 1) : IsComment(lines[e[l]])
    BY <2>1, <2>2, <2>3
  <2> HIDE DEF d
  <2>5. d < e[i] /\ e[j] = e[i] - d
    BY <1>9, <2>2, <2>4
  <2>6. ASSUME NEW l \in e[j]..(e[i] - 1) PROVE IsComment(lines[l])
    <3> DEFINE x == e[i] - l
    <3>1. x \in Nat /\ x <= d /\ x >= 1 /\ e[i] - x = l
      BY <1>0, <2>2, <2>5
    <3> HIDE DEF x
    <3>2. \A y \in (i - x)..(i - 1) : IsComment(lines[e[y]])
      BY <2>1, <2>3, <3>1
    <3>5. x < i
      BY <1>0, <2>2, <3>1
    <3>3. x < i /\ e[i - x] = e[i] - x
      BY <1>9, <3>1, <3>2, <3>5
    <3>4. i - x \in (i - x)..(i - 1)
      BY <1>0, <3>1, <3>3
    <3> QED BY <3>1, <3>2, <3>3, <3>4
  <2>7. e[j] \in 1..(e[i] - 1) /\ e[j] \in Nat
    BY <1>0, <2>2, <2>5
  <2> QED BY <2>6, <2>7 DEF RunAbove
<1>2. ASSUME NEW k \in Nat, RunAbove(lines, e[i], k) PROVE \E j \in Nat : RunAbove(new, i, j) /\ e[j] = k
  <2> DEFINE d == e[i] - k
             j == i - d
  <2>1. k \in 1..(e[i] - 1) /\ \A l \in k..(e[i] - 1) : IsComment(lines[l])
    BY <1>2 DEF RunAbove
  <2>2. d \in Nat /\ d < e[i] /\ e[i] - d = k /\ d >= 1
    BY <1>0, <2>1
  <2>3. ASSUME NEW x \in Nat, x <= d, x >= 1
        PROVE  x < i /\ e[i - x] = e[i] - x /\ IsComment(lines[e[i - x]])
    <3>1. \A l \in (e[i] - x)..(e[i] - 1) : l \in k..(e[i] - 1)
      BY <1>0, <2>1, <2>3
    <3>2. x < e[i]
      BY <1>0, <2>2, <2>3
    <3>5. \A l \in (e[i] - x)..(e[i] - 1) : IsComment(lines[l])
      BY <2>1, <3>1
    <3>3. x < i /\ e[i - x] = e[i] - x
      <4> HIDE DEF d, j
      <4> QED BY <1>9, <3>2, <3>5
    <3>4. e[i] - x \in (e[i] - x)..(e[i] - 1)
      BY <1>0, <2>3, <3>2
    <3> QED BY <2>1, <3>1, <3>3, <3>4
  <2>4. d < i /\ e[j] = k /\ j \in Nat /\ j \in 1..(i - 1)
    <3>1. d < i /\ e[i - d] = e[i] - d
      <4>1. d <= d
        BY <2>2
      <4> HIDE DEF d, j
      <4> QED BY <2>2, <2>3, <4>1
    <3> QED BY <1>0, <2>2, <3>1
  <2>5. ASSUME NEW l \in j..(i - 1) PROVE IsComment(new[l])
    <3> DEFINE x == i - l
    <3>1. x \in Nat /\ x <= d /\ x >= 1 /\ i - x = l /\ l \in 1..m
      <4> HIDE DEF d
      <4> QED BY <1>0, <2>2, <2>4
    <3> HIDE DEF x, d, j
    <3>2. IsComment(lines[e[l]])
      BY <2>3, <3>1
    <3> QED BY <3>1, <3>2
  <2> HIDE DEF j
  <2> QED BY <2>4, <2>5 DEF RunAbove
<1> QED BY <1>1, <1>2

LEMMA GroupsStay ==
  ASSUME NEW S, NEW lines \in Seq(S), NEW gone, Tied(lines, gone), NEW R, NEW new \in Seq(R), NEW e,
         Picks(e, Len(new), Len(lines), (1..Len(lines)) \ gone),
         \A k \in 1..Len(new) : /\ IsComment(new[k]) <=> IsComment(lines[e[k]])
                                /\ IsComment(new[k]) => new[k].text = lines[e[k]].text,
         NEW i \in 1..Len(new), NEW c
  PROVE  InGroup(new, i, c) <=> InGroup(lines, e[i], c)
<1>0. e[i] \in 1..Len(lines)
  BY DEF Picks
<1>1. /\ \A j \in Nat : RunAbove(new, i, j) => RunAbove(lines, e[i], e[j])
      /\ \A k \in Nat : RunAbove(lines, e[i], k) => \E j \in Nat : RunAbove(new, i, j) /\ e[j] = k
  BY AboveStays
<1>2. ASSUME NEW j \in Nat, RunAbove(new, i, j)
      PROVE  RunAbove(lines, e[i], e[j]) /\ e[j] \in Nat /\ new[j].text = lines[e[j]].text
  <2>1. j \in 1..Len(new) /\ IsComment(new[j])
    BY <1>2 DEF RunAbove
  <2>2. e[j] \in 1..Len(lines)
    BY <2>1 DEF Picks
  <2> QED BY <1>1, <1>2, <2>1, <2>2
<1>3. InGroup(new, i, c) <=> c = NoComment \/ \E j \in Nat : RunAbove(new, i, j) /\ new[j].text = c
  BY InGroupIs
<1>4. InGroup(lines, e[i], c) <=> c = NoComment \/ \E j \in Nat : RunAbove(lines, e[i], j) /\ lines[j].text = c
  BY <1>0, InGroupIs
<1>5. (\E j \in Nat : RunAbove(new, i, j) /\ new[j].text = c)
        <=> \E j \in Nat : RunAbove(lines, e[i], j) /\ lines[j].text = c
  <2>1. ASSUME NEW j \in Nat, RunAbove(new, i, j), new[j].text = c
        PROVE  \E k \in Nat : RunAbove(lines, e[i], k) /\ lines[k].text = c
    BY <1>2, <2>1
  <2>2. ASSUME NEW k \in Nat, RunAbove(lines, e[i], k), lines[k].text = c
        PROVE  \E j \in Nat : RunAbove(new, i, j) /\ new[j].text = c
    <3>1. PICK j \in Nat : RunAbove(new, i, j) /\ e[j] = k
      BY <1>1, <2>2
    <3> QED BY <1>2, <2>2, <3>1
  <2> QED BY <2>1, <2>2
<1> QED BY ONLY <1>3, <1>4, <1>5

-----------------------------------------------------------------------------
(* A rule that is in scope, or is not, and what that does to a repeated     *)
(* patch.                                                                   *)

(* No rule in scope of patch p is what it names: a delete finds nothing. *)
Quiet(f, lines, p) == \A i \in Scope(lines, p) : ~Holds(f, lines, i, p.rule)

(* One in scope is, and none of the target's other groups: an add finds it. *)
Settled(f, lines, p) ==
  /\ ~Duplicate(f, lines, p)
  /\ \E i \in Scope(lines, p) : Holds(f, lines, i, p.rule)

LEMMA ScopeIs ==
  ASSUME NEW S, NEW lines \in Seq(S), NEW p
  PROVE  \A i : /\ i \in Active(lines, p.target) <=>
                     i \in 1..Len(lines) /\ lines[i].kind \in {"rules", "/"} /\ lines[i].target = p.target
                /\ i \in Scope(lines, p) <=> i \in Active(lines, p.target) /\ InGroup(lines, i, p.comment)
BY DEF Scope, Active

(* A text with the same rules in scope, and the same out of it.             *)
LEMMA SettledAsBefore ==
  ASSUME NEW f, NEW lines, NEW new, NEW p,
         Active(new, p.target) = Active(lines, p.target), Scope(new, p) = Scope(lines, p),
         \A i \in Active(lines, p.target) : Holds(f, new, i, p.rule) <=> Holds(f, lines, i, p.rule)
  PROVE  /\ Quiet(f, lines, p) => Quiet(f, new, p)
         /\ Settled(f, lines, p) => Settled(f, new, p)
<1>1. Scope(lines, p) \subseteq Active(lines, p.target)
  BY DEF Scope
<1> QED BY <1>1 DEF Quiet, Settled, Duplicate

LEMMA HoldsDomain ==
  ASSUME NEW lines, NEW i, NEW v, lines[i].kind = "rules", lines[i].rules \in Seq(Values)
  PROVE  Holds("domain", lines, i, v) <=>
           \E k \in 1..Len(lines[i].rules) : Same(lines[i].rules[k], v)
<1>1. RulesOf("domain", lines, i) = lines[i].rules
  BY DEF RulesOf
<1>2. ToSet(lines[i].rules) = {lines[i].rules[k] : k \in 1..Len(lines[i].rules)}
  BY DEF ToSet
<1> QED BY <1>1, <1>2 DEF Holds, Same

LEMMA HoldsCidr ==
  ASSUME NEW lines \in Seq(Lines("cidr")), NEW i \in 1..Len(lines), NEW v, lines[i].kind = "/"
  PROVE  Holds("cidr", lines, i, v) <=> \E k : Listed(lines, i, k) /\ Same(lines[k].rule, v)
<1> DEFINE rules == RulesOf("cidr", lines, i)
<1>0. IsGroup(lines[i])
  BY DEF IsGroup
<1>1. rules \in Seq(Values)
  BY <1>0, BlockEntries
<1>2. PICK e : /\ e \in [1..Len(rules) -> 1..Len(lines)]
               /\ \A j, k \in 1..Len(rules) : j < k => e[j] < e[k]
               /\ \A k \in 1..Len(lines) : Owns(lines, i, k) <=> \E j \in 1..Len(rules) : e[j] = k
               /\ \A k \in 1..Len(rules) : rules[k] = lines[e[k]].rule
  BY <1>0, BlockEntries
<1>3. Holds("cidr", lines, i, v) <=> \E j \in 1..Len(rules) : Same(rules[j], v)
  <2> HIDE DEF rules
  <2>1. ToSet(rules) = {rules[k] : k \in 1..Len(rules)}
    BY <1>1 DEF ToSet
  <2>2. Holds("cidr", lines, i, v) <=> \E w \in ToSet(rules) : Same(v, w)
    BY DEF Holds, rules
  <2> QED BY <2>1, <2>2 DEF Same
<1> HIDE DEF rules
<1>4. ASSUME NEW j \in 1..Len(rules), Same(rules[j], v)
      PROVE  \E k : Listed(lines, i, k) /\ Same(lines[k].rule, v)
  <2>1. e[j] \in 1..Len(lines) /\ Owns(lines, i, e[j]) /\ rules[j] = lines[e[j]].rule
    BY <1>2
  <2> QED BY <1>4, <2>1 DEF Listed
<1>5. ASSUME NEW k, Listed(lines, i, k), Same(lines[k].rule, v)
      PROVE  \E j \in 1..Len(rules) : Same(rules[j], v)
  <2>1. k \in 1..Len(lines) /\ Owns(lines, i, k)
    BY <1>5 DEF Listed
  <2>2. PICK j \in 1..Len(rules) : e[j] = k
    BY <1>2, <2>1
  <2> QED BY <1>2, <1>5, <2>2
<1> QED BY <1>3, <1>4, <1>5

(* What is written reads as it was meant: joining again changes nothing.    *)
LEMMA JoinTwice ==
  ASSUME NEW f \in Files, NEW lines \in Seq(Lines(f)), NEW nl \in BOOLEAN, NEW t, t = Join(lines, nl)
  PROVE  Unchanged(Join(t.lines, t.nl), t)
<1>1. \A ls, b : Text(ls, b).lines = ls /\ Text(ls, b).nl = b
  BY DEF Text
<1>2. ASSUME NEW ls, t = Terminated(ls) PROVE Unchanged(Join(t.lines, t.nl), t)
  <2>1. CASE ls = <<>>
    <3>1. t = NoText
      BY <1>2, <2>1 DEF Terminated
    <3>2. t.lines = <<>>
      BY <3>1, <1>1 DEF NoText
    <3> QED BY <3>1, <3>2 DEF Unchanged, Join
  <2>2. CASE ls = <<Blank>>
    <3>1. t = Newline
      <4>1. <<Blank>> # <<>>
        OBVIOUS
      <4> QED BY <1>2, <2>2, <4>1 DEF Terminated
    <3>2. t.lines = <<>>
      BY <3>1, <1>1 DEF Newline
    <3> QED BY <3>1, <3>2 DEF Unchanged, Join
  <2>3. CASE ls # <<>> /\ ls # <<Blank>>
    <3>1. t = Text(ls, TRUE)
      BY <1>2, <2>3 DEF Terminated
    <3>2. t.lines = ls /\ t.nl = TRUE
      BY <3>1, <1>1
    <3>3. Join(ls, TRUE) = Terminated(ls)
      BY <2>3 DEF Join
    <3> QED BY <1>2, <3>2, <3>3 DEF Unchanged
  <2> QED BY <2>1, <2>2, <2>3
<1>3. CASE lines = <<>>
  <2>1. t = NoText
    BY <1>3 DEF Join
  <2>2. t.lines = <<>>
    BY <2>1, <1>1 DEF NoText
  <2> QED BY <2>1, <2>2 DEF Unchanged, Join
<1>4. CASE lines # <<>> /\ nl
  BY <1>2, <1>4 DEF Join
<1>5. CASE lines # <<>> /\ ~nl /\ Last(lines) = Blank
  BY <1>2, <1>5 DEF Join
<1>6. CASE lines # <<>> /\ ~nl /\ Last(lines) # Blank
  <2>1. t = Text(lines, FALSE)
    BY <1>6 DEF Join
  <2>2. t.lines = lines /\ t.nl = FALSE
    BY <2>1 DEF Text
  <2>3. Join(lines, FALSE) = Text(lines, FALSE)
    BY <1>6 DEF Join
  <2> QED BY <2>1, <2>2, <2>3 DEF Unchanged
<1> QED BY <1>3, <1>4, <1>5, <1>6

LEMMA WithoutNothing ==
  ASSUME NEW S, NEW lines \in Seq(S)
  PROVE  Without(lines, {}) = lines
<1> DEFINE n == Len(lines)
           new == Without(lines, {})
           m == Len(new)
           id == [i \in 1..n |-> i]
<1>1. new \in Seq(S) /\ \E e : Leaves(e, lines, {})
  BY WithoutFacts
<1>2. PICK e : /\ Picks(e, m, n, (1..n) \ {}) /\ \A k \in 1..m : new[k] = lines[e[k]]
  BY <1>1 DEF Leaves
<1>3. n \in Nat /\ m \in Nat
  BY <1>1
<1> HIDE DEF new, m, n
<1>4. Picks(id, n, n, 1..n)
  BY <1>3 DEF Picks
<1> HIDE DEF id
<1>5. m = n /\ e = id
  <2>1. \A i \in Nat : (i \in 1..n /\ i \in (1..n) \ {}) <=> (i \in 1..n /\ i \in 1..n)
    OBVIOUS
  <2> QED BY ONLY <1>2, <1>3, <1>4, <2>1, OneOrder
<1>6. \A k \in 1..n : new[k] = lines[k]
  BY <1>2, <1>5 DEF id
<1>7. new = [k \in 1..n |-> lines[k]] /\ lines = [k \in 1..n |-> lines[k]]
  <2>1. lines = [k \in 1..n |-> lines[k]]
    BY DEF n
  <2>2. new = [k \in 1..m |-> new[k]]
    BY <1>1 DEF m
  <2> QED BY <1>5, <1>6, <2>1, <2>2
<1> QED BY <1>7 DEF new

LEMMA DeletedNothing ==
  ASSUME NEW f \in Files, NEW lines \in Seq(Lines(f)), NEW p \in Patches, Quiet(f, lines, p)
  PROVE  Deleted(f, lines, p) = lines
<1>1. CASE f = "cidr"
  <2> DEFINE hit == {j \in DOMAIN lines :
                       /\ lines[j].kind = "entry" /\ Same(lines[j].rule, p.rule)
                       /\ \E i \in Scope(lines, p) : j \in i..BlockEnd(lines, i)}
  <2>1. ASSUME NEW j \in hit PROVE FALSE
    <3>1. PICK i \in Scope(lines, p) : j \in i..BlockEnd(lines, i)
      OBVIOUS
    <3>2. i \in 1..Len(lines) /\ lines[i].kind = "/"
      BY <1>1, ScopeFacts
    <3>3. j \in i..Len(lines) /\ \A l \in (i + 1)..j : InnerLine(lines[l])
      <4>1. j \in 1..Len(lines)
        OBVIOUS
      <4>2. j \in Nat
        BY <4>1
      <4> HIDE DEF hit
      <4> QED BY <3>1, <3>2, <4>2, InBlock
    <3>4. lines[j].kind = "entry" /\ Same(lines[j].rule, p.rule) /\ j # i
      BY <3>2
    <3>5. j \in (i + 1)..Len(lines) /\ j \in 1..Len(lines)
      <4> HIDE DEF hit
      <4> QED BY <3>2, <3>3, <3>4
    <3>6. Listed(lines, i, j)
      BY <3>2, <3>3, <3>4, <3>5 DEF Listed, Owns
    <3>7. Holds(f, lines, i, p.rule)
      <4> HIDE DEF hit
      <4> QED BY <1>1, <3>2, <3>4, <3>6, HoldsCidr
    <3> QED BY <3>1, <3>7 DEF Quiet
  <2>2. hit = {}
    BY <2>1
  <2> QED BY <1>1, <2>2 DEF Deleted, DeletedCIDR
<1>2. CASE f = "domain"
  <2> DEFINE hit == {i \in Scope(lines, p) : Holds("domain", lines, i, p.rule)}
             other(v) == ~Same(v, p.rule)
             kept(i) == Select(lines[i].rules, other)
             edited == [i \in DOMAIN lines |-> IF i \in hit THEN RulesLine(kept(i), p.target) ELSE lines[i]]
             gone == UNION {Whole(lines, i) : i \in {j \in hit : kept(j) = <<>>}}
  <2>1. Deleted(f, lines, p) = Without(edited, gone)
    BY <1>2 DEF Deleted, DeletedDomain
  <2>2. hit = {}
    BY <1>2 DEF Quiet
  <2> HIDE DEF hit
  <2>3. edited = [i \in DOMAIN lines |-> lines[i]]
    BY <2>2
  <2>4. lines = [i \in DOMAIN lines |-> lines[i]]
    OBVIOUS
  <2>5. gone = {}
    BY <2>2
  <2> HIDE DEF gone, edited
  <2> QED BY <2>1, <2>3, <2>4, <2>5, WithoutNothing
<1> QED BY <1>1, <1>2 DEF Files

-----------------------------------------------------------------------------
(* What is joined again.                                                    *)

(* Blank lines at the end are nobody's. *)
LEMMA PrefixSame ==
  ASSUME NEW f \in Files, NEW lines \in Seq(Lines(f)), NEW m \in 0..Len(lines), NEW new \in Seq(Lines(f)),
         new = SubSeq(lines, 1, m), \A i \in (m + 1)..Len(lines) : lines[i] = Blank, NEW p \in Patches
  PROVE  /\ Quiet(f, lines, p) => Quiet(f, new, p)
         /\ Settled(f, lines, p) => Settled(f, new, p)
<1> DEFINE n == Len(lines)
<1>1. /\ Len(new) = m /\ m \in Nat /\ n \in Nat /\ m <= n
      /\ \A i \in 1..m : i \in 1..n /\ new[i] = lines[i]
  OBVIOUS
<1>2. \A i \in 1..n : lines[i] # Blank => i \in 1..m
  BY <1>1
<1>3. Blank.kind = "blank"
  BY DEF Blank
<1> HIDE DEF n
<1>4. \A i : i \in Active(new, p.target) <=> i \in Active(lines, p.target)
  <2>1. \A i \in 1..n : lines[i].kind \in {"rules", "/"} => i \in 1..m
    BY <1>2, <1>3
  <2>2. \A i : i \in Active(new, p.target) <=>
               i \in 1..m /\ new[i].kind \in {"rules", "/"} /\ new[i].target = p.target
    BY <1>1 DEF Active
  <2>3. \A i : i \in Active(lines, p.target) <=>
               i \in 1..n /\ lines[i].kind \in {"rules", "/"} /\ lines[i].target = p.target
    BY DEF Active, n
  <2> QED BY <1>1, <2>1, <2>2, <2>3
<1>5. ASSUME NEW i \in Active(lines, p.target)
      PROVE  /\ i \in 1..n /\ i \in 1..m /\ new[i] = lines[i]
             /\ InGroup(new, i, p.comment) <=> InGroup(lines, i, p.comment)
             /\ Holds(f, new, i, p.rule) <=> Holds(f, lines, i, p.rule)
  <2>1. i \in 1..n /\ i \in 1..m /\ new[i] = lines[i]
    BY <1>1, <1>2, <1>3, <1>4, ScopeIs DEF n
  <2>2. InGroup(new, i, p.comment) <=> InGroup(lines, i, p.comment)
    <3>1. \A l \in 1..(i - 1) : l \in 1..m
      BY <1>1, <2>1
    <3>2. \A l \in 1..(i - 1) : /\ IsComment(new[l]) <=> IsComment(lines[l])
                                /\ IsComment(lines[l]) => new[l].text = lines[l].text
      BY <1>1, <3>1
    <3>3. i \in 1..Len(lines) /\ i \in 1..Len(new)
      BY <1>1, <2>1 DEF n
    <3> QED BY <3>2, <3>3, GroupsSame
  <2>3. lines[i].kind = (IF f = "cidr" THEN "/" ELSE "rules")
    BY ScopeFacts
  <2>4. Holds(f, new, i, p.rule) <=> Holds(f, lines, i, p.rule)
    <3>4. CASE f = "domain"
      <4>1. lines[i].kind = "rules" /\ lines[i].rules \in Seq(Values)
        <5>1. lines[i] \in Lines(f)
          BY <2>1 DEF n
        <5> QED BY <2>3, <3>4, <5>1, LineKinds
      <4>2. new[i].kind = "rules" /\ new[i].rules = lines[i].rules
        BY <2>1, <4>1
      <4>3. Holds("domain", lines, i, p.rule) <=> \E k \in 1..Len(lines[i].rules) : Same(lines[i].rules[k], p.rule)
        BY <4>1, HoldsDomain
      <4>4. Holds("domain", new, i, p.rule) <=> \E k \in 1..Len(new[i].rules) : Same(new[i].rules[k], p.rule)
        BY <4>1, <4>2, HoldsDomain
      <4> QED BY <3>4, <4>2, <4>3, <4>4
    <3>5. CASE f = "cidr"
      <4>1. ASSUME NEW k PROVE Listed(new, i, k) /\ Same(new[k].rule, p.rule) <=> Listed(lines, i, k) /\ Same(lines[k].rule, p.rule)
        <5>1. k \in 1..n /\ lines[k].kind = "entry" => k \in 1..m
          BY <1>2, <1>3
        <5>2. ASSUME k \in 1..m PROVE Listed(new, i, k) <=> Listed(lines, i, k)
          <6>1. \A l \in (i + 1)..k : l \in 1..m
            BY <1>1, <2>1, <5>2
          <6>2. (\A l \in (i + 1)..k : InnerLine(new[l])) <=> \A l \in (i + 1)..k : InnerLine(lines[l])
            BY <1>1, <6>1
          <6>3. k \in (i + 1)..Len(new) <=> k \in (i + 1)..Len(lines)
            BY <1>1, <2>1, <5>2 DEF n
          <6> QED BY <1>1, <2>1, <5>2, <6>2, <6>3 DEF Listed, Owns, n
        <5>3. /\ Listed(new, i, k) => k \in 1..m
              /\ Listed(lines, i, k) => k \in 1..n /\ lines[k].kind = "entry"
          BY <1>1 DEF Listed, Owns, n
        <5> QED BY <1>1, <5>1, <5>2, <5>3
      <4>2. i \in 1..Len(lines) /\ i \in 1..Len(new) /\ lines[i].kind = "/" /\ new[i].kind = "/"
        BY <1>1, <2>1, <2>3, <3>5 DEF n
      <4>3. /\ Holds("cidr", new, i, p.rule) <=> \E k : Listed(new, i, k) /\ Same(new[k].rule, p.rule)
            /\ Holds("cidr", lines, i, p.rule) <=> \E k : Listed(lines, i, k) /\ Same(lines[k].rule, p.rule)
        BY <3>5, <4>2, HoldsCidr
      <4> QED BY <3>5, <4>1, <4>3
    <3> QED BY <3>4, <3>5 DEF Files
  <2> QED BY <2>1, <2>2, <2>4
<1>6. Active(new, p.target) = Active(lines, p.target)
  BY <1>4
<1>7. Scope(new, p) = Scope(lines, p)
  BY <1>5, <1>6 DEF Scope
<1> QED BY <1>5, <1>6, <1>7, SettledAsBefore

LEMMA JoinSame ==
  ASSUME NEW f \in Files, NEW lines \in Seq(Lines(f)), NEW nl \in BOOLEAN, NEW p \in Patches,
         NEW t, t = Join(lines, nl)
  PROVE  /\ t.lines \in Seq(Lines(f)) /\ Unchanged(Join(t.lines, t.nl), t)
         /\ Quiet(f, lines, p) => Quiet(f, t.lines, p)
         /\ Settled(f, lines, p) => Settled(f, t.lines, p)
<1>1. ButBlanks(f, t, lines)
  BY JoinFacts
<1>2. t.lines \in Seq(Lines(f))
  BY <1>1 DEF ButBlanks, TextsOf
<1>3. PICK m \in 0..Len(lines) : /\ t.lines = SubSeq(lines, 1, m)
                                 /\ \A i \in (m + 1)..Len(lines) : lines[i] = Blank
  BY <1>1 DEF ButBlanks
<1>4. /\ Quiet(f, lines, p) => Quiet(f, t.lines, p)
      /\ Settled(f, lines, p) => Settled(f, t.lines, p)
  BY <1>2, <1>3, PrefixSame
<1> QED BY <1>2, <1>4, JoinTwice

-----------------------------------------------------------------------------
(* Lines that go with their comments.                                       *)

(* Lines that go with all their comments. *)
LEMMA WholeTied ==
  ASSUME NEW S, NEW lines \in Seq(S), NEW B, \A b \in B : b \in 1..Len(lines) /\ ~IsComment(lines[b])
  PROVE  Tied(lines, UNION {Whole(lines, b) : b \in B})
<1> DEFINE gone == UNION {Whole(lines, b) : b \in B}
<1>1. ASSUME NEW b \in B, NEW a \in Nat PROVE a \in Whole(lines, b) <=> a = b \/ RunAbove(lines, b, a)
  <2>1. /\ b \in 1..Len(lines) /\ BlockStart(lines, b) \in 1..b
        /\ a \in BlockStart(lines, b)..(b - 1) <=> RunAbove(lines, b, a)
    BY Above DEF RunAbove
  <2>2. a \in BlockStart(lines, b)..b <=> a = b \/ a \in BlockStart(lines, b)..(b - 1)
    BY <2>1
  <2> QED BY <2>1, <2>2 DEF Whole
<1>2. \A a \in Nat : a \in gone <=> \E b \in B : a = b \/ RunAbove(lines, b, a)
  BY <1>1
<1> HIDE DEF gone
<1> SUFFICES ASSUME NEW a \in 1..(Len(lines) - 1), IsComment(lines[a]) PROVE a \in gone <=> a + 1 \in gone
  BY DEF Tied, gone
<1>3. ASSUME NEW b \in B PROVE (a = b \/ RunAbove(lines, b, a)) <=> (a + 1 = b \/ RunAbove(lines, b, a + 1))
  <2>0. a \in Nat /\ b \in Nat /\ a # b
    OBVIOUS
  <2>1. ASSUME RunAbove(lines, b, a), a + 1 # b PROVE RunAbove(lines, b, a + 1)
    <3>1. a + 1 \in 1..(b - 1) /\ \A l \in (a + 1)..(b - 1) : l \in a..(b - 1)
      BY <2>0, <2>1 DEF RunAbove
    <3> QED BY <2>1, <3>1 DEF RunAbove
  <2>2. ASSUME a + 1 = b PROVE RunAbove(lines, b, a)
    <3>1. a \in 1..(b - 1) /\ \A l \in a..(b - 1) : l = a
      BY <2>0, <2>2
    <3> QED BY <3>1 DEF RunAbove
  <2>3. ASSUME RunAbove(lines, b, a + 1) PROVE RunAbove(lines, b, a)
    <3>1. a + 1 \in 1..(b - 1) /\ \A l \in (a + 1)..(b - 1) : IsComment(lines[l])
      BY <2>3 DEF RunAbove
    <3>2. a \in 1..(b - 1) /\ \A l \in a..(b - 1) : l = a \/ l \in (a + 1)..(b - 1)
      BY <2>0, <3>1
    <3> QED BY <3>1, <3>2 DEF RunAbove
  <2> QED BY <2>0, <2>1, <2>2, <2>3
<1>4. a \in Nat /\ a + 1 \in Nat
  OBVIOUS
<1> QED BY <1>2, <1>3, <1>4

(* What a text without some lines has in scope was in scope. *)
LEMMA WithoutScope ==
  ASSUME NEW S, NEW lines \in Seq(S), NEW gone, Tied(lines, gone), NEW e, Leaves(e, lines, gone), NEW p,
         NEW i \in Scope(Without(lines, gone), p)
  PROVE  /\ i \in 1..Len(Without(lines, gone)) /\ e[i] \in Scope(lines, p) /\ e[i] \in (1..Len(lines)) \ gone
         /\ Without(lines, gone)[i] = lines[e[i]]
<1> DEFINE new == Without(lines, gone)
<1>1. new \in Seq(S)
  BY WithoutFacts
<1>2. /\ Picks(e, Len(new), Len(lines), (1..Len(lines)) \ gone)
      /\ \A k \in 1..Len(new) : new[k] = lines[e[k]]
  BY DEF Leaves
<1>3. i \in Scope(new, p)
  OBVIOUS
<1> HIDE DEF new
<1>4. i \in 1..Len(new) /\ new[i].kind \in {"rules", "/"} /\ new[i].target = p.target /\ InGroup(new, i, p.comment)
  BY <1>1, <1>3 DEF Scope, Active
<1>5. e[i] \in (1..Len(lines)) \ gone
  BY <1>2, <1>4 DEF Picks
<1>6. InGroup(lines, e[i], p.comment)
  <2>1. \A k \in 1..Len(new) : /\ IsComment(new[k]) <=> IsComment(lines[e[k]])
                               /\ IsComment(new[k]) => new[k].text = lines[e[k]].text
    BY <1>2
  <2> QED BY <1>1, <1>2, <1>4, <2>1, GroupsStay
<1>7. e[i] \in Scope(lines, p)
  BY <1>2, <1>4, <1>5, <1>6 DEF Scope, Active
<1> QED BY <1>2, <1>4, <1>5, <1>7 DEF new

(* The rules that a line keeps. *)
LEMMA KeptOthers ==
  ASSUME NEW S, NEW s \in Seq(S), NEW v
  PROVE  LET other(w) == ~Same(w, v)
         IN  /\ Select(s, other) \in Seq(S)
             /\ \A k \in 1..Len(Select(s, other)) : ~Same(Select(s, other)[k], v)
<1> DEFINE other(w) == ~Same(w, v)
           Q == {k \in DOMAIN s : other(s[k])}
           t == Those(s, Q)
<1>1. Select(s, other) = t
  BY DEF Select
<1> HIDE DEF Q
<1>2. t \in Seq(S)
  BY ThoseFacts
<1>3. PICK d : Picks(d, Len(t), Len(s), Q) /\ \A k \in 1..Len(t) : t[k] = s[d[k]]
  BY ThoseFacts
<1> HIDE DEF t
<1>4. ASSUME NEW k \in 1..Len(t) PROVE ~Same(t[k], v)
  <2>1. d[k] \in Q
    BY <1>3 DEF Picks
  <2> QED BY <1>3, <2>1 DEF Q
<1> QED BY <1>1, <1>2, <1>4

-----------------------------------------------------------------------------
(* After a delete nothing is left to delete.                                *)

(* After a delete, no rule of domain.conf in scope is the deleted one.      *)
LEMMA DomainQuiet ==
  ASSUME NEW lines \in Seq(Lines("domain")), NEW p \in Patches
  PROVE  Quiet("domain", Deleted("domain", lines, p), p)
<1> DEFINE hit == {i \in Scope(lines, p) : Holds("domain", lines, i, p.rule)}
           other(v) == ~Same(v, p.rule)
           kept(i) == Select(lines[i].rules, other)
           edited == [i \in DOMAIN lines |-> IF i \in hit THEN RulesLine(kept(i), p.target) ELSE lines[i]]
           empty == {j \in hit : kept(j) = <<>>}
           gone == UNION {Whole(lines, i) : i \in empty}
           n == Len(lines)
           new == Without(edited, gone)
<1>0. /\ "domain" \in Files /\ "domain" # "cidr" /\ n \in Nat /\ DOMAIN lines = 1..n
      /\ \A i \in 1..n : lines[i] \in Lines("domain")
  BY DEF Files
<1>1. Deleted("domain", lines, p) = new
  BY <1>0 DEF Deleted, DeletedDomain
<1>2. \A i \in Scope(lines, p) : /\ i \in 1..n /\ lines[i].kind = "rules" /\ lines[i].target = p.target
                                 /\ lines[i].rules \in Seq(Values)
  <2>1. \A i \in Scope(lines, p) : i \in 1..n /\ lines[i].kind = "rules" /\ lines[i].target = p.target
    BY <1>0, ScopeFacts
  <2> QED BY <1>0, <2>1, LineKinds
<1>3. \A i \in hit : i \in Scope(lines, p)
  OBVIOUS
<1>4. ASSUME NEW i \in hit
      PROVE  kept(i) \in Seq(Values) /\ \A k \in 1..Len(kept(i)) : ~Same(kept(i)[k], p.rule)
  <2>1. lines[i].rules \in Seq(Values)
    BY <1>2, <1>3
  <2> QED BY <2>1, KeptOthers
<1>5. \A i \in Scope(lines, p) : i \notin hit => ~Holds("domain", lines, i, p.rule)
  OBVIOUS
<1> HIDE DEF hit, kept
<1>6. /\ edited \in Seq(Lines("domain")) /\ Len(edited) = n
      /\ \A i \in 1..n : /\ i \in hit => edited[i] = RulesLine(kept(i), p.target)
                         /\ i \notin hit => edited[i] = lines[i]
  <2>1. \A i \in hit : RulesLine(kept(i), p.target) \in Lines("domain")
    BY <1>0, <1>4, PatchFacts, LinesOf
  <2>2. edited \in [1..n -> Lines("domain")]
    BY <1>0, <2>1
  <2>3. \A i \in 1..n : /\ i \in hit => edited[i] = RulesLine(kept(i), p.target)
                        /\ i \notin hit => edited[i] = lines[i]
    BY <1>0
  <2> HIDE DEF edited
  <2> QED BY <1>0, <2>2, <2>3
<1> HIDE DEF edited
<1>7. \A i \in 1..n : /\ edited[i].kind = lines[i].kind
                      /\ IsComment(edited[i]) <=> IsComment(lines[i])
                      /\ IsComment(lines[i]) => edited[i] = lines[i]
                      /\ edited[i].kind \in {"rules", "/"} => edited[i].target = lines[i].target
  <2> SUFFICES ASSUME NEW i \in 1..n
               PROVE  /\ edited[i].kind = lines[i].kind
                      /\ IsComment(lines[i]) => edited[i] = lines[i]
                      /\ edited[i].kind \in {"rules", "/"} => edited[i].target = lines[i].target
    BY DEF IsComment
  <2>1. CASE i \in hit
    <3>1. edited[i].kind = "rules" /\ edited[i].target = p.target
      BY <1>6, <2>1, RulesLineIs
    <3>2. lines[i].kind = "rules" /\ lines[i].target = p.target
      BY <1>2, <1>3, <2>1
    <3> QED BY <3>1, <3>2 DEF IsComment
  <2>2. CASE i \notin hit
    BY <1>6, <2>2
  <2> QED BY <2>1, <2>2
<1>8. Tied(edited, gone)
  <2>1. \A b \in empty : b \in 1..Len(lines) /\ ~IsComment(lines[b])
    BY <1>2, <1>3 DEF IsComment
  <2> HIDE DEF empty
  <2>2. Tied(lines, gone)
    BY <2>1, WholeTied
  <2> HIDE DEF gone
  <2>3. \A a \in 1..(n - 1) : a \in 1..n
    BY <1>0
  <2> QED BY <1>6, <1>7, <2>2, <2>3 DEF Tied
<1> HIDE DEF gone
<1>9. ASSUME NEW i \in Scope(edited, p) PROVE i \in Scope(lines, p)
  <2>1. i \in 1..n /\ edited[i].kind \in {"rules", "/"} /\ edited[i].target = p.target /\ InGroup(edited, i, p.comment)
    BY <1>6 DEF Scope, Active
  <2>2. lines[i].kind \in {"rules", "/"} /\ lines[i].target = p.target
    BY <1>7, <2>1
  <2>3. InGroup(lines, i, p.comment)
    <3>1. \A l \in 1..(i - 1) : l \in 1..n
      BY <1>0, <2>1
    <3>2. \A l \in 1..(i - 1) : /\ IsComment(edited[l]) <=> IsComment(lines[l])
                                /\ IsComment(lines[l]) => edited[l].text = lines[l].text
      BY <1>7, <3>1
    <3>3. i \in 1..Len(lines) /\ i \in 1..Len(edited)
      BY <1>6, <2>1
    <3> QED BY <1>6, <2>1, <3>2, <3>3, GroupsSame
  <2> QED BY <1>0, <2>1, <2>2, <2>3 DEF Scope, Active
<1>10. PICK e : Leaves(e, edited, gone)
  BY <1>6, WithoutFacts
<1>11. ASSUME NEW i \in Scope(new, p) PROVE ~Holds("domain", new, i, p.rule)
  <2>1. e[i] \in Scope(edited, p) /\ new[i] = edited[e[i]]
    BY <1>6, <1>8, <1>10, WithoutScope
  <2>2. e[i] \in Scope(lines, p)
    BY <1>9, <2>1
  <2>3. e[i] \in 1..n /\ lines[e[i]].kind = "rules" /\ lines[e[i]].rules \in Seq(Values)
    BY <1>2, <2>2
  <2> HIDE DEF new
  <2>4. CASE e[i] \in hit
    <3>1. new[i].kind = "rules" /\ new[i].rules = kept(e[i])
      BY <1>6, <2>1, <2>3, <2>4, RulesLineIs
    <3>2. kept(e[i]) \in Seq(Values) /\ \A k \in 1..Len(kept(e[i])) : ~Same(kept(e[i])[k], p.rule)
      BY <1>4, <2>4
    <3>3. Holds("domain", new, i, p.rule) <=> \E k \in 1..Len(new[i].rules) : Same(new[i].rules[k], p.rule)
      BY <3>1, <3>2, HoldsDomain
    <3> QED BY <3>1, <3>2, <3>3
  <2>5. CASE e[i] \notin hit
    <3>1. new[i] = lines[e[i]]
      BY <1>6, <2>1, <2>3, <2>5
    <3>2. Holds("domain", new, i, p.rule) <=> \E k \in 1..Len(new[i].rules) : Same(new[i].rules[k], p.rule)
      BY <2>3, <3>1, HoldsDomain
    <3>3. Holds("domain", lines, e[i], p.rule) <=> \E k \in 1..Len(lines[e[i]].rules) : Same(lines[e[i]].rules[k], p.rule)
      BY <2>3, HoldsDomain
    <3> QED BY <1>5, <2>2, <2>5, <3>1, <3>2, <3>3
  <2> QED BY <2>4, <2>5
<1> QED BY <1>1, <1>11 DEF Quiet

(* Entries go that no comment is above of, as lines of blocks. *)
LEMMA EntriesTied ==
  ASSUME NEW lines \in Seq(Lines("cidr")), NEW hit,
         \A j \in hit : \E i \in 1..Len(lines) : lines[i].kind = "/" /\ Owns(lines, i, j)
  PROVE  Tied(lines, hit)
<1> SUFFICES ASSUME NEW a \in 1..(Len(lines) - 1), IsComment(lines[a]) PROVE a \notin hit /\ a + 1 \notin hit
  BY DEF Tied
<1>1. ASSUME a \in hit PROVE FALSE
  <2>1. lines[a].kind = "entry"
    BY <1>1 DEF Owns
  <2> QED BY <2>1 DEF IsComment
<1>2. ASSUME a + 1 \in hit PROVE FALSE
  <2>1. PICK i \in 1..Len(lines) : lines[i].kind = "/" /\ Owns(lines, i, a + 1)
    BY <1>2
  <2>2. a \in i..(a + 1) /\ \A l \in (i + 1)..(a + 1) : InnerLine(lines[l])
    BY <2>1 DEF Owns
  <2>3. a = i \/ a \in (i + 1)..(a + 1)
    BY <2>2
  <2> QED BY <2>1, <2>2, <2>3 DEF IsComment, InnerLine
<1> QED BY <1>1, <1>2

(* What is left in scope was in scope; what a block in scope lists it listed. *)
LEMMA QuietLeft ==
  ASSUME NEW lines \in Seq(Lines("cidr")), NEW gone, Apart(lines, gone), Tied(lines, gone), NEW p \in Patches,
         \A i \in Scope(lines, p) : \A k : Listed(lines, i, k) /\ k \notin gone => ~Same(lines[k].rule, p.rule)
  PROVE  Quiet("cidr", Without(lines, gone), p)
<1> DEFINE new == Without(lines, gone)
<1>0. "cidr" \in Files
  BY DEF Files
<1>1. new \in Seq(Lines("cidr"))
  BY WithoutFacts
<1>2. PICK e : Leaves(e, lines, gone)
  BY WithoutFacts
<1>3. Picks(e, Len(new), Len(lines), (1..Len(lines)) \ gone)
  BY <1>2 DEF Leaves
<1>4. \A i \in Scope(new, p) : e[i] \in Scope(lines, p)
  BY <1>2, WithoutScope
<1>5. \A i, k : Listed(new, i, k) => OldEntry(lines, new, e, i, k)
  BY <1>2, CidrLeft
<1> HIDE DEF new
<1>6. ASSUME NEW i \in Scope(new, p), Holds("cidr", new, i, p.rule) PROVE FALSE
  <2>1. i \in 1..Len(new) /\ new[i].kind = "/"
    BY <1>0, <1>1, ScopeFacts
  <2>2. PICK k : Listed(new, i, k) /\ Same(new[k].rule, p.rule)
    BY <1>1, <1>6, <2>1, HoldsCidr
  <2>3. Listed(lines, e[i], e[k]) /\ lines[e[k]].rule = new[k].rule
    BY <1>5, <2>2 DEF OldEntry
  <2>4. e[k] \notin gone
    <3>1. k \in 1..Len(new)
      BY <2>2 DEF Listed
    <3> QED BY <1>3, <3>1 DEF Picks
  <2>5. e[i] \in Scope(lines, p)
    BY <1>4
  <2>6. ~Same(lines[e[k]].rule, p.rule)
    BY <2>3, <2>4, <2>5
  <2> QED BY <2>2, <2>3, <2>6 DEF Same
<1> QED BY <1>6 DEF Quiet, new

(* After a delete, no rule of ip.list in scope is the deleted one. *)
LEMMA CidrQuiet ==
  ASSUME NEW lines \in Seq(Lines("cidr")), NEW p \in Patches
  PROVE  Quiet("cidr", Deleted("cidr", lines, p), p)
<1> DEFINE hit == {j \in DOMAIN lines :
                     /\ lines[j].kind = "entry" /\ Same(lines[j].rule, p.rule)
                     /\ \E i \in Scope(lines, p) : j \in i..BlockEnd(lines, i)}
           new == Without(lines, hit)
           gone == UNION {Whole(new, i) : i \in Bares(new, p.target)}
<1>0. "cidr" \in Files
  BY DEF Files
<1>1. Deleted("cidr", lines, p) = IF hit = {} THEN lines ELSE NoEmptyBlocks(new, p.target)
  BY DEF Deleted, DeletedCIDR
<1>2. \A i \in Scope(lines, p) : i \in 1..Len(lines) /\ lines[i].kind = "/"
  BY <1>0, ScopeFacts
<1>3. ASSUME NEW j \in hit
      PROVE  /\ j \in 1..Len(lines) /\ lines[j].kind = "entry"
             /\ \E i \in 1..Len(lines) : lines[i].kind = "/" /\ Owns(lines, i, j)
  <2>1. PICK i \in Scope(lines, p) : j \in i..BlockEnd(lines, i)
    OBVIOUS
  <2>2. j \in 1..Len(lines) /\ lines[j].kind = "entry" /\ j \in Nat
    OBVIOUS
  <2> HIDE DEF hit
  <2>3. i \in 1..Len(lines) /\ lines[i].kind = "/"
    BY <1>2
  <2>4. j \in i..Len(lines) /\ \A l \in (i + 1)..j : InnerLine(lines[l])
    BY <2>1, <2>2, <2>3, InBlock
  <2>5. j # i
    BY <2>2, <2>3
  <2>6. Owns(lines, i, j)
    BY <2>2, <2>3, <2>4, <2>5 DEF Owns
  <2> QED BY <2>2, <2>3, <2>6
<1>4. ASSUME NEW i \in Scope(lines, p), NEW k, Listed(lines, i, k), Same(lines[k].rule, p.rule) PROVE k \in hit
  <2>1. /\ k \in 1..Len(lines) /\ k \in (i + 1)..Len(lines) /\ lines[k].kind = "entry"
        /\ \A l \in (i + 1)..k : InnerLine(lines[l]) /\ i \in 1..Len(lines)
    BY <1>2, <1>4 DEF Listed, Owns
  <2>2. k \in Nat /\ k \in i..Len(lines)
    BY <2>1
  <2>3. k \in i..BlockEnd(lines, i)
    BY <2>1, <2>2, InBlock
  <2> QED BY <1>4, <2>1, <2>3
<1> HIDE DEF hit
<1>5. Apart(lines, hit) /\ Tied(lines, hit)
  <2>1. \A j \in hit : j \in 1..Len(lines) /\ lines[j].kind = "entry"
    BY <1>3
  <2>2. \A j \in hit : \E i \in 1..Len(lines) : lines[i].kind = "/" /\ Owns(lines, i, j)
    BY <1>3
  <2> QED BY <2>1, <2>2, EntriesApart, EntriesTied
<1>6. Quiet("cidr", new, p)
  <2>1. \A i \in Scope(lines, p) : \A k : Listed(lines, i, k) /\ k \notin hit => ~Same(lines[k].rule, p.rule)
    BY <1>4
  <2> QED BY <1>5, <2>1, QuietLeft
<1>7. CASE hit = {}
  <2>1. new = lines
    BY <1>7, WithoutNothing
  <2> HIDE DEF new
  <2> QED BY <1>1, <1>6, <1>7, <2>1
<1>8. CASE hit # {}
  <2>1. new \in Seq(Lines("cidr"))
    BY WithoutFacts
  <2> HIDE DEF new
  <2>2. NoEmptyBlocks(new, p.target) = Without(new, gone) /\ Apart(new, gone)
    BY <2>1, EmptyBlocksApart
  <2>3. Tied(new, gone)
    <3>1. \A b \in Bares(new, p.target) : b \in 1..Len(new) /\ ~IsComment(new[b])
      BY DEF Bares, Active, IsComment
    <3> QED BY <2>1, <3>1, WholeTied
  <2> HIDE DEF gone
  <2>4. ASSUME NEW i \in Scope(new, p), NEW k, Listed(new, i, k) PROVE ~Same(new[k].rule, p.rule)
    <3>1. i \in 1..Len(new) /\ new[i].kind = "/"
      BY <1>0, <2>1, ScopeFacts
    <3>2. ~Holds("cidr", new, i, p.rule)
      BY <1>6 DEF Quiet
    <3> QED BY <2>1, <2>4, <3>1, <3>2, HoldsCidr
  <2>5. Quiet("cidr", Without(new, gone), p)
    BY <2>1, <2>2, <2>3, <2>4, QuietLeft
  <2> QED BY <1>1, <1>8, <2>2, <2>5
<1> QED BY <1>7, <1>8

-----------------------------------------------------------------------------
(* After an add its rule is found.                                          *)

(* One rule more, in scope: it is the only one of the target. *)
LEMMA DomainSettles ==
  ASSUME NEW lines, NEW new \in Seq(Lines("domain")), NEW p \in Patches,
         DomainMore(lines, new, p.target, p.rule), DomainLacks(lines, p.target, p.rule),
         \E i \in Scope(new, p) : Holds("domain", new, i, p.rule)
  PROVE  Settled("domain", new, p)
<1>0. "domain" \in Files /\ "domain" # "cidr"
  BY DEF Files
<1>1. PICK a, b : \A i, k : Place(new, i, k) =>
                    (i = a /\ k = b /\ Added1(new, p.target, p.rule, i, k)) \/ Old(lines, new, i, k)
  BY DEF DomainMore
<1>2. ASSUME NEW i \in Active(new, p.target), Holds("domain", new, i, p.rule) PROVE i = a
  <2>1. i \in 1..Len(new) /\ new[i].kind = "rules" /\ new[i].target = p.target
    BY <1>0, ScopeFacts
  <2>2. new[i].rules \in Seq(Values)
    BY <1>0, <2>1, LineKinds
  <2>3. PICK k \in 1..Len(new[i].rules) : Same(new[i].rules[k], p.rule)
    BY <1>2, <2>1, <2>2, HoldsDomain
  <2>4. Place(new, i, k)
    BY <2>1 DEF Place
  <2>5. ~Old(lines, new, i, k)
    BY <2>1, <2>3 DEF Old, DomainLacks
  <2> QED BY <1>1, <2>4, <2>5
<1>3. \A i \in Scope(new, p) : i \in Active(new, p.target)
  BY DEF Scope
<1>4. PICK N \in Scope(new, p) : Holds("domain", new, N, p.rule)
  OBVIOUS
<1>5. N = a
  BY <1>2, <1>3, <1>4
<1> QED BY <1>2, <1>4, <1>5 DEF Settled, Duplicate

LEMMA CidrSettles ==
  ASSUME NEW lines, NEW new \in Seq(Lines("cidr")), NEW p \in Patches,
         CidrMore(lines, new, p.target, p.rule), CidrLacks(lines, p.target, p.rule),
         \E i \in Scope(new, p) : Holds("cidr", new, i, p.rule)
  PROVE  Settled("cidr", new, p)
<1>0. "cidr" \in Files
  BY DEF Files
<1>1. PICK e, a : \A i, k : Listed(new, i, k) =>
                    \/ k = a /\ NewEntry(new, p.target, p.rule, i, k)
                    \/ k # a /\ OldEntry(lines, new, e, i, k)
  BY DEF CidrMore
<1>2. ASSUME NEW i \in Active(new, p.target), Holds("cidr", new, i, p.rule) PROVE Listed(new, i, a)
  <2>1. i \in 1..Len(new) /\ new[i].kind = "/" /\ new[i].target = p.target
    BY <1>0, ScopeFacts
  <2>2. PICK k : Listed(new, i, k) /\ Same(new[k].rule, p.rule)
    BY <1>2, <2>1, HoldsCidr
  <2>3. ~OldEntry(lines, new, e, i, k)
    BY <2>1, <2>2 DEF OldEntry, CidrLacks
  <2> QED BY <1>1, <2>2, <2>3
(* Only one block has the line. *)
<1>3. ASSUME NEW i, NEW j, Listed(new, i, a), Listed(new, j, a) PROVE i = j
  <2>1. /\ i \in 1..Len(new) /\ new[i].kind = "/" /\ a \in (i + 1)..Len(new)
        /\ j \in 1..Len(new) /\ new[j].kind = "/" /\ a \in (j + 1)..Len(new)
        /\ \A l \in (i + 1)..a : InnerLine(new[l])
        /\ \A l \in (j + 1)..a : InnerLine(new[l])
    BY <1>3 DEF Listed, Owns
  <2>2. i \notin (j + 1)..a /\ j \notin (i + 1)..a
    BY <2>1 DEF InnerLine
  <2> QED BY <2>1, <2>2
<1>4. \A i \in Scope(new, p) : i \in Active(new, p.target)
  BY DEF Scope
<1>5. PICK N \in Scope(new, p) : Holds("cidr", new, N, p.rule)
  OBVIOUS
<1>6. \A i \in Active(new, p.target) : Holds("cidr", new, i, p.rule) => i = N
  BY <1>2, <1>3, <1>4, <1>5
<1> QED BY <1>5, <1>6 DEF Settled, Duplicate

(* New lines at the end are in the group that is asked for. *)
LEMMA NewLinesInScope ==
  ASSUME NEW f \in Files, NEW lines \in Seq(Lines(f)), NEW p \in Patches
  PROVE  LET new == lines \o NewLines(f, p)
         IN  /\ new \in Seq(Lines(f))
             /\ \E i \in Scope(new, p) : Holds(f, new, i, p.rule)
<1> DEFINE n == Len(lines)
           s == NewLines(f, p)
           new == lines \o s
           c == CommentLines(p)
           v == Token(f, p.rule)
           h == IF f = "cidr" THEN Header(p.target) ELSE RulesLine(<<v>>, p.target)
           rest == IF f = "cidr" THEN <<h, Entry(v)>> ELSE <<h>>
           m == Len(c)
           N == n + (m + 1)
<1>1. /\ s \in Seq(Lines(f)) /\ c \in Seq(Lines(f)) /\ s = c \o rest /\ v \in Values /\ Same(v, p.rule)
  <2>1. /\ s \in Seq(Lines(f)) /\ c \in Seq(Lines(f)) /\ v \in Values /\ Same(v, p.rule)
        /\ s = c \o IF f = "cidr" THEN <<Header(p.target), Entry(v)>> ELSE <<RulesLine(<<v>>, p.target)>>
    BY NewLinesFacts
  <2> HIDE DEF s, c, v
  <2> QED BY <2>1
<1>2. \/ p.comment = NoComment
      \/ m = 1 /\ c[1] = Comment(p.comment)
  BY DEF CommentLines
<1>3. /\ h \in Lines(f) /\ h.kind \in {"rules", "/"} /\ h.target = p.target
      /\ f = "cidr" => Entry(v) \in Lines(f) /\ h.kind = "/"
      /\ f # "cidr" => h.kind = "rules" /\ h.rules = <<v>>
  <2> HIDE DEF v
  <2>1. <<v>> \in Seq(Values) /\ p.target \in Targets /\ (f = "domain" <=> f # "cidr")
    BY <1>1, PatchFacts DEF Files
  <2>2. h \in Lines(f) /\ (f = "cidr" => Entry(v) \in Lines(f))
    BY <1>1, <2>1, LinesOf
  <2> QED BY <2>2 DEF Header, RulesLine
<1> HIDE DEF s, c, v, h
<1>4. /\ rest \in Seq(Lines(f)) /\ rest[1] = h
      /\ f = "cidr" => Len(rest) = 2 /\ rest[2] = Entry(v)
      /\ f # "cidr" => Len(rest) = 1
  BY <1>3
<1> HIDE DEF rest, new
<1>5. /\ m \in Nat /\ n \in Nat /\ Len(s) = m + Len(rest)
      /\ \A i \in 1..m : s[i] = c[i]
      /\ \A i \in 1..Len(rest) : s[m + i] = rest[i]
  BY <1>1, <1>4, ConcatFacts
<1>6. /\ new \in Seq(Lines(f)) /\ Len(new) = n + Len(s)
      /\ \A i \in 1..Len(s) : new[n + i] = s[i]
  BY <1>1, ConcatFacts DEF new
<1> HIDE DEF m, n
<1>7. /\ N \in 1..Len(new) /\ new[N] = h
      /\ f = "cidr" => N + 1 \in 1..Len(new) /\ new[N + 1] = Entry(v)
  <2>1. Len(rest) \in {1, 2} /\ m + 1 \in 1..Len(s) /\ s[m + 1] = h
    BY <1>4, <1>5
  <2>2. N \in 1..Len(new) /\ new[N] = h
    BY <1>5, <1>6, <2>1
  <2>3. ASSUME f = "cidr" PROVE N + 1 \in 1..Len(new) /\ new[N + 1] = Entry(v)
    <3>0. Len(rest) = 2 /\ 2 \in 1..2 /\ rest[2] = Entry(v)
      BY <1>4, <2>3
    <3>1. m + 2 \in 1..Len(s) /\ s[m + 2] = Entry(v)
      BY <1>5, <3>0
    <3>2. N + 1 = n + (m + 2)
      BY <1>5
    <3> QED BY <1>5, <1>6, <3>1, <3>2
  <2> QED BY <2>2, <2>3
<1>8. InGroup(new, N, p.comment)
  <2>1. CASE p.comment = NoComment
    BY <2>1 DEF InGroup
  <2>2. CASE m = 1 /\ c[1] = Comment(p.comment)
    <3>1. 1 \in 1..Len(s) /\ s[1] = Comment(p.comment)
      BY <1>4, <1>5, <2>2
    <3>2. n + 1 = N - 1 /\ n + 1 \in 1..(N - 1) /\ new[n + 1] = Comment(p.comment)
      BY <1>5, <1>6, <2>2, <3>1
    <3>3. IsComment(new[n + 1]) /\ new[n + 1].text = p.comment
      BY <3>2 DEF IsComment, Comment
    <3>4. RunAbove(new, N, n + 1)
      BY <1>5, <3>2, <3>3 DEF RunAbove
    <3>5. n + 1 \in Nat
      BY <1>5
    <3> HIDE DEF N
    <3> QED BY <1>6, <1>7, <3>3, <3>4, <3>5, InGroupIs
  <2> QED BY <1>2, <2>1, <2>2
<1>9. N \in Scope(new, p)
  BY <1>3, <1>6, <1>7, <1>8 DEF Scope, Active
<1> HIDE DEF N
<1>10. Holds(f, new, N, p.rule)
  <2>1. CASE f = "cidr"
    <3>1. Entry(v).kind = "entry" /\ Entry(v).rule = v
      BY DEF Entry
    <3>2. N \in Nat /\ N + 1 \in (N + 1)..Len(new)
      BY <1>7, <2>1
    <3>3. \A l \in (N + 1)..(N + 1) : l = N + 1
      BY <3>2
    <3>4. Owns(new, N, N + 1)
      BY <1>7, <2>1, <3>1, <3>2, <3>3 DEF Owns, InnerLine
    <3>5. Listed(new, N, N + 1)
      BY <1>3, <1>7, <2>1, <3>4 DEF Listed
    <3>6. new[N + 1].rule = v /\ new[N].kind = "/"
      BY <1>3, <1>7, <2>1, <3>1
    <3> QED BY <1>1, <1>6, <1>7, <2>1, <3>5, <3>6, HoldsCidr
  <2>2. CASE f = "domain"
    <3>1. new[N].kind = "rules" /\ new[N].rules = <<v>>
      BY <1>3, <1>7, <2>2
    <3>2. <<v>> \in Seq(Values) /\ Len(<<v>>) = 1 /\ <<v>>[1] = v
      BY <1>1
    <3>3. \E k \in 1..Len(new[N].rules) : Same(new[N].rules[k], p.rule)
      BY <1>1, <3>1, <3>2
    <3> QED BY <2>2, <3>1, <3>2, <3>3, HoldsDomain
  <2> QED BY <2>1, <2>2 DEF Files
<1>11. \E i \in Scope(new, p) : Holds(f, new, i, p.rule)
  BY <1>9, <1>10
<1> QED BY <1>6, <1>11 DEF new, s

(* The lines above are the same: the group is as it was. *)
LEMMA StaysInScope ==
  ASSUME NEW f \in Files, NEW lines \in Seq(Lines(f)), NEW new \in Seq(Lines(f)), NEW p \in Patches,
         NEW i \in Scope(lines, p), i \in 1..Len(new),
         \A l \in 1..(i - 1) : new[l] = lines[l],
         new[i].kind \in {"rules", "/"}, new[i].target = p.target
  PROVE  i \in Scope(new, p)
<1>1. i \in 1..Len(lines) /\ InGroup(lines, i, p.comment)
  BY DEF Scope, Active
<1>2. InGroup(new, i, p.comment)
  <2>1. \A l \in 1..(i - 1) : /\ IsComment(new[l]) <=> IsComment(lines[l])
                              /\ IsComment(lines[l]) => new[l].text = lines[l].text
    OBVIOUS
  <2> QED BY <1>1, <2>1, GroupsSame
<1> QED BY <1>2 DEF Scope, Active

LEMMA DomainExtendedInScope ==
  ASSUME NEW lines \in Seq(Lines("domain")), NEW p \in Patches
  PROVE  LET new == Extended("domain", lines, p)
         IN  \E i \in Scope(new, p) : Holds("domain", new, i, p.rule)
<1> DEFINE new == Extended("domain", lines, p)
           scope == Scope(lines, p)
           n == Len(lines)
           v == Token("domain", p.rule)
           j == Least(scope)
           l == RulesLine(Append(lines[j].rules, v), p.target)
<1>0. /\ "domain" \in Files /\ "domain" # "cidr" /\ n \in Nat
      /\ \A i \in 1..n : lines[i] \in Lines("domain")
  BY DEF Files
<1>1. new \in Seq(Lines("domain"))
  BY DomainExtended
<1>2. CASE scope = {}
  <2>1. new = lines \o NewLines("domain", p)
    BY <1>2 DEF Extended
  <2> QED BY <1>0, <2>1, NewLinesInScope
<1>3. CASE scope # {}
  <2>1. v \in Values /\ Same(v, p.rule) /\ p.target \in Targets
    BY <1>0, NewLinesFacts, PatchFacts
  <2>2. \A i \in scope : i \in 1..n /\ lines[i].kind = "rules"
    BY <1>0, ScopeFacts
  <2>3. new = [lines EXCEPT ![j] = l]
    <3>1. new = [lines EXCEPT ![j] = RulesLine(Append(@.rules, v), p.target)]
      BY <1>0, <1>3 DEF Extended
    <3> QED BY <3>1
  <2> HIDE DEF new
  <2>4. j \in scope
    <3>1. scope \subseteq Nat
      <4> HIDE DEF scope
      <4> QED BY <1>0, <2>2
    <3> HIDE DEF scope
    <3> QED BY <1>3, <3>1, LeastIn
  <2> HIDE DEF j, v
  <2>5. j \in 1..n /\ lines[j].rules \in Seq(Values)
    <3>1. j \in 1..n /\ lines[j].kind = "rules"
      BY <2>2, <2>4
    <3> QED BY <1>0, <3>1, LineKinds
  <2>6. /\ Append(lines[j].rules, v) \in Seq(Values)
        /\ Len(Append(lines[j].rules, v)) \in 1..Len(Append(lines[j].rules, v))
        /\ Append(lines[j].rules, v)[Len(Append(lines[j].rules, v))] = v
    <3> DEFINE k == Len(lines[j].rules)
    <3>1. /\ Append(lines[j].rules, v) \in Seq(Values) /\ k \in Nat
          /\ Len(Append(lines[j].rules, v)) = k + 1 /\ Append(lines[j].rules, v)[k + 1] = v
      BY <2>1, <2>5, AppendFacts
    <3>2. k + 1 \in 1..(k + 1)
      BY <3>1
    <3> HIDE DEF k
    <3> QED BY <3>1, <3>2
  <2>7. l.kind = "rules" /\ l.rules = Append(lines[j].rules, v) /\ l.target = p.target
    BY DEF RulesLine
  <2> HIDE DEF l
  <2>8. Len(new) = n /\ new[j] = l /\ \A i \in 1..n : i # j => new[i] = lines[i]
    BY <2>3, <2>5
  <2>9. j \in Scope(new, p)
    <3>1. \A i \in 1..(j - 1) : i \in 1..n /\ i # j
      BY <1>0, <2>5
    <3> QED BY <1>0, <1>1, <2>4, <2>5, <2>7, <2>8, <3>1, StaysInScope
  <2>10. Holds("domain", new, j, p.rule)
    <3>1. new[j].kind = "rules" /\ new[j].rules = Append(lines[j].rules, v)
      BY <2>7, <2>8
    <3>2. new[j].rules \in Seq(Values) /\ \E k \in 1..Len(new[j].rules) : Same(new[j].rules[k], p.rule)
      BY <2>1, <2>6, <3>1
    <3> QED BY <3>1, <3>2, HoldsDomain
  <2> QED BY <2>9, <2>10 DEF new
<1> QED BY <1>2, <1>3

(* The place at of the new entry, in the last block b in scope. *)
LEMMA CidrInserted ==
  ASSUME NEW lines \in Seq(Lines("cidr")), NEW p \in Patches, Scope(lines, p) # {}
  PROVE  LET new == Extended("cidr", lines, p)
             v == Token("cidr", p.rule)
         IN  \E b, at : /\ at \in 1..(Len(lines) + 1) /\ new = InsertAt(lines, at, Entry(v))
                        /\ b \in Scope(new, p) /\ Listed(new, b, at) /\ new[at].rule = v
<1> DEFINE new == Extended("cidr", lines, p)
           scope == Scope(lines, p)
           n == Len(lines)
           v == Token("cidr", p.rule)
           b == Greatest(scope)
           end == BlockEnd(lines, b)
           at == end + 1
<1>0. "cidr" \in Files /\ "cidr" # "domain" /\ n \in Nat
  BY DEF Files
<1>1. new \in Seq(Lines("cidr"))
  BY CidrExtended
<1>2. v \in Values /\ Same(v, p.rule) /\ Entry(v) \in Lines("cidr")
  BY <1>0, NewLinesFacts, LinesOf
<1>3. \A i \in scope : i \in 1..n /\ lines[i].kind = "/" /\ lines[i].target = p.target
  BY <1>0, ScopeFacts
<1>4. new = InsertAt(lines, at, Entry(v))
  BY <1>0 DEF Extended
<1> HIDE DEF new
<1>5. b \in scope
  <2>1. scope # {}
    OBVIOUS
  <2> HIDE DEF scope
  <2>2. scope \subseteq 0..n
    BY <1>0, <1>3
  <2> QED BY <1>0, <2>1, <2>2, GreatestOf
<1> HIDE DEF b, v
<1>6. b \in 1..n /\ lines[b].kind = "/" /\ lines[b].target = p.target
  BY <1>3, <1>5
<1>7. /\ end \in b..n
      /\ \A j \in Nat : j \in b..end <=> j \in b..n /\ \A k \in (b + 1)..j : InnerLine(lines[k])
  BY <1>6, InBlock
<1> HIDE DEF end
<1>8. at \in 1..(n + 1) /\ at - 1 = end /\ at \in (b + 1)..(n + 1)
  BY <1>0, <1>6, <1>7
<1>9. /\ Len(new) = n + 1 /\ new[at] = Entry(v)
      /\ \A i \in 1..(at - 1) : new[i] = lines[i]
  BY <1>2, <1>4, <1>8, InsertFacts
<1> HIDE DEF at, n
<1>10. b \in Scope(new, p)
  <2>1. b \in 1..(at - 1) /\ b \in 1..Len(new) /\ \A i \in 1..(b - 1) : i \in 1..(at - 1)
    BY <1>0, <1>6, <1>8, <1>9
  <2> QED BY <1>0, <1>1, <1>5, <1>6, <1>9, <2>1, StaysInScope
<1>11. Listed(new, b, at) /\ new[at].rule = v /\ new[b].kind = "/" /\ b \in 1..Len(new)
  <2>1. Entry(v).kind = "entry" /\ Entry(v).rule = v
    BY DEF Entry
  <2>2. b \in 1..(at - 1) /\ b \in 1..Len(new) /\ at \in (b + 1)..Len(new) /\ at \in 1..Len(new)
    BY <1>0, <1>6, <1>8, <1>9
  <2>3. ASSUME NEW k \in (b + 1)..at PROVE InnerLine(new[k])
    <3>1. CASE k = at
      BY <1>9, <2>1, <3>1 DEF InnerLine
    <3>2. CASE k # at
      <4>1. k \in b..end /\ k \in 1..(at - 1) /\ k \in (b + 1)..k /\ end \in Nat /\ k \in Nat
        BY <1>0, <1>6, <1>7, <1>8, <3>2
      <4>2. InnerLine(lines[k])
        BY <1>7, <4>1
      <4> QED BY <1>9, <4>1, <4>2
    <3> QED BY <3>1, <3>2
  <2> QED BY <1>6, <1>9, <2>1, <2>2, <2>3 DEF Listed, Owns
<1> QED BY <1>4, <1>8, <1>10, <1>11 DEF new, v, n

LEMMA CidrExtendedInScope ==
  ASSUME NEW lines \in Seq(Lines("cidr")), NEW p \in Patches
  PROVE  LET new == Extended("cidr", lines, p)
         IN  \E i \in Scope(new, p) : Holds("cidr", new, i, p.rule)
<1> DEFINE new == Extended("cidr", lines, p)
           v == Token("cidr", p.rule)
<1>0. "cidr" \in Files
  BY DEF Files
<1>1. new \in Seq(Lines("cidr"))
  BY CidrExtended
<1>2. CASE Scope(lines, p) = {}
  <2>1. new = lines \o NewLines("cidr", p)
    BY <1>2 DEF Extended
  <2> QED BY <1>0, <2>1, NewLinesInScope
<1>3. CASE Scope(lines, p) # {}
  <2>1. PICK b, at : b \in Scope(new, p) /\ Listed(new, b, at) /\ new[at].rule = v
    BY <1>3, CidrInserted
  <2>2. Same(v, p.rule)
    BY <1>0, NewLinesFacts
  <2> HIDE DEF new, v
  <2>3. b \in 1..Len(new) /\ new[b].kind = "/"
    BY <2>1 DEF Listed
  <2>4. Holds("cidr", new, b, p.rule)
    BY <1>1, <2>1, <2>2, <2>3, HoldsCidr
  <2> QED BY <2>1, <2>4 DEF new
<1> QED BY <1>2, <1>3

(* After an add, its rule is in scope and in no other group of the target. *)
LEMMA AddedSettled ==
  ASSUME NEW f \in Files, NEW lines \in Seq(Lines(f)), NEW p \in Patches, ~Duplicate(f, lines, p)
  PROVE  Settled(f, Added(f, lines, p), p)
<1>1. CASE \E i \in Scope(lines, p) : Holds(f, lines, i, p.rule)
  BY <1>1 DEF Added, Settled
<1>2. CASE ~\E i \in Scope(lines, p) : Holds(f, lines, i, p.rule)
  <2> DEFINE new == Extended(f, lines, p)
  <2>1. Added(f, lines, p) = new
    BY <1>2 DEF Added
  <2>2. CASE f = "domain"
    <3>1. DomainLacks(lines, p.target, p.rule)
      BY <1>2, <2>2, FreshDomain
    <3>2. new \in Seq(Lines("domain")) /\ DomainMore(lines, new, p.target, p.rule)
      BY <2>2, DomainExtended
    <3>3. \E i \in Scope(new, p) : Holds("domain", new, i, p.rule)
      BY <2>2, DomainExtendedInScope
    <3> HIDE DEF new
    <3> QED BY <2>1, <2>2, <3>1, <3>2, <3>3, DomainSettles
  <2>3. CASE f = "cidr"
    <3>1. CidrLacks(lines, p.target, p.rule)
      BY <1>2, <2>3, FreshCidr
    <3>2. new \in Seq(Lines("cidr")) /\ CidrMore(lines, new, p.target, p.rule)
      BY <2>3, CidrExtended
    <3>3. \E i \in Scope(new, p) : Holds("cidr", new, i, p.rule)
      BY <2>3, CidrExtendedInScope
    <3> HIDE DEF new
    <3> QED BY <2>1, <2>3, <3>1, <3>2, <3>3, CidrSettles
  <2> QED BY <2>2, <2>3 DEF Files
<1> QED BY <1>1, <1>2

-----------------------------------------------------------------------------
(* The lines of other targets, which texts may have in common.              *)

(* Line a is of a block of target t, or a comment above one. *)
InBlockOf(lines, b, a) ==
  \/ a = b \/ RunAbove(lines, b, a)
  \/ file = "cidr" /\ a \in (b + 1)..Len(lines) /\ \A l \in (b + 1)..a : InnerLine(lines[l])
OfTarget(lines, t, a) == \E b \in Active(lines, t) : InBlockOf(lines, b, a)

(* The places c of the other lines. *)
OtherPlaces(c, lines, t) ==
  /\ Picks(c, Len(Others(lines, t)), Len(lines), {a \in 1..Len(lines) : ~OfTarget(lines, t, a)})
  /\ \A k \in 1..Len(Others(lines, t)) : Others(lines, t)[k] = lines[c[k]]

LEMMA OthersAre ==
  ASSUME file \in Files, NEW lines \in Seq(Lines(file)), NEW t
  PROVE  Others(lines, t) \in Seq(Lines(file)) /\ \E c : OtherPlaces(c, lines, t)
<1> DEFINE n == Len(lines)
           block(i) == Whole(lines, i) \cup i..(IF file = "cidr" THEN BlockEnd(lines, i) ELSE i)
           gone == UNION {block(i) : i \in Active(lines, t)}
           P == (1..n) \ gone
           Q == {a \in 1..n : ~OfTarget(lines, t, a)}
           w == Without(lines, gone)
<1>0. n \in Nat
  OBVIOUS
<1>1. Others(lines, t) = w
  BY DEF Others
<1>2. ASSUME NEW b \in Active(lines, t), NEW a \in 1..n PROVE a \in block(b) <=> InBlockOf(lines, b, a)
  <2>1. b \in 1..n /\ a \in Nat /\ b \in Nat
    BY DEF Active
  <2>2. a \in Whole(lines, b) <=> a = b \/ RunAbove(lines, b, a)
    <3>1. BlockStart(lines, b) \in 1..b /\ (a \in BlockStart(lines, b)..(b - 1) <=> RunAbove(lines, b, a))
      BY <2>1, Above DEF RunAbove
    <3>2. a \in BlockStart(lines, b)..b <=> a = b \/ a \in BlockStart(lines, b)..(b - 1)
      BY <2>1, <3>1
    <3> QED BY <3>1, <3>2 DEF Whole
  <2>3. /\ BlockEnd(lines, b) \in b..n
        /\ a \in b..BlockEnd(lines, b) <=> a \in b..n /\ \A l \in (b + 1)..a : InnerLine(lines[l])
    BY <2>1, InBlock
  <2>4. a \in b..n /\ (\A l \in (b + 1)..a : InnerLine(lines[l]))
          <=> a = b \/ (a \in (b + 1)..n /\ \A l \in (b + 1)..a : InnerLine(lines[l]))
    <3>1. a \in b..n <=> a = b \/ a \in (b + 1)..n
      BY <2>1
    <3>2. \A l \in (b + 1)..b : FALSE
      BY <2>1
    <3> QED BY <3>1, <3>2
  <2>5. a \in b..b <=> a = b
    BY <2>1
  <2>6. CASE file = "cidr"
    BY <2>2, <2>3, <2>4, <2>6 DEF InBlockOf
  <2>7. CASE file # "cidr"
    BY <2>2, <2>5, <2>7 DEF InBlockOf
  <2> QED BY <2>6, <2>7
<1>3. \A a \in 1..n : a \in P <=> a \in Q
  <2> HIDE DEF block
  <2> QED BY <1>2 DEF OfTarget
<1>4. w \in Seq(Lines(file))
  BY WithoutFacts
<1>5. PICK c : Leaves(c, lines, gone)
  BY WithoutFacts
<1>6. Picks(c, Len(w), n, P) /\ \A k \in 1..Len(w) : w[k] = lines[c[k]]
  BY <1>5 DEF Leaves
<1> HIDE DEF w, P, Q, n
<1>7. Picks(c, Len(w), n, Q)
  BY <1>3, <1>6 DEF Picks
<1>8. OtherPlaces(c, lines, t)
  BY <1>1, <1>6, <1>7 DEF OtherPlaces, Q, n
<1> QED BY <1>1, <1>4, <1>8

(* Texts that differ in the lines of a target have the same other lines.    *)
LEMMA OthersSame ==
  ASSUME file \in Files, NEW lines \in Seq(Lines(file)), NEW new \in Seq(Lines(file)), NEW t, NEW gone, NEW e,
         Picks(e, Len(new), Len(lines), (1..Len(lines)) \ gone),
         \A k \in 1..Len(new) : /\ OfTarget(new, t, k) <=> OfTarget(lines, t, e[k])
                                /\ ~OfTarget(new, t, k) => new[k] = lines[e[k]],
         \A a \in 1..Len(lines) : a \in gone => OfTarget(lines, t, a)
  PROVE  Others(new, t) = Others(lines, t)
<1> DEFINE n == Len(lines)
           m == Len(new)
           w == Others(lines, t)
           v == Others(new, t)
           P == {a \in 1..n : ~OfTarget(lines, t, a)}
           Q == {a \in 1..m : ~OfTarget(new, t, a)}
<1>1. w \in Seq(Lines(file)) /\ v \in Seq(Lines(file))
  BY OthersAre
<1>2. PICK c : OtherPlaces(c, lines, t)
  BY OthersAre
<1>3. PICK d : OtherPlaces(d, new, t)
  BY OthersAre
<1>4. /\ Picks(c, Len(w), n, P) /\ \A k \in 1..Len(w) : w[k] = lines[c[k]]
      /\ Picks(d, Len(v), m, Q) /\ \A k \in 1..Len(v) : v[k] = new[d[k]]
  BY <1>2, <1>3 DEF OtherPlaces
<1>5. /\ \A k \in 1..m : e[k] \in 1..n /\ e[k] \notin gone
      /\ \A i \in 1..n : i \notin gone => \E k \in 1..m : e[k] = i
      /\ \A i, j \in 1..m : i < j => e[i] < e[j]
  BY DEF Picks
<1>6. /\ \A k \in 1..m : e[k] \in P <=> k \in Q
      /\ \A k \in Q : k \in 1..m /\ new[k] = lines[e[k]]
      /\ \A a \in P : a \in 1..n /\ a \notin gone
  BY <1>5
<1> DEFINE f == [k \in 1..Len(v) |-> e[d[k]]]
<1>7. n \in Nat /\ m \in Nat /\ Len(v) \in Nat /\ Len(w) \in Nat
  BY <1>1
<1> HIDE DEF n, m, w, v, P, Q
<1>8. /\ \A k \in 1..Len(v) : d[k] \in Q /\ d[k] \in 1..m
      /\ \A k \in Q : \E j \in 1..Len(v) : d[j] = k
      /\ \A i, j \in 1..Len(v) : i < j => d[i] < d[j]
  <2>1. \A k \in Q : k \in 1..m
    BY <1>6
  <2> QED BY <1>4, <2>1 DEF Picks
<1>9. Picks(f, Len(v), n, P)
  <2>1. f \in [1..Len(v) -> 1..n]
    BY <1>5, <1>8
  <2>2. \A k \in 1..Len(v) : f[k] = e[d[k]]
    OBVIOUS
  <2> HIDE DEF f
  <2>3. ASSUME NEW i \in 1..Len(v), NEW j \in 1..Len(v), i < j PROVE f[i] < f[j]
    <3>1. d[i] \in 1..m /\ d[j] \in 1..m /\ d[i] < d[j]
      BY <1>8, <2>3
    <3> QED BY <1>5, <2>2, <3>1
  <2>4. \A k \in 1..Len(v) : f[k] \in P
    BY <1>6, <1>8, <2>2
  <2>5. ASSUME NEW a \in 1..n, a \in P PROVE \E k \in 1..Len(v) : f[k] = a
    <3>1. PICK j \in 1..m : e[j] = a
      BY <1>5, <1>6, <2>5
    <3>2. j \in Q
      BY <1>6, <2>5, <3>1
    <3>3. PICK k \in 1..Len(v) : d[k] = j
      BY <1>8, <3>2
    <3> QED BY <2>2, <3>1, <3>3
  <2> QED BY <2>1, <2>3, <2>4, <2>5 DEF Picks
<1>10. Len(v) = Len(w) /\ f = c
  BY ONLY <1>4, <1>7, <1>9, OneOrder
<1>11. \A k \in 1..Len(w) : v[k] = w[k]
  <2> SUFFICES ASSUME NEW k \in 1..Len(w) PROVE v[k] = w[k]
    OBVIOUS
  <2>1. v[k] = new[d[k]] /\ d[k] \in Q /\ w[k] = lines[c[k]]
    BY <1>4, <1>8, <1>10
  <2>2. c[k] = e[d[k]]
    BY <1>10
  <2> HIDE DEF f
  <2> QED BY <1>6, <2>1, <2>2
<1>12. v = w
  BY <1>1, <1>10, <1>11, SameSequence
<1> QED BY <1>12 DEF v, w

(* Blocks of a target that go do so with their comments, and are empty.     *)
GoesWhole(lines, t, gone) ==
  \A b \in Active(lines, t) : b \in gone =>
    /\ \A a \in Nat : RunAbove(lines, b, a) => a \in gone
    /\ file = "cidr" /\ b + 1 \in 1..Len(lines) => ~InnerLine(lines[b + 1])

(* What is left of the lines of a target is of a block that is left.        *)
LEMMA BlocksStay ==
  ASSUME file \in Files, NEW lines \in Seq(Lines(file)), NEW new \in Seq(Lines(file)), NEW t, NEW gone, NEW e,
         Picks(e, Len(new), Len(lines), (1..Len(lines)) \ gone), \A k \in 1..Len(new) : new[k] = lines[e[k]],
         Tied(lines, gone), GoesWhole(lines, t, gone), file = "cidr" => Apart(lines, gone),
         NEW k \in 1..Len(new)
  PROVE  OfTarget(new, t, k) <=> OfTarget(lines, t, e[k])
<1> DEFINE n == Len(lines)
           m == Len(new)
<1>1. /\ \A j \in 1..m : e[j] \in 1..n /\ e[j] \notin gone
      /\ \A i \in 1..n : i \notin gone => \E j \in 1..m : e[j] = i
      /\ \A i, j \in 1..m : i < j => e[i] < e[j]
      /\ \A j \in 1..m : new[j] = lines[e[j]]
      /\ n \in Nat /\ m \in Nat /\ k \in 1..m
  <2>1. n \in Nat /\ m \in Nat /\ k \in 1..m /\ \A j \in 1..m : new[j] = lines[e[j]]
    OBVIOUS
  <2>2. Picks(e, m, n, (1..n) \ gone)
    OBVIOUS
  <2> HIDE DEF n, m
  <2>3. /\ \A j \in 1..m : e[j] \in 1..n /\ e[j] \notin gone
        /\ \A i \in 1..n : i \notin gone => \E j \in 1..m : e[j] = i
        /\ \A i, j \in 1..m : i < j => e[i] < e[j]
    BY <2>2 DEF Picks
  <2> QED BY <2>1, <2>3
<1>2. /\ \A i, j \in 1..m : e[i] = e[j] => i = j
      /\ \A i, j \in 1..m : e[i] < e[j] => i < j
  <2>1. Picks(e, m, n, (1..n) \ gone) /\ m \in Nat /\ n \in Nat
    BY <1>1
  <2> HIDE DEF n, m
  <2> QED BY ONLY <2>1, PicksOnce
<1>3. ASSUME NEW b \in 1..m
      PROVE  /\ \A j \in Nat : RunAbove(new, b, j) => RunAbove(lines, e[b], e[j])
             /\ \A j \in Nat : RunAbove(lines, e[b], j) => \E i \in Nat : RunAbove(new, b, i) /\ e[i] = j
  <2>1. \A j \in 1..Len(new) : IsComment(new[j]) <=> IsComment(lines[e[j]])
    BY <1>1
  <2> QED BY <2>1, AboveStays
<1>4. \A b \in 1..m : b \in Active(new, t) <=> e[b] \in Active(lines, t)
  BY <1>1 DEF Active
<1>5. ASSUME NEW b \in Active(new, t), InBlockOf(new, b, k) PROVE OfTarget(lines, t, e[k])
  <2>1. b \in 1..m /\ e[b] \in Active(lines, t) /\ b \in Nat /\ k \in Nat
    <3>1. b \in 1..m
      BY DEF Active
    <3> QED BY <1>1, <1>4, <3>1
  <2>2. ASSUME RunAbove(new, b, k) PROVE InBlockOf(lines, e[b], e[k])
    BY <1>3, <2>1, <2>2 DEF InBlockOf
  <2>3. ASSUME file = "cidr", k \in (b + 1)..m, \A l \in (b + 1)..k : InnerLine(new[l])
        PROVE  InBlockOf(lines, e[b], e[k])
    <3>1. e[b] \in (1..n) \ gone /\ e[k] \in (1..n) \ gone /\ e[b] < e[k]
      BY <1>1, <2>1, <2>3
    <3>2. ASSUME NEW l \in ((e[b] + 1)..e[k]) \ gone PROVE InnerLine(lines[l])
      <4>1. l \in 1..n /\ l \notin gone /\ e[b] < l /\ l <= e[k]
        BY <1>1, <3>1
      <4>2. PICK q \in 1..m : e[q] = l
        BY <1>1, <4>1
      <4>3. b < q
        BY <1>2, <2>1, <4>1, <4>2
      <4>4. ~(k < q)
        BY <1>1, <3>1, <4>1, <4>2
      <4>5. q \in (b + 1)..k
        BY <2>1, <4>3, <4>4
      <4> QED BY <1>1, <2>3, <4>2, <4>5
    <3>3. \A l \in (e[b] + 1)..e[k] : InnerLine(lines[l])
      BY <2>3, <3>1, <3>2 DEF Apart
    <3>4. e[k] \in (e[b] + 1)..n
      BY <1>1, <3>1
    <3> QED BY <2>3, <3>3, <3>4 DEF InBlockOf
  <2>4. InBlockOf(lines, e[b], e[k])
    <3>1. k = b => InBlockOf(lines, e[b], e[k])
      BY DEF InBlockOf
    <3> QED BY <1>5, <2>2, <2>3, <3>1 DEF InBlockOf
  <2> QED BY <2>1, <2>4 DEF OfTarget
<1>6. ASSUME NEW b \in Active(lines, t), InBlockOf(lines, b, e[k]) PROVE OfTarget(new, t, k)
  <2>1. b \in 1..n /\ b \in Nat /\ e[k] \in 1..n /\ e[k] \notin gone
    BY <1>1 DEF Active
  <2>2. b \notin gone
    <3> SUFFICES ASSUME b \in gone PROVE FALSE
      OBVIOUS
    <3>1. /\ \A a \in Nat : RunAbove(lines, b, a) => a \in gone
          /\ file = "cidr" /\ b + 1 \in 1..n => ~InnerLine(lines[b + 1])
      BY DEF GoesWhole
    <3>2. e[k] # b /\ ~RunAbove(lines, b, e[k])
      BY <2>1, <3>1
    <3>3. ASSUME file = "cidr", e[k] \in (b + 1)..n, \A l \in (b + 1)..e[k] : InnerLine(lines[l]) PROVE FALSE
      <4>1. b + 1 \in 1..n /\ b + 1 \in (b + 1)..e[k]
        BY <2>1, <3>3
      <4> QED BY <3>1, <3>3, <4>1
    <3>4. /\ e[k] = b \/ RunAbove(lines, b, e[k])
             \/ (file = "cidr" /\ e[k] \in (b + 1)..n /\ \A l \in (b + 1)..e[k] : InnerLine(lines[l]))
      BY <1>6 DEF InBlockOf
    <3> QED BY ONLY <3>2, <3>3, <3>4
  <2>3. PICK j \in 1..m : e[j] = b
    BY <1>1, <2>1, <2>2
  <2>4. j \in Active(new, t) /\ j \in Nat /\ k \in Nat
    BY <1>1, <1>4, <2>3
  <2>5. ASSUME e[k] = b PROVE InBlockOf(new, j, k)
    BY <1>1, <1>2, <2>3, <2>5 DEF InBlockOf
  <2>6. ASSUME RunAbove(lines, b, e[k]) PROVE InBlockOf(new, j, k)
    <3>1. PICK i \in Nat : RunAbove(new, j, i) /\ e[i] = e[k]
      BY <1>3, <2>1, <2>3, <2>6
    <3>2. i \in 1..m
      BY <1>1, <3>1 DEF RunAbove
    <3>3. i = k
      BY <1>1, <1>2, <3>1, <3>2
    <3> QED BY <3>1, <3>3 DEF InBlockOf
  <2>7. ASSUME file = "cidr", e[k] \in (b + 1)..n, \A l \in (b + 1)..e[k] : InnerLine(lines[l])
        PROVE  InBlockOf(new, j, k)
    <3>1. j < k
      BY <1>1, <1>2, <2>1, <2>3, <2>7
    <3>2. ASSUME NEW l \in (j + 1)..k PROVE InnerLine(new[l])
      <4>1. l \in 1..m /\ j < l /\ (l < k \/ l = k)
        BY <1>1, <2>4
      <4>2. e[j] < e[l] /\ (e[l] < e[k] \/ e[l] = e[k]) /\ e[l] \in 1..n
        BY <1>1, <4>1
      <4>3. e[l] \in (b + 1)..e[k]
        BY <2>1, <2>3, <4>2
      <4> QED BY <1>1, <2>7, <4>1, <4>3
    <3>3. k \in (j + 1)..m
      BY <1>1, <2>4, <3>1
    <3> QED BY <2>7, <3>2, <3>3 DEF InBlockOf
  <2>8. InBlockOf(new, j, k)
    BY <1>6, <2>5, <2>6, <2>7 DEF InBlockOf
  <2> QED BY <2>4, <2>8 DEF OfTarget
<1> QED BY <1>5, <1>6 DEF OfTarget

(* Leaving out lines of a target, blocks with their comments.               *)
LEMMA OthersLeft ==
  ASSUME file \in Files, NEW lines \in Seq(Lines(file)), NEW t, NEW gone,
         Tied(lines, gone), GoesWhole(lines, t, gone), file = "cidr" => Apart(lines, gone),
         \A a \in 1..Len(lines) : a \in gone => OfTarget(lines, t, a)
  PROVE  Others(Without(lines, gone), t) = Others(lines, t)
<1> DEFINE new == Without(lines, gone)
<1>1. new \in Seq(Lines(file))
  BY WithoutFacts
<1>2. PICK e : Leaves(e, lines, gone)
  BY WithoutFacts
<1>3. /\ Picks(e, Len(new), Len(lines), (1..Len(lines)) \ gone)
      /\ \A k \in 1..Len(new) : new[k] = lines[e[k]]
  BY <1>2 DEF Leaves
<1> HIDE DEF new
<1>4. \A k \in 1..Len(new) : OfTarget(new, t, k) <=> OfTarget(lines, t, e[k])
  BY <1>1, <1>3, BlocksStay
<1>5. Others(new, t) = Others(lines, t)
  <2>1. \A k \in 1..Len(new) : /\ OfTarget(new, t, k) <=> OfTarget(lines, t, e[k])
                               /\ ~OfTarget(new, t, k) => new[k] = lines[e[k]]
    BY <1>3, <1>4
  <2> QED BY <1>1, <1>3, <2>1, OthersSame
<1> QED BY <1>5 DEF new

-----------------------------------------------------------------------------
(* Patches of domain.conf leave the other lines.                            *)

(* Lines of a target that change, but stay lines of the target. *)
LEMMA OthersEdited ==
  ASSUME file = "domain", NEW lines \in Seq(Lines(file)), NEW new \in Seq(Lines(file)), NEW t,
         Len(new) = Len(lines),
         \A i \in 1..Len(lines) : new[i] # lines[i] => i \in Active(lines, t) /\ i \in Active(new, t)
  PROVE  /\ Others(new, t) = Others(lines, t)
         /\ \A i \in 1..Len(lines) : IsComment(new[i]) <=> IsComment(lines[i])
<1> DEFINE n == Len(lines)
           id == [i \in 1..n |-> i]
           none == {}
<1>0. n \in Nat /\ Len(new) = n /\ file \in Files /\ file # "cidr"
  BY DEF Files
<1>1. \A i \in 1..n : /\ IsComment(new[i]) <=> IsComment(lines[i])
                      /\ i \in Active(new, t) <=> i \in Active(lines, t)
  <2> SUFFICES ASSUME NEW i \in 1..n
               PROVE  /\ IsComment(new[i]) <=> IsComment(lines[i])
                      /\ i \in Active(new, t) <=> i \in Active(lines, t)
    OBVIOUS
  <2>1. CASE new[i] = lines[i]
    BY <1>0, <2>1 DEF Active
  <2>2. CASE new[i] # lines[i]
    BY <2>2 DEF Active, IsComment
  <2> QED BY <2>1, <2>2
<1>2. \A i : i \in Active(new, t) <=> i \in Active(lines, t)
  BY <1>0, <1>1 DEF Active
<1>3. ASSUME NEW b \in Active(lines, t), NEW a \in Nat PROVE RunAbove(new, b, a) <=> RunAbove(lines, b, a)
  <2>1. b \in 1..n
    BY DEF Active
  <2>2. a \in 1..(b - 1) => \A l \in a..(b - 1) : l \in 1..n
    BY <1>0, <2>1
  <2> QED BY <1>1, <2>2 DEF RunAbove
<1>4. \A k \in Nat : OfTarget(new, t, k) <=> OfTarget(lines, t, k)
  <2>1. ASSUME NEW k \in Nat, NEW b \in Active(lines, t) PROVE InBlockOf(new, b, k) <=> InBlockOf(lines, b, k)
    BY <1>0, <1>3 DEF InBlockOf
  <2> QED BY <1>2, <2>1 DEF OfTarget
<1>5. \A k \in 1..n : ~OfTarget(new, t, k) => new[k] = lines[k]
  <2> SUFFICES ASSUME NEW k \in 1..n, new[k] # lines[k] PROVE OfTarget(new, t, k)
    OBVIOUS
  <2> QED BY DEF OfTarget, InBlockOf
<1>6. Picks(id, n, n, (1..n) \ none)
  BY <1>0 DEF Picks
<1>7. \A k \in 1..n : id[k] = k
  OBVIOUS
<1> HIDE DEF id
<1>8. \A k \in 1..Len(new) : /\ OfTarget(new, t, k) <=> OfTarget(lines, t, id[k])
                             /\ ~OfTarget(new, t, k) => new[k] = lines[id[k]]
  BY <1>0, <1>4, <1>5, <1>7
<1>9. Picks(id, Len(new), Len(lines), (1..Len(lines)) \ none)
  BY <1>0, <1>6
<1>10. \A a \in 1..Len(lines) : a \in none => OfTarget(lines, t, a)
  OBVIOUS
<1> HIDE DEF none
<1>11. Others(new, t) = Others(lines, t)
  <2>1. file \in Files /\ lines \in Seq(Lines(file)) /\ new \in Seq(Lines(file))
    BY <1>0
  <2> QED BY ONLY <1>8, <1>9, <1>10, <2>1, OthersSame
<1> QED BY <1>1, <1>11 

(* Lines that go with their comments. *)
LEMMA WholeGoes ==
  ASSUME NEW S, NEW lines \in Seq(S), NEW B, \A b \in B : b \in 1..Len(lines) /\ ~IsComment(lines[b])
  PROVE  LET gone == UNION {Whole(lines, b) : b \in B}
         IN  /\ \A a \in 1..Len(lines) : a \in gone => \E b \in B : a = b \/ RunAbove(lines, b, a)
             /\ \A b \in B, a \in Nat : RunAbove(lines, b, a) => a \in gone
             /\ \A a \in 1..Len(lines) : a \in gone /\ ~IsComment(lines[a]) => a \in B
<1> DEFINE gone == UNION {Whole(lines, b) : b \in B}
<1>1. ASSUME NEW b \in B, NEW a \in Nat PROVE a \in Whole(lines, b) <=> a = b \/ RunAbove(lines, b, a)
  <2>1. /\ b \in 1..Len(lines) /\ BlockStart(lines, b) \in 1..b
        /\ a \in BlockStart(lines, b)..(b - 1) <=> RunAbove(lines, b, a)
    BY Above DEF RunAbove
  <2>2. a \in BlockStart(lines, b)..b <=> a = b \/ a \in BlockStart(lines, b)..(b - 1)
    BY <2>1
  <2> QED BY <2>1, <2>2 DEF Whole
<1>2. \A a \in Nat : a \in gone <=> \E b \in B : a = b \/ RunAbove(lines, b, a)
  BY <1>1
<1> HIDE DEF gone
<1>3. \A a \in 1..Len(lines) : a \in gone => \E b \in B : a = b \/ RunAbove(lines, b, a)
  BY <1>2
<1>4. \A b \in B, a \in Nat : RunAbove(lines, b, a) => a \in gone
  BY <1>2
<1>5. ASSUME NEW a \in 1..Len(lines), a \in gone, ~IsComment(lines[a]) PROVE a \in B
  <2>1. PICK b \in B : a = b \/ RunAbove(lines, b, a)
    BY <1>2, <1>5
  <2>2. RunAbove(lines, b, a) => a \in a..(b - 1) /\ IsComment(lines[a])
    BY DEF RunAbove
  <2> QED BY <1>5, <2>1, <2>2
<1> QED BY <1>3, <1>4, <1>5 DEF gone

LEMMA DomainOthersDeleted ==
  ASSUME file = "domain", NEW lines \in Seq(Lines(file)), NEW p \in Patches
  PROVE  Others(Deleted(file, lines, p), p.target) = Others(lines, p.target)
<1> DEFINE hit == {i \in Scope(lines, p) : Holds("domain", lines, i, p.rule)}
           other(v) == ~Same(v, p.rule)
           kept(i) == Select(lines[i].rules, other)
           edited == [i \in DOMAIN lines |-> IF i \in hit THEN RulesLine(kept(i), p.target) ELSE lines[i]]
           empty == {j \in hit : kept(j) = <<>>}
           gone == UNION {Whole(lines, i) : i \in empty}
           left == UNION {Whole(edited, i) : i \in empty}
           n == Len(lines)
           t == p.target
<1>0. /\ file \in Files /\ file # "cidr" /\ n \in Nat /\ DOMAIN lines = 1..n
      /\ \A i \in 1..n : lines[i] \in Lines(file)
  BY DEF Files
<1>1. Deleted(file, lines, p) = Without(edited, gone)
  BY <1>0 DEF Deleted, DeletedDomain
<1>2. \A i \in hit : i \in Active(lines, t) /\ i \in 1..n /\ lines[i].kind = "rules" /\ lines[i].rules \in Seq(Values)
  <2>1. \A i \in Scope(lines, p) : i \in Active(lines, t) /\ i \in 1..n /\ lines[i].kind = "rules"
    BY <1>0, ScopeFacts
  <2> QED BY <1>0, <2>1, LineKinds
<1> HIDE DEF hit
<1>3. ASSUME NEW i \in hit 
      PROVE  kept(i) \in Seq(Values) /\ \A k \in 1..Len(kept(i)) : ~Same(kept(i)[k], p.rule)
  <2>1. lines[i].rules \in Seq(Values)
    BY <1>2
  <2> QED BY <2>1, KeptOthers
<1> HIDE DEF kept
<1>4. /\ edited \in Seq(Lines(file)) /\ Len(edited) = n
      /\ \A i \in 1..n : /\ i \in hit => edited[i] = RulesLine(kept(i), t)
                         /\ i \notin hit => edited[i] = lines[i]
  <2>1. \A i \in hit : RulesLine(kept(i), t) \in Lines(file)
    BY <1>0, <1>3, PatchFacts, LinesOf
  <2>2. edited \in [1..n -> Lines(file)]
    BY <1>0, <2>1
  <2>3. \A i \in 1..n : /\ i \in hit => edited[i] = RulesLine(kept(i), t)
                        /\ i \notin hit => edited[i] = lines[i]
    BY <1>0
  <2> HIDE DEF edited
  <2> QED BY <1>0, <2>2, <2>3
<1> HIDE DEF edited
<1>5. \A i \in hit : i \in Active(edited, t) /\ edited[i].kind = "rules"
  BY <1>2, <1>4, RulesLineIs DEF Active
<1>6. /\ Others(edited, t) = Others(lines, t)
      /\ \A i \in 1..n : IsComment(edited[i]) <=> IsComment(lines[i])
  <2>1. \A i \in 1..n : edited[i] # lines[i] => i \in Active(lines, t) /\ i \in Active(edited, t)
    BY <1>2, <1>4, <1>5
  <2> HIDE DEF t
  <2> QED BY <1>4, <2>1, OthersEdited
<1>7. gone = left
  <2>1. ASSUME NEW i \in empty PROVE Whole(edited, i) = Whole(lines, i)
    <3>1. i \in 1..n
      BY <1>2
    <3>2. \A j \in 1..(i - 1) : j \in 1..n
      BY <1>0, <3>1
    <3>3. {s \in 1..i : \A j \in s..(i - 1) : IsComment(edited[j])}
            = {s \in 1..i : \A j \in s..(i - 1) : IsComment(lines[j])}
      <4>1. \A s \in 1..i : \A j \in s..(i - 1) : j \in 1..(i - 1)
        BY <1>0, <3>1
      <4> QED BY <1>6, <3>2, <4>1
    <3> QED BY <3>3 DEF Whole, BlockStart
  <2> QED BY <2>1
<1>8. \A b \in empty : b \in 1..Len(edited) /\ ~IsComment(edited[b]) /\ b \in Active(edited, t)
  BY <1>2, <1>4, <1>5 DEF IsComment
<1> HIDE DEF empty
<1>9. Tied(edited, left)
  BY <1>4, <1>8, WholeTied
<1>10. /\ \A a \in 1..Len(edited) : a \in left => \E b \in empty : a = b \/ RunAbove(edited, b, a)
       /\ \A b \in empty, a \in Nat : RunAbove(edited, b, a) => a \in left
       /\ \A a \in 1..Len(edited) : a \in left /\ ~IsComment(edited[a]) => a \in empty
  BY <1>4, <1>8, WholeGoes
<1> HIDE DEF left, gone
<1>11. GoesWhole(edited, t, left)
  <2>1. ASSUME NEW b \in Active(edited, t), b \in left PROVE b \in empty
    <3>1. b \in 1..Len(edited) /\ ~IsComment(edited[b])
      BY DEF Active, IsComment
    <3> QED BY <1>10, <2>1, <3>1
  <2> QED BY <1>0, <1>10, <2>1 DEF GoesWhole
<1>12. \A a \in 1..Len(edited) : a \in left => OfTarget(edited, t, a)
  BY <1>8, <1>10 DEF OfTarget, InBlockOf
<1>13. Others(Without(edited, left), t) = Others(edited, t)
  <2> HIDE DEF t
  <2> QED BY <1>0, <1>4, <1>9, <1>11, <1>12, OthersLeft
<1> QED BY <1>1, <1>6, <1>7, <1>13

LEMMA DomainOthersAdded ==
  ASSUME file = "domain", NEW lines \in Seq(Lines(file)), NEW p \in Patches, Scope(lines, p) # {}
  PROVE  Others(Extended(file, lines, p), p.target) = Others(lines, p.target)
<1> DEFINE new == Extended(file, lines, p)
           scope == Scope(lines, p)
           j == Least(scope)
           l == RulesLine(Append(lines[j].rules, Token(file, p.rule)), p.target)
           n == Len(lines)
<1>0. file \in Files /\ file # "cidr" /\ n \in Nat
  BY DEF Files
<1>1. new \in Seq(Lines(file))
  BY DomainExtended
<1>2. scope \subseteq Active(lines, p.target) /\ Active(lines, p.target) \subseteq 1..n /\ scope # {}
  BY <1>0, ScopeFacts
<1>3. new = [lines EXCEPT ![j] = l]
  <2>1. new = [lines EXCEPT ![j] = RulesLine(Append(@.rules, Token(file, p.rule)), p.target)]
    BY <1>0 DEF Extended
  <2> QED BY <2>1
<1> HIDE DEF new
<1>4. j \in scope
  <2> HIDE DEF scope
  <2>1. scope \subseteq Nat
    BY <1>0, <1>2
  <2> QED BY <1>2, <2>1, LeastIn
<1> HIDE DEF j, scope
<1>5. l.kind = "rules" /\ l.target = p.target
  BY DEF RulesLine
<1> HIDE DEF l
<1>6. j \in Active(lines, p.target) /\ j \in 1..n
  BY <1>2, <1>4
<1>7. Len(new) = n /\ new[j] = l /\ \A i \in 1..n : i # j => new[i] = lines[i]
  BY <1>3, <1>6
<1>8. j \in Active(new, p.target)
  BY <1>5, <1>6, <1>7 DEF Active
<1>9. \A i \in 1..Len(lines) : new[i] # lines[i] => i \in Active(lines, p.target) /\ i \in Active(new, p.target)
  BY <1>6, <1>7, <1>8
<1>10. Others(new, p.target) = Others(lines, p.target)
  BY <1>1, <1>7, <1>9, OthersEdited
<1> QED BY <1>10 DEF new

-----------------------------------------------------------------------------
(* Patches of ip.list leave the other lines.                                *)

(* Entries of a target that are left out. *)
LEMMA EntriesOthers ==
  ASSUME file = "cidr", NEW lines \in Seq(Lines(file)), NEW t, NEW hit,
         \A j \in hit : \E i \in Active(lines, t) : lines[i].kind = "/" /\ Owns(lines, i, j)
  PROVE  Others(Without(lines, hit), t) = Others(lines, t)
<1>0. file \in Files /\ lines \in Seq(Lines(file)) /\ lines \in Seq(Lines("cidr"))
  BY DEF Files
<1>1. \A i \in Active(lines, t) : i \in 1..Len(lines)
  BY DEF Active
<1>2. ASSUME NEW j \in hit
      PROVE  /\ j \in 1..Len(lines) /\ lines[j].kind = "entry"
             /\ \E i \in 1..Len(lines) : lines[i].kind = "/" /\ Owns(lines, i, j)
             /\ OfTarget(lines, t, j)
  <2>1. PICK i \in Active(lines, t) : lines[i].kind = "/" /\ Owns(lines, i, j)
    OBVIOUS
  <2>2. i \in 1..Len(lines)
    BY <1>1
  <2>3. /\ j \in (i + 1)..Len(lines) /\ lines[j].kind = "entry"
        /\ \A l \in (i + 1)..j : InnerLine(lines[l])
    BY <2>1 DEF Owns
  <2>4. j \in 1..Len(lines)
    BY <2>2, <2>3
  <2>5. InBlockOf(lines, i, j)
    BY <2>3 DEF InBlockOf
  <2> QED BY <2>1, <2>2, <2>3, <2>4, <2>5 DEF OfTarget
<1>3. Tied(lines, hit)
  <2>1. \A j \in hit : \E i \in 1..Len(lines) : lines[i].kind = "/" /\ Owns(lines, i, j)
    BY <1>2
  <2> QED BY <1>0, <2>1, EntriesTied
<1>4. Apart(lines, hit)
  <2>1. \A j \in hit : j \in 1..Len(lines) /\ lines[j].kind = "entry"
    BY <1>2
  <2> QED BY <1>0, <2>1, EntriesApart
<1>5. GoesWhole(lines, t, hit)
  <2>1. ASSUME NEW b \in Active(lines, t), b \in hit PROVE FALSE
    <3>1. lines[b].kind = "entry"
      BY <1>2, <2>1
    <3> QED BY <3>1 DEF Active
  <2> QED BY <2>1 DEF GoesWhole
<1>6. \A a \in 1..Len(lines) : a \in hit => OfTarget(lines, t, a)
  BY <1>2
<1> QED BY ONLY <1>0, <1>3, <1>4, <1>5, <1>6, OthersLeft

(* Empty blocks of a target, which go with their comments. *)
LEMMA EmptyOthers ==
  ASSUME file = "cidr", NEW lines \in Seq(Lines(file)), NEW t
  PROVE  Others(NoEmptyBlocks(lines, t), t) = Others(lines, t)
<1> DEFINE B == Bares(lines, t)
           gone == UNION {Whole(lines, b) : b \in B}
<1>0. file \in Files /\ lines \in Seq(Lines(file)) /\ lines \in Seq(Lines("cidr")) /\ Len(lines) \in Nat
  BY DEF Files
<1>1. \A b \in B : b \in Active(lines, t) /\ b \in 1..Len(lines) /\ ~IsComment(lines[b]) /\ BlockEnd(lines, b) = b
  BY DEF Bares, Active, IsComment
<1>2. NoEmptyBlocks(lines, t) = Without(lines, gone) /\ Apart(lines, gone)
  BY <1>0, EmptyBlocksApart
<1> HIDE DEF B
<1>3. ASSUME NEW b \in B, b + 1 \in 1..Len(lines) PROVE ~InnerLine(lines[b + 1])
  <2> SUFFICES ASSUME InnerLine(lines[b + 1]) PROVE FALSE
    OBVIOUS
  <2>1. b \in 1..Len(lines) /\ BlockEnd(lines, b) = b
    BY <1>1
  <2>2. b + 1 \in b..Len(lines) /\ \A l \in (b + 1)..(b + 1) : InnerLine(lines[l])
    BY <1>0, <1>3, <2>1
  <2>3. b + 1 \in b..BlockEnd(lines, b)
    BY <2>1, <2>2, InBlock
  <2> QED BY <2>1, <2>3
<1>4. \A b \in B : b \in 1..Len(lines) /\ ~IsComment(lines[b])
  BY <1>1
<1>5. Tied(lines, gone)
  BY <1>0, <1>4, WholeTied
<1>6. /\ \A a \in 1..Len(lines) : a \in gone => \E b \in B : a = b \/ RunAbove(lines, b, a)
      /\ \A b \in B, a \in Nat : RunAbove(lines, b, a) => a \in gone
      /\ \A a \in 1..Len(lines) : a \in gone /\ ~IsComment(lines[a]) => a \in B
  BY <1>0, <1>4, WholeGoes
<1> HIDE DEF gone
<1>7. GoesWhole(lines, t, gone)
  <2>1. ASSUME NEW b \in Active(lines, t), b \in gone PROVE b \in B
    <3>1. b \in 1..Len(lines) /\ ~IsComment(lines[b])
      BY DEF Active, IsComment
    <3> QED BY <1>6, <2>1, <3>1
  <2> QED BY <1>3, <1>6, <2>1 DEF GoesWhole
<1>8. \A a \in 1..Len(lines) : a \in gone => OfTarget(lines, t, a)
  BY <1>1, <1>6 DEF OfTarget, InBlockOf
<1>9. Others(Without(lines, gone), t) = Others(lines, t)
  BY ONLY <1>0, <1>2, <1>5, <1>7, <1>8, OthersLeft
<1> QED BY <1>2, <1>9

LEMMA CidrOthersDeleted ==
  ASSUME file = "cidr", NEW lines \in Seq(Lines(file)), NEW p \in Patches
  PROVE  Others(Deleted(file, lines, p), p.target) = Others(lines, p.target)
<1> DEFINE hit == {j \in DOMAIN lines :
                     /\ lines[j].kind = "entry" /\ Same(lines[j].rule, p.rule)
                     /\ \E i \in Scope(lines, p) : j \in i..BlockEnd(lines, i)}
           new == Without(lines, hit)
<1>0. file \in Files
  BY DEF Files
<1>1. Deleted(file, lines, p) = IF hit = {} THEN lines ELSE NoEmptyBlocks(new, p.target)
  BY DEF Deleted, DeletedCIDR
<1>2. \A i \in Scope(lines, p) : i \in Active(lines, p.target) /\ i \in 1..Len(lines) /\ lines[i].kind = "/"
  BY <1>0, ScopeFacts
<1>3. ASSUME NEW j \in hit
      PROVE  \E i \in Active(lines, p.target) : lines[i].kind = "/" /\ Owns(lines, i, j)
  <2>1. PICK i \in Scope(lines, p) : j \in i..BlockEnd(lines, i)
    OBVIOUS
  <2>2. j \in 1..Len(lines) /\ lines[j].kind = "entry" /\ j \in Nat
    OBVIOUS
  <2> HIDE DEF hit
  <2>3. i \in 1..Len(lines) /\ lines[i].kind = "/" /\ i \in Active(lines, p.target)
    BY <1>2
  <2>4. j \in i..Len(lines) /\ \A l \in (i + 1)..j : InnerLine(lines[l])
    BY <2>1, <2>2, <2>3, InBlock
  <2>5. j # i
    BY <2>2, <2>3
  <2>6. Owns(lines, i, j)
    BY <2>2, <2>3, <2>4, <2>5 DEF Owns
  <2> QED BY <2>3, <2>6
<1> HIDE DEF hit
<1>4. new \in Seq(Lines(file))
  BY WithoutFacts
<1>5. Others(new, p.target) = Others(lines, p.target)
  <2> DEFINE t == p.target
  <2>1. \A j \in hit : \E i \in Active(lines, t) : lines[i].kind = "/" /\ Owns(lines, i, j)
    BY <1>3
  <2> HIDE DEF t
  <2>2. Others(Without(lines, hit), t) = Others(lines, t)
    BY <2>1, EntriesOthers
  <2> QED BY <2>2 DEF t
<1> HIDE DEF new
<1>6. Others(NoEmptyBlocks(new, p.target), p.target) = Others(new, p.target)
  BY <1>4, EmptyOthers
<1> QED BY <1>1, <1>5, <1>6

(* A line that is inserted and left out again. *)
LEMMA InsertWithout ==
  ASSUME NEW S, NEW s \in Seq(S), NEW x \in S, NEW at \in 1..(Len(s) + 1)
  PROVE  Without(InsertAt(s, at, x), {at}) = s
<1> DEFINE n == Len(s)
           new == InsertAt(s, at, x)
           w == Without(new, {at})
           f == [k \in 1..n |-> IF k < at THEN k ELSE k + 1]
           P == (1..(n + 1)) \ {at}
<1>0. n \in Nat /\ at \in Nat
  OBVIOUS
<1>1. /\ new \in Seq(S) /\ Len(new) = n + 1
      /\ \A i \in 1..(at - 1) : new[i] = s[i]
      /\ \A i \in at..n : new[i + 1] = s[i]
  BY InsertFacts
<1> HIDE DEF new
<1>2. w \in Seq(S)
  BY <1>1, WithoutFacts
<1>3. PICK e : Leaves(e, new, {at})
  BY <1>1, WithoutFacts
<1>4. Picks(e, Len(w), n + 1, P) /\ \A k \in 1..Len(w) : w[k] = new[e[k]]
  BY <1>1, <1>3 DEF Leaves
<1>5. Picks(f, n, n + 1, P)
  <2>1. f \in [1..n -> 1..(n + 1)]
    BY <1>0
  <2>2. \A i \in 1..(n + 1) : i \in P <=> \E k \in 1..n : f[k] = i
    <3> SUFFICES ASSUME NEW i \in 1..(n + 1) PROVE i # at <=> \E k \in 1..n : f[k] = i
      OBVIOUS
    <3>1. ASSUME i < at PROVE i \in 1..n /\ f[i] = i
      BY <1>0, <3>1
    <3>2. ASSUME i > at PROVE i - 1 \in 1..n /\ f[i - 1] = i
      BY <1>0, <3>2
    <3>3. \A k \in 1..n : f[k] # at
      BY <1>0
    <3> HIDE DEF f
    <3> QED BY <1>0, <3>1, <3>2, <3>3
  <2>3. \A j, k \in 1..n : j < k => f[j] < f[k]
    BY <1>0
  <2> QED BY <2>1, <2>2, <2>3 DEF Picks
<1>6. \A k \in 1..n : new[f[k]] = s[k]
  <2> SUFFICES ASSUME NEW k \in 1..n PROVE new[f[k]] = s[k]
    OBVIOUS
  <2>1. CASE k < at
    <3>1. k \in 1..(at - 1) /\ f[k] = k
      BY <1>0, <2>1
    <3> QED BY <1>1, <3>1
  <2>2. CASE ~(k < at)
    <3>1. k \in at..n /\ f[k] = k + 1
      BY <1>0, <2>2
    <3> QED BY <1>1, <3>1
  <2> QED BY <2>1, <2>2
<1> HIDE DEF f, P, w
<1>7. n = Len(w) /\ f = e
  <2>1. Len(w) \in Nat /\ n + 1 \in Nat
    BY <1>0, <1>2
  <2> HIDE DEF n
  <2> QED BY ONLY <1>0, <1>4, <1>5, <2>1, OneOrder
<1>8. \A k \in 1..Len(s) : w[k] = s[k]
  BY <1>4, <1>6, <1>7
<1>9. w = s
  BY <1>2, <1>7, <1>8, SameSequence
<1> QED BY <1>9 DEF w, new

LEMMA CidrOthersAdded ==
  ASSUME file = "cidr", NEW lines \in Seq(Lines(file)), NEW p \in Patches, Scope(lines, p) # {}
  PROVE  Others(Extended(file, lines, p), p.target) = Others(lines, p.target)
<1> DEFINE new == Extended(file, lines, p)
           x == Entry(Token("cidr", p.rule))
           t == p.target
<1>0. file \in Files /\ file = "cidr"
  BY DEF Files
<1>1. PICK b, at : /\ at \in 1..(Len(lines) + 1) /\ new = InsertAt(lines, at, x)
                   /\ b \in Scope(new, p) /\ Listed(new, b, at)
  BY CidrInserted
<1>2. x \in Lines(file)
  <2>1. Token("cidr", p.rule) \in Values
    BY <1>0, NewLinesFacts
  <2> QED BY <1>0, <2>1, LinesOf
<1> HIDE DEF x
<1>3. new \in Seq(Lines(file)) /\ Without(new, {at}) = lines
  <2>1. InsertAt(lines, at, x) \in Seq(Lines(file))
    BY <1>1, <1>2, InsertFacts
  <2>2. Without(InsertAt(lines, at, x), {at}) = lines
    BY <1>1, <1>2, InsertWithout
  <2> QED BY <1>1, <2>1, <2>2
<1> HIDE DEF new
<1>4. b \in Active(new, t) /\ new[b].kind = "/" /\ Owns(new, b, at)
  BY <1>0, <1>1, <1>3, ScopeFacts DEF Listed
<1> HIDE DEF t
<1>5. Others(Without(new, {at}), t) = Others(new, t)
  <2>1. \A j \in {at} : \E i \in Active(new, t) : new[i].kind = "/" /\ Owns(new, i, j)
    BY <1>4
  <2> QED BY <1>3, <2>1, EntriesOthers
<1> QED BY <1>3, <1>5 DEF new, t

-----------------------------------------------------------------------------
(* What a write does to the end of the text.                                *)

(* The text s is t and then k blank lines. *)
BlanksAfter(s, t, k) ==
  /\ Len(s) = Len(t) + k
  /\ \A i \in 1..Len(t) : t[i] = s[i]
  /\ \A i \in (Len(t) + 1)..Len(s) : s[i] = Blank

(* Blank lines at the end are no lines of a target. *)
LEMMA OthersCut ==
  ASSUME file \in Files, NEW lines \in Seq(Lines(file)), NEW t, NEW m \in 0..Len(lines), NEW cut,
         cut = SubSeq(lines, 1, m), \A i \in (m + 1)..Len(lines) : lines[i] = Blank
  PROVE  BlanksAfter(Others(lines, t), Others(cut, t), Len(lines) - m)
<1> DEFINE n == Len(lines)
           was == Others(lines, t)
           is == Others(cut, t)
           q == Len(is)
           P == {a \in 1..n : ~OfTarget(lines, t, a)}
           Q == {a \in 1..m : ~OfTarget(cut, t, a)}
<1>0. /\ n \in Nat /\ m \in Nat /\ m <= n /\ cut \in Seq(Lines(file)) /\ Len(cut) = m
      /\ \A i \in 1..m : cut[i] = lines[i]
  OBVIOUS
<1>1. was \in Seq(Lines(file)) /\ is \in Seq(Lines(file))
  BY <1>0, OthersAre
<1>2. PICK c : OtherPlaces(c, lines, t)
  BY OthersAre
<1>3. PICK d : OtherPlaces(d, cut, t)
  BY <1>0, OthersAre
<1>4. /\ Picks(c, Len(was), n, P) /\ \A k \in 1..Len(was) : was[k] = lines[c[k]]
      /\ Picks(d, q, m, Q) /\ \A k \in 1..q : is[k] = cut[d[k]]
  BY <1>0, <1>2, <1>3 DEF OtherPlaces
<1>5. \A b : b \in Active(cut, t) <=> b \in Active(lines, t)
  <2>1. ASSUME NEW b \in Active(cut, t) PROVE b \in Active(lines, t)
    <3>1. b \in 1..m /\ b \in 1..n /\ cut[b] = lines[b]
      BY <1>0 DEF Active
    <3> QED BY <3>1 DEF Active
  <2>2. ASSUME NEW b \in Active(lines, t) PROVE b \in Active(cut, t)
    <3>1. b \in 1..n /\ lines[b] # Blank
      BY DEF Active, Blank
    <3>2. b \in 1..m
      BY <1>0, <3>1
    <3> QED BY <1>0, <3>2 DEF Active
  <2> QED BY <2>1, <2>2
<1>6. \A b \in Active(lines, t) : b \in 1..m
  BY <1>0, <1>5 DEF Active
<1>7. ASSUME NEW a \in 1..m PROVE OfTarget(cut, t, a) <=> OfTarget(lines, t, a)
  <2>1. ASSUME NEW b \in Active(lines, t) PROVE InBlockOf(cut, b, a) <=> InBlockOf(lines, b, a)
    <3>1. b \in 1..m /\ a \in Nat
      BY <1>6
    <3>2. RunAbove(cut, b, a) <=> RunAbove(lines, b, a)
      <4>1. a \in 1..(b - 1) => \A l \in a..(b - 1) : l \in 1..m
        BY <1>0, <3>1
      <4> QED BY <1>0, <4>1 DEF RunAbove
    <3>3. /\ a \in (b + 1)..m <=> a \in (b + 1)..n
          /\ a \in (b + 1)..n => \A l \in (b + 1)..a : l \in 1..m
      BY <1>0, <3>1
    <3> QED BY <1>0, <3>2, <3>3 DEF InBlockOf
  <2> QED BY <1>5, <2>1 DEF OfTarget
<1>8. ASSUME NEW a \in (m + 1)..n PROVE ~OfTarget(lines, t, a)
  <2> SUFFICES ASSUME NEW b \in Active(lines, t), InBlockOf(lines, b, a) PROVE FALSE
    BY DEF OfTarget
  <2>1. b \in 1..m /\ lines[a] = Blank /\ a \in Nat
    BY <1>0, <1>6
  <2>2. a # b /\ ~RunAbove(lines, b, a)
    BY <1>0, <2>1 DEF RunAbove
  <2>3. a \in (b + 1)..a
    BY <1>0, <2>1
  <2>4. ~InnerLine(lines[a])
    BY <2>1 DEF InnerLine, Blank
  <2> QED BY <2>2, <2>3, <2>4 DEF InBlockOf
<1> DEFINE f == [k \in 1..(q + (n - m)) |-> IF k <= q THEN d[k] ELSE m + (k - q)]
<1>9. q \in Nat /\ Len(was) \in Nat
  BY <1>1
<1>10. /\ \A k \in 1..q : f[k] = d[k] /\ d[k] \in 1..m /\ d[k] \in Q
       /\ \A k \in (q + 1)..(q + (n - m)) : f[k] = m + (k - q) /\ f[k] \in (m + 1)..n
       /\ \A a \in 1..m : a \in Q => \E k \in 1..q : d[k] = a
       /\ \A j, k \in 1..q : j < k => d[j] < d[k]
  <2>0. q + (n - m) \in Nat /\ q <= q + (n - m)
    BY <1>0, <1>9
  <2> HIDE DEF q, n, Q
  <2>1. /\ \A k \in 1..q : d[k] \in 1..m /\ d[k] \in Q
        /\ \A a \in 1..m : a \in Q => \E k \in 1..q : d[k] = a
        /\ \A j, k \in 1..q : j < k => d[j] < d[k]
    BY <1>4 DEF Picks
  <2>2. \A k \in 1..q : f[k] = d[k]
    BY <1>9, <2>0
  <2>3. \A k \in (q + 1)..(q + (n - m)) : f[k] = m + (k - q) /\ f[k] \in (m + 1)..n
    BY <1>0, <1>9, <2>0
  <2> QED BY <2>1, <2>2, <2>3
<1>11. \A a \in 1..n : a \in P <=> a \in Q \/ a \in (m + 1)..n
  BY <1>0, <1>7, <1>8
<1>12. \A k \in 1..(q + (n - m)) : k \in 1..q \/ k \in (q + 1)..(q + (n - m))
  BY <1>0, <1>9
<1>13. f \in [1..(q + (n - m)) -> 1..n]
  <2>1. ASSUME NEW k \in 1..(q + (n - m)) PROVE f[k] \in 1..n
    <3>1. CASE k \in 1..q
      <4>1. f[k] \in 1..m
        BY <1>10, <3>1
      <4> QED BY <1>0, <4>1
    <3>2. CASE k \in (q + 1)..(q + (n - m))
      <4>1. f[k] \in (m + 1)..n
        BY <1>10, <3>2
      <4> QED BY <1>0, <4>1
    <3> QED BY <1>12, <3>1, <3>2
  <2> QED BY <2>1
<1>14. q + (n - m) \in Nat /\ \A a \in Q : a \in 1..m
  BY <1>0, <1>9
<1> HIDE DEF f, P, Q, q, n
<1>15. Picks(f, q + (n - m), n, P)
  <2>1. ASSUME NEW j \in 1..(q + (n - m)), NEW k \in 1..(q + (n - m)), j < k PROVE f[j] < f[k]
    <3>1. CASE k \in 1..q
      <4>1. j \in 1..q
        BY <1>9, <2>1, <3>1
      <4> QED BY <1>10, <2>1, <3>1, <4>1
    <3>2. CASE k \in (q + 1)..(q + (n - m)) /\ j \in 1..q
      <4>1. f[j] \in 1..m /\ f[k] \in (m + 1)..n
        BY <1>10, <3>2
      <4> QED BY <1>0, <4>1
    <3>3. CASE k \in (q + 1)..(q + (n - m)) /\ j \in (q + 1)..(q + (n - m))
      <4>1. f[j] = m + (j - q) /\ f[k] = m + (k - q)
        BY <1>10, <3>3
      <4> QED BY <1>0, <1>9, <2>1, <4>1
    <3> QED BY <1>12, <3>1, <3>2, <3>3
  <2>2. ASSUME NEW k \in 1..(q + (n - m)) PROVE f[k] \in P
    <3>1. f[k] \in 1..n /\ (f[k] \in Q \/ f[k] \in (m + 1)..n)
      BY <1>10, <1>12, <1>13
    <3> QED BY <1>11, <3>1
  <2>3. ASSUME NEW a \in 1..n, a \in P PROVE \E k \in 1..(q + (n - m)) : f[k] = a
    <3>1. CASE a \in Q
      <4>1. PICK k \in 1..q : d[k] = a
        BY <1>10, <1>14, <3>1
      <4>2. k \in 1..(q + (n - m))
        BY <1>0, <1>9
      <4> QED BY <1>10, <4>1, <4>2
    <3>2. CASE a \in (m + 1)..n
      <4> DEFINE k == q + (a - m)
      <4>1. k \in (q + 1)..(q + (n - m)) /\ k \in 1..(q + (n - m)) /\ m + (k - q) = a
        BY <1>0, <1>9, <3>2
      <4> HIDE DEF k
      <4> QED BY <1>10, <4>1
    <3> QED BY <1>11, <2>3, <3>1, <3>2
  <2> QED BY <1>13, <2>1, <2>2, <2>3 DEF Picks
<1> HIDE DEF was, is
<1>16. Len(was) = q + (n - m) /\ c = f
  <2> DEFINE r == q + (n - m)
  <2>1. /\ Picks(c, Len(was), n, P) /\ Picks(f, r, n, P)
        /\ Len(was) \in Nat /\ r \in Nat /\ n \in Nat
    BY <1>0, <1>4, <1>9, <1>14, <1>15
  <2> HIDE DEF r
  <2>2. Len(was) = r /\ c = f
    BY ONLY <2>1, OneOrder
  <2> QED BY <2>2 DEF r
<1>17. \A k \in 1..q : is[k] = was[k]
  <2> SUFFICES ASSUME NEW k \in 1..q PROVE is[k] = was[k]
    OBVIOUS
  <2>1. k \in 1..Len(was)
    BY <1>0, <1>9, <1>16
  <2>2. was[k] = lines[d[k]] /\ d[k] \in 1..m /\ is[k] = cut[d[k]]
    BY <1>4, <1>10, <1>16, <2>1
  <2> QED BY <1>0, <2>2
<1>18. \A k \in (q + 1)..Len(was) : was[k] = Blank
  <2> SUFFICES ASSUME NEW k \in (q + 1)..Len(was) PROVE was[k] = Blank
    OBVIOUS
  <2>1. k \in 1..Len(was) /\ k \in (q + 1)..(q + (n - m))
    BY <1>0, <1>9, <1>16
  <2>2. was[k] = lines[f[k]] /\ f[k] \in (m + 1)..n
    BY <1>4, <1>10, <1>16, <2>1
  <2> QED BY <2>2 DEF n
<1> QED BY <1>16, <1>17, <1>18 DEF q, n, was, is, BlanksAfter

(* Blank lines at the end of a text do not count. *)
LEMMA TrimCut ==
  ASSUME NEW S, NEW was \in Seq(S), NEW is \in Seq(S), Len(is) <= Len(was),
         \A k \in 1..Len(is) : is[k] = was[k], \A k \in (Len(is) + 1)..Len(was) : was[k] = Blank
  PROVE  TrimEnd(is) = TrimEnd(was)
<1> DEFINE more(s) == {i \in DOMAIN s : s[i] # Blank}
           g == Greatest(more(was))
<1>1. more(is) = more(was)
  OBVIOUS
<1>2. CASE more(was) = {}
  BY <1>1, <1>2 DEF TrimEnd
<1>3. CASE more(was) # {}
  <2>1. more(was) \subseteq 0..Len(is)
    BY <1>1
  <2>2. Len(is) \in Nat /\ more(was) \subseteq 1..Len(is)
    BY <1>1
  <2>3. TrimEnd(is) = SubSeq(is, 1, g) /\ TrimEnd(was) = SubSeq(was, 1, g)
    BY <1>1, <1>3 DEF TrimEnd
  <2>4. g \in 1..Len(is)
    <3> HIDE DEF more
    <3> QED BY <1>3, <2>1, <2>2, GreatestOf
  <2> HIDE DEF g, more
  <2>5. SubSeq(is, 1, g) = SubSeq(was, 1, g)
    <3>1. /\ SubSeq(is, 1, g) \in Seq(S) /\ SubSeq(was, 1, g) \in Seq(S)
          /\ Len(SubSeq(is, 1, g)) = g /\ Len(SubSeq(was, 1, g)) = g
          /\ \A k \in 1..g : SubSeq(is, 1, g)[k] = is[k] /\ SubSeq(was, 1, g)[k] = was[k]
      BY <2>4
    <3>2. \A k \in 1..g : is[k] = was[k]
      BY <2>4
    <3> HIDE DEF g
    <3> QED BY <3>1, <3>2, SameSequence
  <2> QED BY <2>3, <2>5
<1> QED BY <1>2, <1>3

(* What is written keeps the end of the last line. *)
LEMMA JoinKeepsEnd ==
  ASSUME NEW f \in Files, NEW lines \in Seq(Lines(f)), NEW nl \in BOOLEAN
  PROVE  /\ Join(lines, nl).lines = lines /\ lines # <<>> => Join(lines, nl).nl = nl
         /\ lines # <<>> /\ Last(lines) # Blank => Join(lines, nl) = Text(lines, nl)
<1>0. \A ls, e : Text(ls, e).lines = ls /\ Text(ls, e).nl = e
  BY DEF Text
<1>1. CASE lines = <<>>
  BY <1>1
<1>2. CASE lines # <<>> /\ nl
  <2>1. Join(lines, nl) = Terminated(lines)
    BY <1>2 DEF Join
  <2>2. Terminated(lines).nl
    BY <1>0, <1>2 DEF Terminated, Newline
  <2>3. Last(<<Blank>>) = Blank
    BY DEF Last
  <2>4. Last(lines) # Blank => Terminated(lines) = Text(lines, TRUE)
    BY <1>2, <2>3 DEF Terminated
  <2> QED BY <1>2, <2>1, <2>2, <2>4
<1>3. CASE lines # <<>> /\ ~nl /\ Last(lines) = Blank
  <2>1. Join(lines, nl) = Terminated(Front(lines))
    BY <1>3 DEF Join
  <2>2. Front(lines) = SubSeq(lines, 1, Len(lines) - 1) /\ Len(lines) \in Nat \ {0}
    BY <1>3 DEF Front
  <2>3. Front(lines) \in Seq(Lines(f)) /\ Len(Front(lines)) = Len(lines) - 1
    <3> DEFINE k == Len(lines) - 1
    <3>1. k \in 0..Len(lines) /\ Front(lines) = SubSeq(lines, 1, k)
      BY <2>2
    <3> HIDE DEF k
    <3>2. Front(lines) \in Seq(Lines(f)) /\ Len(Front(lines)) = k
      BY <3>1
    <3> QED BY <3>2 DEF k
  <2>4. Terminated(Front(lines)).lines \in {Front(lines), <<>>}
    BY <1>0 DEF Terminated, NoText, Newline
  <2>5. Front(lines) # lines /\ <<>> # lines
    BY <1>3, <2>3
  <2> QED BY <1>3, <2>1, <2>4, <2>5
<1>4. CASE lines # <<>> /\ ~nl /\ Last(lines) # Blank
  <2>1. Join(lines, nl) = Text(lines, FALSE)
    BY <1>4 DEF Join
  <2> QED BY <1>0, <1>4, <2>1
<1> QED BY <1>1, <1>2, <1>3, <1>4

LEMMA OthersJoined ==
  ASSUME file \in Files, NEW lines \in Seq(Lines(file)), NEW nl \in BOOLEAN, NEW t, NEW j, j = Join(lines, nl)
  PROVE  LET was == Others(lines, t)
             is == Others(j.lines, t)
         IN  /\ TrimEnd(is) = TrimEnd(was)
             /\ BlankAtEnd(was) \/ (is = was /\ (j.nl = nl \/ is = <<>>))
<1> DEFINE was == Others(lines, t)
           is == Others(j.lines, t)
<1>1. j.lines \in Seq(Lines(file))
  BY JoinFacts DEF ButBlanks, TextsOf
<1>2. PICK m \in 0..Len(lines) : /\ j.lines = SubSeq(lines, 1, m)
                                 /\ \A i \in (m + 1)..Len(lines) : lines[i] = Blank
  BY JoinFacts DEF ButBlanks
<1>3. was \in Seq(Lines(file)) /\ is \in Seq(Lines(file))
  BY <1>1, OthersAre
<1>4. /\ Len(was) = Len(is) + (Len(lines) - m)
      /\ \A k \in 1..Len(is) : is[k] = was[k]
      /\ \A k \in (Len(is) + 1)..Len(was) : was[k] = Blank
  <2> DEFINE cut == j.lines
  <2>1. cut = SubSeq(lines, 1, m) /\ \A i \in (m + 1)..Len(lines) : lines[i] = Blank
    BY <1>2
  <2> HIDE DEF cut
  <2>2. BlanksAfter(Others(lines, t), Others(cut, t), Len(lines) - m)
    BY <1>2, <2>1, OthersCut
  <2> QED BY <2>2 DEF cut, BlanksAfter
<1>5. lines = <<>> => was = <<>>
  <2>1. PICK c : OtherPlaces(c, lines, t)
    BY OthersAre
  <2>2. c \in [1..Len(was) -> 1..Len(lines)]
    BY <2>1 DEF OtherPlaces, Picks
  <2> HIDE DEF was
  <2>3. ASSUME lines = <<>>, was # <<>> PROVE FALSE
    <3>1. 1 \in 1..Len(was) /\ 1..Len(lines) = {}
      BY <1>3, <2>3
    <3> QED BY <2>2, <3>1
  <2> QED BY <2>3
<1> HIDE DEF was, is
<1>6. m \in Nat /\ Len(is) \in Nat /\ Len(was) \in Nat /\ Len(lines) \in Nat /\ m <= Len(lines)
  BY <1>3
<1>7. TrimEnd(is) = TrimEnd(was)
  <2>1. Len(is) <= Len(was)
    BY <1>4, <1>6
  <2> QED BY <1>3, <1>4, <2>1, TrimCut
<1>8. CASE m < Len(lines)
  <2>1. Len(was) \in (Len(is) + 1)..Len(was)
    BY <1>4, <1>6, <1>8
  <2>2. was[Len(was)] = Blank /\ was # <<>>
    BY <1>3, <1>4, <1>6, <2>1
  <2>3. BlankAtEnd(was)
    BY <2>2 DEF BlankAtEnd, Last
  <2> QED BY <1>7, <2>3 DEF was, is
<1>9. CASE m = Len(lines)
  <2>1. j.lines = lines
    BY <1>2, <1>9
  <2>2. is = was
    BY <2>1 DEF was, is
  <2>3. lines # <<>> => j.nl = nl
    BY <2>1, JoinKeepsEnd
  <2> QED BY <1>5, <1>7, <2>2, <2>3 DEF was, is
<1> QED BY <1>6, <1>8, <1>9

-----------------------------------------------------------------------------
(* The specification.                                                       *)

LEMMA RequestTypes ==
  /\ \A p \in Patches : p \in Requests
  /\ \A p \in Imports : p \in Requests /\ p.target \in Targets /\ p.rules \in Seq(Values) /\ p.enabled \in BOOLEAN
  /\ [op |-> "put"] \in Requests /\ [op |-> "csv"] \in Requests /\ [op |-> "none"] \in Requests
<1>1. \A p \in Imports : p.target \in Targets /\ p.rules \in Seq(Values) /\ p.enabled \in BOOLEAN
  BY TextAssumption DEF Imports
<1>2. [op |-> "put"] \in Requests /\ [op |-> "csv"] \in Requests /\ [op |-> "none"] \in Requests
  BY DEF Requests
<1> QED BY <1>1, <1>2 DEF Requests

LEMMA SaveTyped ==
  ASSUME TypeOK, NEW request \in Requests, NEW new \in TextsOf(file), Save(request, new)
  PROVE  TypeOK'
<1>1. count \in Nat /\ count' = count + 1
  BY DEF TypeOK, Save
<1>2. count' \in Nat
  BY <1>1
<1>3. last'.request = request /\ last'.status = 200
  BY DEF Save, Answer
<1> QED BY <1>2, <1>3 DEF TypeOK, Save, TextsOf

LEMMA RefuseTyped ==
  ASSUME TypeOK, NEW request \in Requests, NEW status \in {400, 409}, Refuse(request, status)
  PROVE  TypeOK'
<1>1. count \in Nat /\ count' = count + 1
  BY DEF TypeOK, Refuse
<1>2. count' \in Nat
  BY <1>1
<1>3. last'.request = request /\ last'.status = status
  BY DEF Refuse, Answer
<1> QED BY <1>2, <1>3 DEF TypeOK, Refuse

LEMMA TextTyped == TypeOK => file \in Files /\ text \in TextsOf(file) /\ text.lines \in Seq(Lines(file))
BY DEF TypeOK, TextsOf

LEMMA InitTyped == Init => TypeOK
<1> SUFFICES ASSUME Init PROVE TypeOK
  OBVIOUS
<1>1. text \in [lines : Seq(Lines(file)), nl : BOOLEAN]
  BY TextAssumption DEF Init
<1>2. last.request \in Requests /\ last.status = 200
  BY RequestTypes DEF Init, Answer
<1>3. count \in Nat
  BY DEF Init
<1> QED BY <1>1, <1>2, <1>3 DEF Init, TypeOK

LEMMA PutTyped == TypeOK /\ PutBack => TypeOK'
<1> SUFFICES ASSUME TypeOK, PutBack PROVE TypeOK'
  OBVIOUS
<1> DEFINE groups == Parse(file, text.lines)
           request == [op |-> "put"]
<1>1. groups \in Seq(AnyGroups)
  BY TextTyped, ParseFacts, ParsedAreGroups
<1>2. Save(request, Render(file, groups)) \/ Refuse(request, 400)
  BY DEF PutBack
<1> HIDE DEF groups, request
<1>3. request \in Requests /\ Render(file, groups) \in TextsOf(file)
  BY <1>1, TextTyped, RequestTypes, RenderType DEF request
<1> QED BY <1>2, <1>3, SaveTyped, RefuseTyped

LEMMA CsvTyped == TypeOK /\ ExportImport => TypeOK'
<1> SUFFICES ASSUME TypeOK, ExportImport PROVE TypeOK'
  OBVIOUS
<1> DEFINE old == Parse(file, text.lines)
           groups == Import(Export(old))
           request == [op |-> "csv"]
<1>1. old \in Seq(AnyGroups)
  BY TextTyped, ParseFacts, ParsedAreGroups
<1>2. Save(request, Render(file, groups)) \/ Refuse(request, 400)
  BY DEF ExportImport
<1> HIDE DEF old
<1>3. groups \in Seq(AnyGroups)
  BY <1>1, ExportType, ImportType
<1> HIDE DEF groups, request
<1>4. request \in Requests /\ Render(file, groups) \in TextsOf(file)
  BY <1>3, TextTyped, RequestTypes, RenderType DEF request
<1> QED BY <1>2, <1>4, SaveTyped, RefuseTyped

LEMMA PasteTyped == ASSUME TypeOK, NEW p \in Imports, ImportText(p) PROVE TypeOK'
<1> DEFINE tags == Select(p.rules, IsTag)
           values == Select(p.rules, NotTag)
           pasted == Group(p.target, p.enabled, <<>>, tags, values)
           old == Parse(file, text.lines)
           groups == Append(old, pasted)
<1>1. old \in Seq(AnyGroups)
  BY TextTyped, ParseFacts, ParsedAreGroups
<1>2. Save(p, Render(file, groups)) \/ Refuse(p, 400)
  BY DEF ImportText
<1>3. tags \in Seq(Values) /\ values \in Seq(Values)
  BY RequestTypes, ThoseFacts DEF Select
<1> HIDE DEF old, tags, values
<1>4. pasted \in AnyGroups
  <2>1. <<>> \in Seq(Comments)
    OBVIOUS
  <2> QED BY <1>3, <2>1, RequestTypes, GroupIs
<1> HIDE DEF pasted
<1>5. groups \in Seq(AnyGroups)
  BY <1>1, <1>4
<1> HIDE DEF groups
<1>6. p \in Requests /\ Render(file, groups) \in TextsOf(file)
  BY <1>5, TextTyped, RequestTypes, RenderType
<1> QED BY <1>2, <1>6, SaveTyped, RefuseTyped

LEMMA PatchTyped ==
  ASSUME TypeOK, NEW p \in Patches, 
         AddRule(p) \/ AddRefused(p) \/ DeleteRule(p) \/ PatchInvalid(p)
  PROVE  TypeOK'
<1>1. p \in Requests /\ text \in TextsOf(file) /\ file \in Files
  BY RequestTypes, TextTyped
<1>2. /\ Join(Added(file, text.lines, p), text.nl) \in TextsOf(file)
      /\ Join(Deleted(file, text.lines, p), text.nl) \in TextsOf(file)
  BY <1>1, PatchesUnique
<1>3. CASE AddRule(p)
  BY <1>1, <1>2, <1>3, SaveTyped DEF AddRule
<1>4. CASE AddRefused(p)
  BY <1>1, <1>4, RefuseTyped DEF AddRefused
<1>5. CASE DeleteRule(p)
  BY <1>1, <1>2, <1>5, SaveTyped DEF DeleteRule
<1>6. CASE PatchInvalid(p)
  BY <1>1, <1>6, RefuseTyped DEF PatchInvalid
<1> QED BY <1>3, <1>4, <1>5, <1>6

LEMMA NextTyped == TypeOK /\ [Next]_vars => TypeOK'
<1> SUFFICES ASSUME TypeOK, [Next]_vars PROVE TypeOK'
  OBVIOUS
<1>1. CASE \E p \in Patches : AddRule(p) \/ AddRefused(p) \/ DeleteRule(p) \/ PatchInvalid(p)
  BY <1>1, PatchTyped
<1>2. CASE PutBack
  BY <1>2, PutTyped
<1>3. CASE ExportImport
  BY <1>3, CsvTyped
<1>4. CASE \E p \in Imports : ImportText(p)
  BY <1>4, PasteTyped
<1>5. CASE UNCHANGED vars
  BY <1>5 DEF vars, TypeOK
<1> QED BY <1>1, <1>2, <1>3, <1>4, <1>5 DEF Next

(* The text is always lines that the file may have. *)
THEOREM TypeCorrect == Spec => []TypeOK
<1>1. Init => TypeOK
  BY InitTyped
<1>2. TypeOK /\ [Next]_vars => TypeOK'
  BY NextTyped
<1> QED BY <1>1, <1>2, PTL DEF Spec

LEMMA UniqueStep ==
  TypeOK /\ [Next]_vars =>
    ((Served("add") \/ Served("delete")) /\ NoDuplicates(text.lines) => NoDuplicates(text'.lines))
<1> SUFFICES ASSUME TypeOK, Next, Served("add") \/ Served("delete"), NoDuplicates(text.lines)
             PROVE  NoDuplicates(text'.lines)
  BY DEF vars, Served
<1>1. file' = file /\ file \in Files /\ text \in TextsOf(file) /\ text.lines \in Seq(Lines(file))
  <2>1. file' = file
    BY DEF Next, AddRule, AddRefused, DeleteRule, PatchInvalid, PutBack, ExportImport, ImportText, Save, Refuse
  <2> QED BY <2>1, TextTyped
<1>2. NoClash(file, text.lines)
  BY <1>1, DuplicatesAreClashes DEF NoDuplicates, Rules
<1>3. ASSUME text' \in TextsOf(file), NoClash(file, text'.lines) PROVE NoDuplicates(text'.lines)
  <2>1. text'.lines \in Seq(Lines(file))
    BY <1>3 DEF TextsOf
  <2> QED BY <1>1, <1>3, <2>1, DuplicatesAreClashes DEF NoDuplicates, Rules
<1>4. ASSUME NEW p \in Patches, AddRule(p) PROVE NoDuplicates(text'.lines)
  <2>1. ~Duplicate(file, text.lines, p) /\ text' = Join(Added(file, text.lines, p), text.nl)
    BY <1>4 DEF AddRule, Save
  <2> QED BY <1>1, <1>2, <1>3, <2>1, PatchesUnique
<1>5. ASSUME NEW p \in Patches, DeleteRule(p) PROVE NoDuplicates(text'.lines)
  <2>1. text' = Join(Deleted(file, text.lines, p), text.nl)
    BY <1>5 DEF DeleteRule, Save
  <2> QED BY <1>1, <1>2, <1>3, <2>1, PatchesUnique
<1>6. ASSUME NEW p \in Patches, AddRefused(p) \/ PatchInvalid(p) PROVE FALSE
  BY <1>6 DEF AddRefused, PatchInvalid, Refuse, Answer, Served
<1>7. ~PutBack /\ ~ExportImport
  BY DEF PutBack, ExportImport, Save, Refuse, Answer, Served
<1>8. ASSUME NEW p \in Imports, ImportText(p) PROVE FALSE
  <2>1. last'.request = p /\ p.op = "paste"
    BY <1>8 DEF ImportText, Save, Refuse, Answer, Imports
  <2> QED BY <2>1 DEF Served
<1> QED BY <1>4, <1>5, <1>6, <1>7, <1>8 DEF Next

(* Patches, in any groups and any order, never make a target list a rule    *)
(* twice, whatever the text of the file.                                    *)
THEOREM RulesStayUnique == Spec => PatchesKeepRulesUnique
<1>1. TypeOK /\ [Next]_vars =>
        ((Served("add") \/ Served("delete")) /\ NoDuplicates(text.lines) => NoDuplicates(text'.lines))
  BY UniqueStep
<1> QED BY <1>1, TypeCorrect, PTL DEF Spec, PatchesKeepRulesUnique

LEMMA AddTwice ==
  ASSUME NEW f \in Files, NEW lines \in Seq(Lines(f)), NEW nl \in BOOLEAN, NEW p \in Patches,
         ~Duplicate(f, lines, p), NEW t, t = Join(Added(f, lines, p), nl)
  PROVE  ~Duplicate(f, t.lines, p) /\ Unchanged(Join(Added(f, t.lines, p), t.nl), t)
<1> DEFINE new == Added(f, lines, p)
<1>1. new \in Seq(Lines(f)) /\ Settled(f, new, p)
  BY PatchedLines, AddedSettled
<1> HIDE DEF new
<1>2. Settled(f, t.lines, p) /\ Unchanged(Join(t.lines, t.nl), t)
  <2>1. t = Join(new, nl)
    BY DEF new
  <2> QED BY <1>1, <2>1, JoinSame
<1>3. ~Duplicate(f, t.lines, p) /\ Added(f, t.lines, p) = t.lines
  BY <1>2 DEF Settled, Added
<1> QED BY <1>2, <1>3

LEMMA DeleteTwice ==
  ASSUME NEW f \in Files, NEW lines \in Seq(Lines(f)), NEW nl \in BOOLEAN, NEW p \in Patches,
         NEW t, t = Join(Deleted(f, lines, p), nl)
  PROVE  Unchanged(Join(Deleted(f, t.lines, p), t.nl), t)
<1> DEFINE new == Deleted(f, lines, p)
<1>1. Quiet(f, new, p)
  BY DomainQuiet, CidrQuiet DEF Files
<1>2. new \in Seq(Lines(f))
  BY PatchedLines
<1> HIDE DEF new
<1>3. t.lines \in Seq(Lines(f)) /\ Quiet(f, t.lines, p) /\ Unchanged(Join(t.lines, t.nl), t)
  <2>1. t = Join(new, nl)
    BY DEF new
  <2> QED BY <1>1, <1>2, <2>1, JoinSame
<1>4. Deleted(f, t.lines, p) = t.lines
  BY <1>3, DeletedNothing
<1> QED BY <1>3, <1>4

LEMMA RetryStep ==
  TypeOK /\ [Next]_vars =>
    /\ Served("add") =>
         /\ ~Duplicate(file, text'.lines, last'.request)
         /\ Unchanged(Join(Added(file, text'.lines, last'.request), text'.nl), text')
    /\ Served("delete") =>
         Unchanged(Join(Deleted(file, text'.lines, last'.request), text'.nl), text')
<1> SUFFICES ASSUME TypeOK, Next, Served("add") \/ Served("delete")
             PROVE  /\ Served("add") =>
                         /\ ~Duplicate(file, text'.lines, last'.request)
                         /\ Unchanged(Join(Added(file, text'.lines, last'.request), text'.nl), text')
                    /\ Served("delete") =>
                         Unchanged(Join(Deleted(file, text'.lines, last'.request), text'.nl), text')
  BY DEF vars, Served
<1>1. file \in Files /\ text.lines \in Seq(Lines(file)) /\ text.nl \in BOOLEAN
  BY DEF TypeOK
<1>2. ASSUME NEW p \in Patches, AddRule(p)
      PROVE  /\ ~Duplicate(file, text'.lines, last'.request)
             /\ Unchanged(Join(Added(file, text'.lines, last'.request), text'.nl), text')
             /\ ~Served("delete")
  <2>1. /\ p.op = "add" /\ ~Duplicate(file, text.lines, p)
        /\ text' = Join(Added(file, text.lines, p), text.nl) /\ last'.request = p
    BY <1>2 DEF AddRule, Save, Answer
  <2>2. /\ ~Duplicate(file, text'.lines, p)
        /\ Unchanged(Join(Added(file, text'.lines, p), text'.nl), text')
    BY <1>1, <2>1, AddTwice
  <2> QED BY <2>1, <2>2 DEF Served
<1>3. ASSUME NEW p \in Patches, DeleteRule(p)
      PROVE  /\ Unchanged(Join(Deleted(file, text'.lines, last'.request), text'.nl), text')
             /\ ~Served("add")
  <2>1. p.op = "delete" /\ text' = Join(Deleted(file, text.lines, p), text.nl) /\ last'.request = p
    BY <1>3 DEF DeleteRule, Save, Answer
  <2>2. Unchanged(Join(Deleted(file, text'.lines, p), text'.nl), text')
    BY <1>1, <2>1, DeleteTwice
  <2> QED BY <2>1, <2>2 DEF Served
<1>4. ASSUME NEW p \in Patches, AddRefused(p) \/ PatchInvalid(p) PROVE FALSE
  BY <1>4 DEF AddRefused, PatchInvalid, Refuse, Answer, Served
<1>5. ~PutBack /\ ~ExportImport
  BY DEF PutBack, ExportImport, Save, Refuse, Answer, Served
<1>6. ASSUME NEW p \in Imports, ImportText(p) PROVE FALSE
  <2>1. last'.request = p /\ p.op = "paste"
    BY <1>6 DEF ImportText, Save, Refuse, Answer, Imports
  <2> QED BY <2>1 DEF Served
<1> QED BY <1>2, <1>3, <1>4, <1>5, <1>6 DEF Next

(* A client that lost the answer may repeat its patch, whatever the text of *)
(* the file: the second one is not refused and changes nothing.             *)
THEOREM RetriesChangeNothing == Spec => RetryChangesNothing
<1>1. TypeOK /\ [Next]_vars =>
        /\ Served("add") =>
             /\ ~Duplicate(file, text'.lines, last'.request)
             /\ Unchanged(Join(Added(file, text'.lines, last'.request), text'.nl), text')
        /\ Served("delete") =>
             Unchanged(Join(Deleted(file, text'.lines, last'.request), text'.nl), text')
  BY RetryStep
<1> QED BY <1>1, TypeCorrect, PTL DEF Spec, RetryChangesNothing

(* New lines at the end of a text. *)
LEMMA AppendedStays ==
  ASSUME NEW f \in Files, NEW lines \in Seq(Lines(f)), NEW nl \in BOOLEAN, NEW p \in Patches, NEW t,
         t = Join(lines \o NewLines(f, p), nl)
  PROVE  IsPrefix(lines, t.lines) /\ t.nl = nl
<1> DEFINE more == NewLines(f, p)
           new == lines \o more
           c == CommentLines(p)
<1>1. /\ more \in Seq(Lines(f)) /\ c \in Seq(Lines(f))
      /\ more = c \o IF f = "cidr" THEN <<Header(p.target), Entry(Token(f, p.rule))>>
                     ELSE <<RulesLine(<<Token(f, p.rule)>>, p.target)>>
  BY NewLinesFacts
<1>2. Entry(Token(f, p.rule)) # Blank /\ RulesLine(<<Token(f, p.rule)>>, p.target) # Blank
  BY DEF Entry, RulesLine, Blank
<1> HIDE DEF more, c
<1>3. Len(more) # 0 /\ more[Len(more)] # Blank
  <2>1. ASSUME NEW x, NEW y, more = c \o <<x, y>>, y # Blank PROVE Len(more) # 0 /\ more[Len(more)] # Blank
    <3>1. Len(more) = Len(c) + 2 /\ more[Len(c) + 2] = y /\ Len(c) \in Nat
      BY <1>1, <2>1
    <3> QED BY <2>1, <3>1
  <2>2. ASSUME NEW x, more = c \o <<x>>, x # Blank PROVE Len(more) # 0 /\ more[Len(more)] # Blank
    <3>1. Len(more) = Len(c) + 1 /\ more[Len(c) + 1] = x /\ Len(c) \in Nat
      BY <1>1, <2>2
    <3> QED BY <2>2, <3>1
  <2> QED BY <1>1, <1>2, <2>1, <2>2
<1>4. /\ new \in Seq(Lines(f)) /\ Len(new) = Len(lines) + Len(more) /\ Len(more) \in Nat
      /\ \A i \in 1..Len(lines) : new[i] = lines[i]
      /\ new[Len(new)] = more[Len(more)]
  BY <1>1, <1>3
<1> HIDE DEF new
<1>5. new # <<>> /\ Last(new) # Blank
  BY <1>3, <1>4 DEF Last
<1>6. t = Join(new, nl)
  BY DEF new, more
<1>7. t = Text(new, nl)
  BY <1>4, <1>5, <1>6, JoinKeepsEnd
<1>8. IsPrefix(lines, new)
  <2>1. Len(lines) \in Nat /\ Len(lines) <= Len(new)
    BY <1>4
  <2>2. SubSeq(lines, 1, Len(lines)) = SubSeq(new, 1, Len(lines))
    BY <1>4, <2>1
  <2> QED BY <2>1, <2>2 DEF IsPrefix
<1> QED BY <1>7, <1>8 DEF Text

LEMMA OthersAdded ==
  ASSUME file \in Files, NEW lines \in Seq(Lines(file)), NEW p \in Patches
  PROVE  \/ Added(file, lines, p) = lines \o NewLines(file, p)
         \/ Others(Added(file, lines, p), p.target) = Others(lines, p.target)
<1>1. CASE \E i \in Scope(lines, p) : Holds(file, lines, i, p.rule)
  BY <1>1 DEF Added
<1>2. CASE ~\E i \in Scope(lines, p) : Holds(file, lines, i, p.rule)
  <2>1. Added(file, lines, p) = Extended(file, lines, p)
    BY <1>2 DEF Added
  <2>2. CASE Scope(lines, p) = {}
    BY <2>1, <2>2 DEF Extended
  <2>3. CASE Scope(lines, p) # {}
    <3>1. file = "domain" \/ file = "cidr"
      BY DEF Files
    <3>2. Others(Extended(file, lines, p), p.target) = Others(lines, p.target)
      BY <2>3, <3>1, DomainOthersAdded, CidrOthersAdded
    <3> QED BY <2>1, <3>2
  <2> QED BY <2>2, <2>3
<1> QED BY <1>1, <1>2

LEMMA OthersDeleted ==
  ASSUME file \in Files, NEW lines \in Seq(Lines(file)), NEW p \in Patches
  PROVE  Others(Deleted(file, lines, p), p.target) = Others(lines, p.target)
<1>1. file = "domain" \/ file = "cidr"
  BY DEF Files
<1> QED BY <1>1, DomainOthersDeleted, CidrOthersDeleted

LEMMA UnrelatedStep ==
  TypeOK /\ [Next]_vars =>
    (Served("add") \/ Served("delete") =>
       LET was == Others(text.lines, last'.request.target)
           is == Others(text'.lines, last'.request.target)
       IN  \/ IsPrefix(text.lines, text'.lines) /\ text'.nl = text.nl
           \/ /\ TrimEnd(is) = TrimEnd(was)
              /\ BlankAtEnd(was) \/ (is = was /\ (text'.nl = text.nl \/ is = <<>>)))
<1> DEFINE Stays(p) ==
             LET was == Others(text.lines, p.target)
                 is == Others(text'.lines, p.target)
             IN  \/ IsPrefix(text.lines, text'.lines) /\ text'.nl = text.nl
                 \/ /\ TrimEnd(is) = TrimEnd(was)
                    /\ BlankAtEnd(was) \/ (is = was /\ (text'.nl = text.nl \/ is = <<>>))
<1> SUFFICES ASSUME TypeOK, Next, Served("add") \/ Served("delete")
             PROVE  Stays(last'.request)
  BY DEF vars, Served
<1>1. file \in Files /\ text.lines \in Seq(Lines(file)) /\ text.nl \in BOOLEAN
  BY DEF TypeOK
<1>2. ASSUME NEW p \in Patches, NEW new \in Seq(Lines(file)), text' = Join(new, text.nl),
             Others(new, p.target) = Others(text.lines, p.target)
      PROVE  Stays(p)
  <2> DEFINE t == p.target
             j == text'
  <2>1. j = Join(new, text.nl) /\ Others(new, t) = Others(text.lines, t)
    BY <1>2
  <2> HIDE DEF t, j
  <2>2. LET was == Others(new, t)
            is == Others(j.lines, t)
        IN  /\ TrimEnd(is) = TrimEnd(was)
            /\ BlankAtEnd(was) \/ (is = was /\ (j.nl = text.nl \/ is = <<>>))
    BY <1>1, <2>1, OthersJoined
  <2> QED BY <2>1, <2>2 DEF t, j
<1>3. ASSUME NEW p \in Patches, AddRule(p) PROVE Stays(last'.request)
  <2>1. text' = Join(Added(file, text.lines, p), text.nl) /\ last'.request = p
    BY <1>3 DEF AddRule, Save, Answer
  <2>2. CASE Added(file, text.lines, p) = text.lines \o NewLines(file, p)
    <3> DEFINE j == text'
               ls == text.lines
               nl == text.nl
    <3>1. j = Join(ls \o NewLines(file, p), nl) /\ ls \in Seq(Lines(file)) /\ nl \in BOOLEAN
      BY <1>1, <2>1, <2>2
    <3> HIDE DEF j, ls, nl
    <3>2. IsPrefix(ls, j.lines) /\ j.nl = nl
      BY <1>1, <3>1, AppendedStays
    <3>3. IsPrefix(text.lines, text'.lines) /\ text'.nl = text.nl
      BY <3>2 DEF j, ls, nl
    <3> QED BY <2>1, <3>3
  <2>3. CASE Others(Added(file, text.lines, p), p.target) = Others(text.lines, p.target)
    <3>1. Added(file, text.lines, p) \in Seq(Lines(file))
      BY <1>1, PatchedLines
    <3> HIDE DEF Stays
    <3>2. Stays(p)
      BY <1>2, <2>1, <2>3, <3>1
    <3> QED BY <2>1, <3>2
  <2> QED BY <1>1, <2>2, <2>3, OthersAdded
<1>4. ASSUME NEW p \in Patches, DeleteRule(p) PROVE Stays(last'.request)
  <2>1. text' = Join(Deleted(file, text.lines, p), text.nl) /\ last'.request = p
    BY <1>4 DEF DeleteRule, Save, Answer
  <2>2. /\ Deleted(file, text.lines, p) \in Seq(Lines(file))
        /\ Others(Deleted(file, text.lines, p), p.target) = Others(text.lines, p.target)
    BY <1>1, PatchedLines, OthersDeleted
  <2> HIDE DEF Stays
  <2>3. Stays(p)
    BY <1>2, <2>1, <2>2
  <2> QED BY <2>1, <2>3
<1> HIDE DEF Stays
<1>5. ASSUME NEW p \in Patches, AddRefused(p) \/ PatchInvalid(p) PROVE FALSE
  BY <1>5 DEF AddRefused, PatchInvalid, Refuse, Answer, Served
<1>6. ~PutBack /\ ~ExportImport
  BY DEF PutBack, ExportImport, Save, Refuse, Answer, Served
<1>7. ASSUME NEW p \in Imports, ImportText(p) PROVE FALSE
  <2>1. last'.request = p /\ p.op = "paste"
    BY <1>7 DEF ImportText, Save, Refuse, Answer, Imports
  <2> QED BY <2>1 DEF Served
<1> QED BY <1>3, <1>4, <1>5, <1>6, <1>7 DEF Next

(* "Narrow writes preserve unrelated config bytes" (README.en.md), whatever *)
(* the text of the file: a patch puts new lines after all others, or it     *)
(* leaves the lines of all other targets, the notes and the blank lines as  *)
(* they are and ends the last line as before, but for blank lines at the    *)
(* end of the file (patchDomainConfigText, patchCIDRConfigText,             *)
(* joinConfigLines).                                                        *)
THEOREM UnrelatedLinesAreKept == Spec => UnrelatedLinesStay
<1>1. TypeOK /\ [Next]_vars =>
        (Served("add") \/ Served("delete") =>
           LET was == Others(text.lines, last'.request.target)
               is == Others(text'.lines, last'.request.target)
           IN  \/ IsPrefix(text.lines, text'.lines) /\ text'.nl = text.nl
               \/ /\ TrimEnd(is) = TrimEnd(was)
                  /\ BlankAtEnd(was) \/ (is = was /\ (text'.nl = text.nl \/ is = <<>>)))
  BY UnrelatedStep
<1> QED BY <1>1, TypeCorrect, PTL DEF Spec, UnrelatedLinesStay

=============================================================================
