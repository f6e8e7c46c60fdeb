----------------------------- MODULE MCRuleText -----------------------------
(* Values of the constants of RuleText for model checking. *)
EXTENDS RuleText, TLC

CONSTANTS a, A, g, D, F, G, DomainLines, CidrLines

McTargets == {F, G}
McValues == {a, A, g, D}
McTags == {g}
McLower == (a :> a) @@ (A :> a) @@ (g :> g) @@ (D :> g)
McPasted == {<<>>, <<A, g>>, <<D, A>>}

(* Every text of a few lines of these kinds. *)
McDomainLines ==
  {Blank, Note, Off(F), RulesLine(<<a>>, G)} \cup {Comment(c) : c \in Comments}
    \cup {RulesLine(vs, F) : vs \in {<<>>, <<a>>, <<A, g>>, <<D>>}}
McCidrLines ==
  {Blank, Note, Off(F), Header(F), Header(G), Entry(A), Entry(g)}
    \cup {Comment(c) : c \in Comments}
Texts(lines, n) ==
  {NoText, Newline} \cup
    {t \in {Text(ls, nl) : ls \in BoundedSeq(lines, n) \ {<<>>}, nl \in BOOLEAN} :
       t = Join(t.lines, t.nl)}
McInitTexts == [f \in Files |->
  IF f = "domain" THEN Texts(McDomainLines, DomainLines)
  ELSE Texts(McCidrLines, CidrLines) \cup Texts(McCidrLines \cup {Entry(D)}, CidrLines - 1)]

(* Comments are interchangeable. *)
Symmetry == Permutations(Comments)
=============================================================================
