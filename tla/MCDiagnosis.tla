----------------------------- MODULE MCDiagnosis -----------------------------
(* Values of the constants of GeoDat and Diagnosis for model checking.       *)
EXTENDS Diagnosis

DatEntry(code, extra, cidrs) == [code |-> code, extra |-> extra, cidrs |-> cidrs]
C(ip, bits) == [ip |-> ip, bits |-> bits]

(* Codes in both cases, empty and too long; prefixes of both families, of   *)
(* all bits, of none, of too many, of no family, and one twice; and fields  *)
(* no reader knows.  The longer entries need two bytes for their length, and *)
(* the longest is too large.                                                *)
McEntries ==
  {DatEntry(<<12>>, <<>>, <<C(<<5>>, 3)>>), DatEntry(<<12>>, <<>>, <<C(<<7>>, 4), C(<<7>>, 3), C(<<4>>, 1)>>),
   DatEntry(<<13>>, <<14, 1, 6>>, <<C(<<4>>, 3), C(<<5>>, 3)>>),
   DatEntry(<<15, 12>>, <<12, 9, 1>>, <<C(<<5, 9>>, 8), C(<<7>>, 0)>>),
   DatEntry(<<>>, <<>>, <<C(<<5>>, 5), C(<<5, 5, 5>>, 1)>>),
   DatEntry(<<14, 12, 9>>, <<>>, <<>>)}
McWanted == {<<>>, <<12>>, <<14, 12>>, <<14, 13>>}
McAddresses == {IP(<<4>>), IP(<<7>>), IP(<<5, 9>>)}
McNumbers == {0, 1, 7, 8, 63, 64, 255}

Group(target, enabled, tags, values) ==
  [target |-> target, enabled |-> enabled, tags |-> tags, values |-> values]
McLabels == {"org", "a", "b"}
McNames == <<"A", "B", "C">>
McDomains == {<<"org">>, <<"org", "a">>, <<"org", "a", "b">>}
McDomainGroups ==
  {Group(n, TRUE, <<>>, <<d>>) : n \in {"A", "B"}, d \in McDomains \ {<<"org">>}}
    \cup {Group("C", TRUE, <<<<12>>>>, <<<<"org">>, <<"org", "a">>>>)}
McBlocks ==
  {Group("A", TRUE, <<<<12>>>>, <<>>), Group("A", TRUE, <<>>, <<C(<<4>>, 1)>>),
   Group("B", TRUE, <<<<13>>>>, <<C(<<4>>, 2)>>), Group("B", TRUE, <<>>, <<C(<<7>>, 0)>>),
   Group("C", TRUE, <<<<9>>>>, <<C(<<4>>, 4), C(<<5, 8>>, 5)>>)}
McPolicyOrders == {<<>>, <<"D", "B", "C", "B">>}

(* The .dat file there is while rules change. *)
McRuleFile ==
  <<DatEntry(<<13>>, <<14, 1, 6>>, <<C(<<4>>, 3), C(<<5>>, 3)>>), DatEntry(<<12>>, <<>>, <<C(<<5>>, 3)>>)>>

(* The file changes while there are no rules, and the rules while it is     *)
(* this one.                                                                *)
McNext ==
  /\ Next
  /\ UNCHANGED ruleVars => Size = 0 /\ order = <<>>
  /\ UNCHANGED datVars => stored = McRuleFile /\ damage = "none"
McSpec == Init /\ [][McNext]_diagVars
=============================================================================
