----------------------------- MODULE RuleFormats -----------------------------
(***************************************************************************)
(* The two rule files, line by line, and what the program makes of them.   *)
(* domain.conf has lines "rule,rule/target"; ip.list has a header          *)
(* "/target" with one rule per line under it.  In both, "##" starts a      *)
(* comment that names the group below it, "#/target" is a disabled target, *)
(* and any other "#" line is a note.                                       *)
(*                                                                         *)
(* A parsed file is a sequence of groups, of one shape for both formats:   *)
(* tags are the geosite: or geoip: tags, values the domains or prefixes.   *)
(* Values are abstract; Lower[v] is v in lower case.  The prefix of a      *)
(* tag is told with its case, so GEOSITE:x is a domain that, once it is    *)
(* written in lower case, reads as the tag geosite:x (Disguised).          *)
(***************************************************************************)
EXTENDS Naturals, Sequences, SequencesExt

CONSTANTS
  Targets,   \* names of targets
  Comments,  \* texts of comments
  Values,    \* rules, with their spelling
  Tags,      \* the rules that are geosite: or geoip: tags
  Lower      \* the lower case of a rule

ASSUME FormatAssumption ==
  /\ Tags \subseteq Values
  /\ Lower \in [Values -> Values]
  /\ \A v \in Values : /\ Lower[Lower[v]] = Lower[v]
                       /\ v \in Tags => Lower[v] \in Tags

Files == {"domain", "cidr"}

Blank == [kind |-> "blank"]
Note == [kind |-> "note"]
Comment(c) == [kind |-> "##", text |-> c]
Off(t) == [kind |-> "#/", target |-> t]
RulesLine(vs, t) == [kind |-> "rules", rules |-> vs, target |-> t]
Header(t) == [kind |-> "/", target |-> t]
Entry(v) == [kind |-> "entry", rule |-> v]

CommonLines ==
  {Blank, Note} \cup {Comment(c) : c \in Comments} \cup {Off(t) : t \in Targets}
Lines(file) ==
  CommonLines \cup
    IF file = "domain" THEN [kind : {"rules"}, rules : Seq(Values), target : Targets]
    ELSE {Header(t) : t \in Targets} \cup {Entry(v) : v \in Values}

IsComment(line) == line.kind = "##"
IsGroup(line) == line.kind \in {"#/", "rules", "/"}

Group(target, enabled, comment, tags, values) ==
  [target |-> target, enabled |-> enabled, comment |-> comment,
   tags |-> tags, values |-> values]

IsTag(v) == v \in Tags
NotTag(v) == v \notin Tags
Map(f(_), s) == [i \in DOMAIN s |-> f(s[i])]

(* What stands at some places of a sequence, in its order. *)
Those(s, places) ==
  LET upTo[n \in 0..Len(s)] ==
        IF n = 0 THEN <<>>
        ELSE IF n \in places THEN Append(upTo[n - 1], s[n])
        ELSE upTo[n - 1]
  IN  upTo[Len(s)]
Select(s, test(_)) == Those(s, {i \in DOMAIN s : test(s[i])})
Least(S) == CHOOSE i \in S : \A j \in S : i <= j
Greatest(S) == CHOOSE i \in S : \A j \in S : j <= i

-----------------------------------------------------------------------------
(* Parsing *)

(* pendingComment when line i is reached: the comments since the last blank *)
(* line or group.  Notes, and entries outside a block, do not end it.       *)
Pending(lines, i) ==
  LET from == Least({s \in 1..i : \A j \in s..(i - 1) :
                       ~IsGroup(lines[j]) /\ lines[j] # Blank})
      text(line) == line.text
  IN  Map(text, Those(lines, {j \in from..(i - 1) : IsComment(lines[j])}))

(* The last line of the block of ip.list that starts at line i. *)
BlockEnd(lines, i) ==
  Greatest({e \in i..Len(lines) : \A j \in (i + 1)..e : lines[j].kind \in {"entry", "note"}})

(* The rules that belong to line i, in the order of the file. *)
RulesOf(file, lines, i) ==
  LET rule(line) == line.rule
  IN  IF file = "cidr" THEN Map(rule, Those(lines, {j \in i..BlockEnd(lines, i) : lines[j].kind = "entry"}))
      ELSE IF lines[i].kind = "rules" THEN lines[i].rules
      ELSE <<>>

(* A rule that is no tag but for its capitals. *)
Disguised(v) == v \notin Tags /\ Lower[v] \in Tags

(* parseDomainConfig lowers domains; parseCIDRConfig keeps what it reads. *)
Spelled(file, v) == IF file = "domain" /\ v \notin Tags THEN Lower[v] ELSE v

(* The group that line i starts. *)
GroupAt(file, lines, i) ==
  LET rules == RulesOf(file, lines, i)
      spelled(v) == Spelled(file, v)
  IN  Group(lines[i].target, lines[i].kind # "#/", Pending(lines, i),
            Select(rules, IsTag), Map(spelled, Select(rules, NotTag)))

(* parseDomainConfig and parseCIDRConfig. *)
Parse(file, lines) ==
  LET group(i) == GroupAt(file, lines, i)
      isGroup(i) == IsGroup(lines[i])
  IN  Map(group, Select([i \in DOMAIN lines |-> i], isGroup))

(* Every rule of a parsed file with all that is said about it. *)
Flat(groups) ==
  LET rules(g) == LET one(v) == [target |-> g.target, enabled |-> g.enabled,
                                 comment |-> g.comment, rule |-> v]
                  IN  Map(one, g.tags \o g.values)
  IN  FlattenSeq(Map(rules, groups))

(* validateIPOrPrefix: a tag in capitals is a domain, but no prefix. *)
Sound(file, v) == file = "domain" \/ ~Disguised(v)

(* validateDomainConfig and validateCIDRConfig. *)
Empty(g) == g.tags = <<>> /\ g.values = <<>>
Valid(file, groups) ==
  \A i \in DOMAIN groups :
    /\ ~(groups[i].enabled /\ Empty(groups[i]))
    /\ \A v \in ToSet(groups[i].values) : Sound(file, v)

-----------------------------------------------------------------------------
(* Contents of a file and rendering *)

(* A text is what splitConfigLines makes of the bytes: the lines and        *)
(* whether the last one is terminated.  One newline alone has no lines.     *)
Text(lines, nl) == [lines |-> lines, nl |-> nl]
NoText == Text(<<>>, FALSE)
Newline == Text(<<>>, TRUE)

(* The text of these lines, each terminated by a newline. *)
Terminated(lines) ==
  IF lines = <<>> THEN NoText ELSE IF lines = <<Blank>> THEN Newline ELSE Text(lines, TRUE)

(* The text read back after joinConfigLines. *)
Join(lines, nl) ==
  CASE lines = <<>> -> NoText
    [] lines # <<>> /\ nl -> Terminated(lines)
    [] lines # <<>> /\ ~nl /\ Last(lines) = Blank -> Terminated(Front(lines))
    [] OTHER -> Text(lines, FALSE)

BodyEnabled(file, g) ==
  LET rules == g.tags \o g.values
  IN  IF file = "cidr" THEN <<Header(g.target)>> \o Map(Entry, rules)
      ELSE <<RulesLine(rules, g.target)>>

(* The lines of one group after its comments: domain.conf has no rules for  *)
(* a disabled target, and no line for a target without rules.               *)
Body(file, g) ==
  LET lowered(v) == Lower[v]
      rules == g.tags \o IF file = "domain" THEN Map(lowered, g.values) ELSE g.values
      header == IF g.enabled THEN Header(g.target) ELSE Off(g.target)
  IN  CASE file = "cidr" -> <<header>> \o Map(Entry, rules)
        [] file = "domain" /\ ~g.enabled -> <<Off(g.target)>>
        [] file = "domain" /\ g.enabled /\ Empty(g) -> <<>>
        [] OTHER -> <<RulesLine(rules, g.target)>>

(* renderDomainConfig and renderCIDRConfig: a blank line between groups. *)
Render(file, groups) ==
  LET lines(i) == (IF i > 1 THEN <<Blank>> ELSE <<>>)
                    \o Map(Comment, groups[i].comment) \o Body(file, groups[i])
  IN  Terminated(FlattenSeq([i \in DOMAIN groups |-> lines(i)]))

-----------------------------------------------------------------------------
(* Views and CSV *)

Fold(v) == Lower[v]

(* appendUniqueFold: the first spelling of each value. *)
UniqueFold(values) ==
  LET first(i) == \A j \in 1..(i - 1) : Fold(values[j]) # Fold(values[i])
      value(i) == values[i]
  IN  Map(value, Select([i \in DOMAIN values |-> i], first))

(* The groups of each target, joined, targets in the order of the file. *)
ByTarget(groups, join(_)) ==
  LET first(i) == \A j \in 1..(i - 1) : groups[j].target # groups[i].target
      joined(i) == LET same(g) == g.target = groups[i].target
                   IN  join(Select(groups, same))
  IN  Map(joined, Select([i \in DOMAIN groups |-> i], first))

AllTags(groups) == LET tags(g) == g.tags IN FlattenSeq(Map(tags, groups))
AllValues(groups) == LET values(g) == g.values IN FlattenSeq(Map(values, groups))
SomeEnabled(groups) == \E i \in DOMAIN groups : groups[i].enabled

(* groupDomainTargets and groupCIDRTargets. *)
View(groups) ==
  LET join(gs) == [target |-> gs[1].target, enabled |-> SomeEnabled(gs),
                   tags |-> UniqueFold(AllTags(gs)), values |-> UniqueFold(AllValues(gs))]
  IN  ByTarget(groups, join)

Row(g, kind, vs) == [target |-> g.target, kind |-> kind, rules |-> vs,
                     enabled |-> g.enabled, comment |-> g.comment]
RuleRows(g) ==
  LET tag(v) == Row(g, "tag", <<v>>)
      value(v) == Row(g, "value", <<v>>)
  IN  Map(tag, g.tags) \o Map(value, g.values)

ExportRulesOnly(groups) == FlattenSeq(Map(RuleRows, groups))

(* exportRoutingCSV: a row per rule; a disabled target without rules has a  *)
(* row of its own, an enabled one none.                                     *)
Export(groups) ==
  LET rows(g) == IF ~g.enabled /\ Empty(g) THEN <<Row(g, "target", <<>>)>>
                 ELSE RuleRows(g)
  IN  FlattenSeq(Map(rows, groups))

(* parseRoutingCSV: one group per target, enabled if a row is, with the     *)
(* first comment there is.                                                  *)
Import(rows) ==
  LET rules(row) == row.rules
      tag(row) == row.kind = "tag"
      value(row) == row.kind = "value"
      commented(row) == row.comment # <<>>
      comments(rs) == Select(rs, commented)
      join(rs) == Group(rs[1].target, SomeEnabled(rs),
                        IF comments(rs) = <<>> THEN <<>> ELSE comments(rs)[1].comment,
                        FlattenSeq(Map(rules, Select(rs, tag))),
                        FlattenSeq(Map(rules, Select(rs, value))))
  IN  ByTarget(rows, join)
=============================================================================
