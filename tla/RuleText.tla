------------------------------ MODULE RuleText ------------------------------
(***************************************************************************)
(* What the program does to the text of one rule file: the rule patches of *)
(* patch_text.go, which edit lines in place, and the three requests that   *)
(* write the whole file from its parsed form: a structured PUT of what the *)
(* structured GET returned, a CSV import of the exported CSV, and an       *)
(* import of pasted rules.  Requests come one at a time here; ConfigWrites *)
(* has their interleavings.                                                *)
(***************************************************************************)
EXTENDS RuleFormats

CONSTANTS
  InitTexts,   \* what each file may hold at first: people edit it, too
  Pasted,      \* the rules of text imports
  NoComment,   \* a patch without a comment, or with an empty one
  MaxRequests

ASSUME TextAssumption ==
  /\ NoComment \notin Comments
  /\ Pasted \subseteq Seq(Values)
  /\ MaxRequests \in Nat
  /\ \A f \in Files : InitTexts[f] \subseteq [lines : Seq(Lines(f)), nl : BOOLEAN]

VARIABLES
  file,    \* which of the two files
  text,    \* its content
  count,   \* requests served
  last     \* the last request and its answer

vars == <<file, text, count, last>>

Patches == [op : {"add", "delete"}, target : Targets, rule : Values,
            comment : Comments \cup {NoComment}]
Imports == [op : {"paste"}, target : Targets, rules : Pasted, enabled : BOOLEAN]
Requests == Patches \cup Imports \cup [op : {"none", "put", "csv"}]

(***************************************************************************)
(* Groups as the patches see them                                          *)
(***************************************************************************)

(* commentBlockStart: the first of the comments right above line i. *)
BlockStart(lines, i) == Least({s \in 1..i : \A j \in s..(i - 1) : IsComment(lines[j])})

(* commentMatchesLineGroup: one of those comments is the requested one. *)
InGroup(lines, i, comment) ==
  comment = NoComment \/ \E j \in BlockStart(lines, i)..(i - 1) : lines[j].text = comment

(* The lines of domain.conf, or headers of ip.list, that are active for a   *)
(* target (splitActiveDomainLine).                                          *)
Active(lines, target) ==
  {i \in DOMAIN lines : lines[i].kind \in {"rules", "/"} /\ lines[i].target = target}

Same(v, w) == Fold(v) = Fold(w)

Holds(f, lines, i, v) == \E w \in ToSet(RulesOf(f, lines, i)) : Same(v, w)

(* The lines a patch is about: without a comment, all of the target. *)
Scope(lines, p) == {i \in Active(lines, p.target) : InGroup(lines, i, p.comment)}

DuplicateNever(f, lines, p) == FALSE

(* duplicateRuleGroupError: the rule exists in another group of the target. *)
Duplicate(f, lines, p) ==
  \E i \in Active(lines, p.target) \ Scope(lines, p) : Holds(f, lines, i, p.rule)

(* domainPatchToken and cidrPatchToken. *)
Token(f, v) == Spelled(f, v)

(***************************************************************************)
(* Adding                                                                  *)
(***************************************************************************)

CommentLines(p) == IF p.comment = NoComment THEN <<>> ELSE <<Comment(p.comment)>>

(* No line of the target, or none in the group: new lines at the end. *)
NewLines(f, p) ==
  CommentLines(p) \o
    IF f = "cidr" THEN <<Header(p.target), Entry(Token(f, p.rule))>>
    ELSE <<RulesLine(<<Token(f, p.rule)>>, p.target)>>

ExtendedFirst(f, lines, p) ==
  LET active == Active(lines, p.target)
      i == Least(active)
  IN  CASE active = {} -> lines \o NewLines(f, p)
        [] active # {} /\ f = "domain" ->
             [lines EXCEPT ![i] = RulesLine(Append(@.rules, Token(f, p.rule)), p.target)]
        [] OTHER -> InsertAt(lines, BlockEnd(lines, i) + 1, Entry(Token(f, p.rule)))

(* domain.conf: the first line in scope gets the rule.  ip.list: the last   *)
(* block in scope does, after its last line.                                *)
Extended(f, lines, p) ==
  LET scope == Scope(lines, p)
      i == Least(scope)
      at == BlockEnd(lines, Greatest(scope))
  IN  CASE scope = {} -> lines \o NewLines(f, p)
        [] scope # {} /\ f = "domain" ->
             [lines EXCEPT ![i] = RulesLine(Append(@.rules, Token(f, p.rule)), p.target)]
        [] OTHER -> InsertAt(lines, at + 1, Entry(Token(f, p.rule)))

AddedAgain(f, lines, p) == Extended(f, lines, p)

Added(f, lines, p) ==
  IF \E i \in Scope(lines, p) : Holds(f, lines, i, p.rule) THEN lines ELSE Extended(f, lines, p)

(***************************************************************************)
(* Deleting                                                                *)
(***************************************************************************)

Without(lines, gone) == Those(lines, DOMAIN lines \ gone)

(* Line i and its comments. *)
Whole(lines, i) == BlockStart(lines, i)..i

EmptyBlocksKept(lines, target) == lines

NoEmptyBlocksOrBlanks(lines, target) ==
  LET filled(line) == line # Blank /\ ~(line.kind = "/" /\ line.target = target)
  IN  IF \E i \in Active(lines, target) : BlockEnd(lines, i) = i
      THEN Select(lines, filled) ELSE lines

(* removeEmptyCIDRBlocks: every block of the target without a line in it,   *)
(* with its comments.                                                       *)
NoEmptyBlocks(lines, target) ==
  Without(lines, UNION {Whole(lines, i) : i \in
                          {j \in Active(lines, target) : BlockEnd(lines, j) = j}})

(* domain.conf: the rule leaves its lines, and a line left without rules    *)
(* goes.                                                                    *)
DeletedDomain(lines, p) ==
  LET hit == {i \in Scope(lines, p) : Holds("domain", lines, i, p.rule)}
      other(v) == ~Same(v, p.rule)
      kept(i) == Select(lines[i].rules, other)
      edited == [i \in DOMAIN lines |-> IF i \in hit THEN RulesLine(kept(i), p.target) ELSE lines[i]]
  IN  Without(edited, UNION {Whole(lines, i) : i \in {j \in hit : kept(j) = <<>>}})

(* ip.list: the entries go, and if there was one, so do empty blocks. *)
DeletedCIDR(lines, p) ==
  LET hit == {j \in DOMAIN lines :
                /\ lines[j].kind = "entry" /\ Same(lines[j].rule, p.rule)
                /\ \E i \in Scope(lines, p) : j \in i..BlockEnd(lines, i)}
  IN  IF hit = {} THEN lines ELSE NoEmptyBlocks(Without(lines, hit), p.target)

Deleted(f, lines, p) ==
  IF f = "cidr" THEN DeletedCIDR(lines, p) ELSE DeletedDomain(lines, p)

(***************************************************************************)
(* Requests                                                                *)
(***************************************************************************)

Answer(request, status) == [request |-> request, status |-> status]

Init ==
  /\ file \in Files
  /\ text \in InitTexts[file]
  /\ count = 0
  /\ last = Answer([op |-> "none"], 200)

(* Write the new text and answer 200; a refused request leaves the file. *)
Save(request, new) ==
  /\ text' = new
  /\ count' = count + 1
  /\ last' = Answer(request, 200)
  /\ UNCHANGED file

Refuse(request, status) ==
  /\ count' = count + 1
  /\ last' = Answer(request, status)
  /\ UNCHANGED <<file, text>>

(* POST .../targets/{target}/rules *)
AddRule(p) ==
  /\ p.op = "add" /\ Sound(file, p.rule)
  /\ ~Duplicate(file, text.lines, p)
  /\ Save(p, Join(Added(file, text.lines, p), text.nl))

AddRefused(p) ==
  /\ p.op = "add" /\ Sound(file, p.rule)
  /\ Duplicate(file, text.lines, p)
  /\ Refuse(p, 409)

(* DELETE .../targets/{target}/rules *)
DeleteRule(p) ==
  /\ p.op = "delete" /\ Sound(file, p.rule)
  /\ Save(p, Join(Deleted(file, text.lines, p), text.nl))

(* Either with a rule that the file cannot have. *)
PatchInvalid(p) ==
  /\ ~Sound(file, p.rule)
  /\ Refuse(p, 400)

(* GET the structured form, PUT it back. *)
PutBack ==
  LET groups == Parse(file, text.lines)
      request == [op |-> "put"]
  IN  IF Valid(file, groups) THEN Save(request, Render(file, groups)) ELSE Refuse(request, 400)

(* GET /export/csv, then POST /import/csv/apply with it.  The other file's  *)
(* rows come back to the other file.                                        *)
ExportImport ==
  LET groups == Import(Export(Parse(file, text.lines)))
      request == [op |-> "csv"]
  IN  IF Valid(file, groups) THEN Save(request, Render(file, groups)) ELSE Refuse(request, 400)

(* POST /import/text/apply: the pasted rules are one more group. *)
ImportText(p) ==
  LET pasted == Group(p.target, p.enabled, <<>>,
                      Select(p.rules, IsTag), Select(p.rules, NotTag))
  IN  IF Valid(file, <<pasted>>)
      THEN Save(p, Render(file, Append(Parse(file, text.lines), pasted)))
      ELSE Refuse(p, 400)

Next ==
  /\ count < MaxRequests
  /\ \/ \E p \in Patches : AddRule(p) \/ AddRefused(p) \/ DeleteRule(p) \/ PatchInvalid(p)
     \/ PutBack
     \/ ExportImport
     \/ \E p \in Imports : ImportText(p)

Spec == Init /\ [][Next]_vars

-----------------------------------------------------------------------------
(***************************************************************************)
(* Properties                                                              *)
(***************************************************************************)

TypeOK ==
  /\ file \in Files
  /\ text \in [lines : Seq(Lines(file)), nl : BOOLEAN]
  /\ count \in Nat
  /\ last.request \in Requests /\ last.status \in {200, 400, 409}

Rules(lines) == Flat(Parse(file, lines))

(* Requests answered with 200. *)
Served(op) == last'.request.op = op /\ last'.status = 200 /\ count' # count

(* The comments of every group stand right above it.  Where a note or a     *)
(* rule outside a block stands between, the patches do not see the comment  *)
(* that the structured views show.                                          *)
CommentsAdjoin(lines) ==
  \A i \in DOMAIN lines :
    IsGroup(lines[i]) => Len(Pending(lines, i)) = i - BlockStart(lines, i)

EndsInComment(lines) == lines # <<>> /\ IsComment(Last(lines))

(* The rule r is what patch p names. *)
Named(p, r) ==
  /\ r.enabled /\ r.target = p.target /\ Same(r.rule, p.rule)
  /\ p.comment = NoComment \/ p.comment \in ToSet(r.comment)

(* A rule patch changes the rule it names and no other: an added rule is    *)
(* there, in its group, once; a deleted one is gone from its group; every   *)
(* other rule keeps its target, group, state, spelling and place             *)
(* (patchDomainConfigText, patchCIDRConfigText read by the parsers).        *)
OnlyTheRule ==
  LET before == Rules(text.lines)
      after == Rules(text'.lines)
      p == last'.request
      other(r) == ~Named(p, r)
      named(r) == Named(p, r)
      isNew(i) == Named(p, after[i]) /\ RemoveAt(after, i) = before
  IN  CommentsAdjoin(text.lines) =>
        /\ Served("add") =>
             IF Select(before, named) = <<>> THEN \E i \in DOMAIN after : isNew(i)
             ELSE after = before
        /\ Served("delete") => after = Select(before, other)
PatchesTouchOnlyTheRule == [][OnlyTheRule]_vars

(* The lines outside the blocks of the target and their comments. *)
Others(lines, target) ==
  LET block(i) == Whole(lines, i) \cup i..(IF file = "cidr" THEN BlockEnd(lines, i) ELSE i)
  IN  Without(lines, UNION {block(i) : i \in Active(lines, target)})

BlankAtEnd(lines) == lines # <<>> /\ Last(lines) = Blank
TrimEnd(lines) ==
  LET more == {i \in DOMAIN lines : lines[i] # Blank}
  IN  IF more = {} THEN <<>> ELSE SubSeq(lines, 1, Greatest(more))

(* README.en.md: "Narrow writes preserve unrelated config bytes."  A patch  *)
(* leaves every line outside the blocks of its target as it is, notes,      *)
(* blank lines and disabled targets included, and ends the last line as     *)
(* before.  Only blank lines at the end of the file may change: one of them *)
(* is lost with the unterminated line below it.  (Lines put after all       *)
(* others may make a comment there the target's.)                           *)
UnrelatedLinesStay ==
  [][Served("add") \/ Served("delete") =>
       LET was == Others(text.lines, last'.request.target)
           is == Others(text'.lines, last'.request.target)
       IN  \/ IsPrefix(text.lines, text'.lines) /\ text'.nl = text.nl
           \/ /\ TrimEnd(is) = TrimEnd(was)
              /\ BlankAtEnd(was) \/ (is = was /\ (text'.nl = text.nl \/ is = <<>>))]_vars

(* A block of the target without any rule, which a delete would remove. *)
Bare(lines, target) ==
  \E i \in Active(lines, target) :
    IF file = "cidr" THEN BlockEnd(lines, i) = i ELSE lines[i].rules = <<>>

(* A client that adds a rule and deletes it again leaves every byte of the  *)
(* file as it was, the end of the last line included.  Not so where the add *)
(* filled a block that was empty or extended a comment at the end of the    *)
(* file, which the delete takes away, or where the file was one newline.    *)
AddThenDelete ==
  [][LET p == last'.request
         undone == Join(Deleted(file, text'.lines, p), text'.nl)
         listed(i) == Holds(file, text.lines, i, p.rule)
     IN  /\ Served("add")
         /\ ~\E i \in Active(text.lines, p.target) : listed(i)
         /\ ~Bare(text.lines, p.target)
         /\ Scope(text.lines, p) # {} \/ ~EndsInComment(text.lines)
         /\ text # Newline
         => undone = text]_vars

(* A client that lost the answer may repeat its patch: the second one is    *)
(* not refused and changes nothing (a file of one newline becomes empty).   *)
Unchanged(new, old) == new = old \/ (old = Newline /\ new = NoText)
RetryChangesNothing ==
  [][/\ Served("add") =>
          /\ ~Duplicate(file, text'.lines, last'.request)
          /\ Unchanged(Join(Added(file, text'.lines, last'.request), text'.nl), text')
     /\ Served("delete") =>
          Unchanged(Join(Deleted(file, text'.lines, last'.request), text'.nl), text')]_vars

(* No target lists a rule twice, in any spelling. *)
NoDuplicates(lines) ==
  LET rules == Rules(lines)
      clash(r, q) == r.target = q.target /\ r.enabled /\ q.enabled /\ Same(r.rule, q.rule)
  IN  \A i, j \in DOMAIN rules : i # j => ~clash(rules[i], rules[j])

(* Patches, in any groups and any order, never make a target list a rule    *)
(* twice: that is what the answer 409 is for (duplicateRuleGroupError).     *)
PatchesKeepRulesUnique ==
  [][(Served("add") \/ Served("delete")) /\ NoDuplicates(text.lines)
       => NoDuplicates(text'.lines)]_vars

(* What a written group reads as: a domain that is spelled like a tag has   *)
(* become that tag; a disabled target of domain.conf has no rules.          *)
Reread(g) ==
  IF file = "domain" /\ ~g.enabled THEN [g EXCEPT !.tags = <<>>, !.values = <<>>]
  ELSE [g EXCEPT !.tags = @ \o Select(g.values, IsTag), !.values = Select(@, NotTag)]

(* Writing the file from its parsed form loses no rule and moves none to    *)
(* another group: after a structured PUT of what GET returned, or an import *)
(* of pasted text, which adds a group, the file reads as the groups that    *)
(* were written, each with its target, state, comments and rules, except    *)
(* that a domain GEOSITE:x has become the tag geosite:x                      *)
(* (renderDomainConfig and parseDomainConfig, renderCIDRConfig and          *)
(* parseCIDRConfig).  domain.conf has no line for a target without rules.   *)
RewritesKeepRules ==
  [][Served("put") \/ Served("paste") =>
       LET p == last'.request
           spelled(v) == Spelled(file, v)
           pasted == Group(p.target, p.enabled, <<>>, Select(p.rules, IsTag),
                           Map(spelled, Select(p.rules, NotTag)))
           groups == Parse(file, text.lines) \o IF p.op = "paste" THEN <<pasted>> ELSE <<>>
           written(g) == file = "cidr" \/ ~g.enabled \/ ~Empty(g)
       IN  Parse(file, text'.lines) = Map(Reread, Select(groups, written))]_vars

(* An export that is imported again shows the same grouped view: the same   *)
(* targets in the same order, enabled as before, with the same rules, even  *)
(* though it joins the groups of a target (exportRoutingCSV,                *)
(* parseRoutingCSV, groupDomainTargets); only a domain GEOSITE:x comes back *)
(* as the tag geosite:x, after the other tags.  Enabled groups without      *)
(* rules are not exported.  The view does not show which groups of a target *)
(* are enabled: a disabled block of ip.list next to an enabled one of its   *)
(* target comes back enabled, and its rules become active.                  *)
ExportKeepsView ==
  [][Served("csv") /\ Valid(file, Parse(file, text.lines)) =>
       LET reread(t) == [t EXCEPT !.tags = UniqueFold(@ \o Select(t.values, IsTag)),
                                  !.values = Select(@, NotTag)]
       IN  View(Parse(file, text'.lines)) = Map(reread, View(Parse(file, text.lines)))]_vars
=============================================================================
