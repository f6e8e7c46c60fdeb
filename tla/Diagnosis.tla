------------------------------ MODULE Diagnosis ------------------------------
(***************************************************************************)
(* What the program says about the rules without changing them: which      *)
(* target a domain or an address goes to (diagnostics.go), what is wrong   *)
(* with a configuration (validation.go), and which targets there are       *)
(* (targets.go).  They read the parsed rule files, PolicyOrder in          *)
(* hrneo.conf, and geoip.dat, which GeoDat has; others change these        *)
(* (external: RuleText, HRNeoSettings and GeoDataStore have the requests). *)
(*                                                                         *)
(* A domain is the sequence of its labels, the top level first, in lower   *)
(* case, as the parser leaves it.                                          *)
(***************************************************************************)
EXTENDS GeoDat

CONSTANTS
  Labels,        \* of domains
  Names,         \* every target, in the order of their names
  DomainGroups,  \* groups of domain.conf
  Blocks,        \* blocks of ip.list
  MaxGroups,
  PolicyOrders,  \* values of PolicyOrder; it may name other targets, and one twice
  Domains,       \* domains that are asked about
  NoFile         \* the file does not exist

Targets == ToSet(Names)

(* Groups of rules of one target, and blocks of prefixes. *)
GroupsOf(value) == [target : Targets, enabled : BOOLEAN, tags : Seq(Seq(Bytes)), values : Seq(value)]
RuleGroups == GroupsOf(Seq(Labels))
PrefixBlocks == GroupsOf([ip : Seq(Bytes), bits : 0..(Limit - 1)])

ASSUME DiagnosisAssumption ==
  /\ Names \in Seq(Targets) /\ \A i, j \in DOMAIN Names : Names[i] = Names[j] => i = j
  /\ \A o \in PolicyOrders : o \in Seq(ToSet(o))
  /\ \A d \in Domains : d \in Seq(Labels)
  /\ \A g \in DomainGroups : g \in RuleGroups /\ g.enabled /\ (g.values # <<>> \/ g.tags # <<>>)
  /\ \A b \in Blocks : b \in PrefixBlocks /\ (b.values # <<>> \/ b.tags # <<>>)
  /\ NoFile \notin Seq(DomainGroups) /\ NoFile \notin Seq(Blocks)

(* An entry of ip.list is a prefix: validateIPOrPrefix refuses any other.   *)
ASSUME BlocksAssumption ==
  \A b \in Blocks : \A c \in ToSet(b.values) : Len(c.ip) \in {1, 2} /\ c.bits <= BitLen(IP(c.ip))

VARIABLES
  domains,  \* domain.conf, parsed
  blocks,   \* ip.list, parsed
  order     \* PolicyOrder

ruleVars == <<domains, blocks, order>>
diagVars == <<ruleVars, datVars>>

(* The rules as they are, and as they are after a step. *)
Now == [domains |-> domains, blocks |-> blocks, order |-> order]
Then == [domains |-> domains', blocks |-> blocks', order |-> order']

Groups(f) == IF f = NoFile THEN <<>> ELSE f
Enabled(f) == {g \in ToSet(Groups(f)) : g.enabled}
NamesOf(groups) == {g.target : g \in groups}

-----------------------------------------------------------------------------
(* Diagnosis.                                                               *)

Used(ds, bs) == NamesOf(Enabled(ds)) \cup NamesOf(Enabled(bs))

OrderAsFound(ds, bs, po) ==
  LET groups == Groups(ds) \o Groups(bs)
  IN  FirstOnes(po \o [i \in DOMAIN groups |-> groups[i].target], Used(ds, bs))

(* diagnosticTargetOrder: the targets in use, those of PolicyOrder first,   *)
(* and the rest in the order of their names.                                *)
TargetOrder(ds, bs, po) == FirstOnes(po \o Names, Used(ds, bs))

(* priorityMap, targetPriority: a place in the order. *)
Priority(names, target) ==
  IF Contains(names, target) THEN CHOOSE i \in DOMAIN names : names[i] = target
  ELSE Len(names) + 1

None == [none |-> TRUE]

MostSpecific(candidates) ==
  LET first == {c \in candidates : \A d \in candidates : c.specific >= d.specific}
      named(c) == [target |-> c.target, rule |-> c.rule]
  IN  IF first = {} THEN None ELSE named(CHOOSE c \in first : TRUE)

(* The first of the candidates as the code sorts them: by priority, then    *)
(* the more specific ones first.  Candidates that are equal in both are one *)
(* rule, or one prefix, of one target, so it never looks further.           *)
Winner(candidates) ==
  LET before(c, d) == c.priority < d.priority \/ (c.priority = d.priority /\ c.specific >= d.specific)
      first == {c \in candidates : \A d \in candidates : before(c, d)}
      named(c) == [target |-> c.target, rule |-> c.rule]
  IN  IF first = {} THEN None ELSE named(CHOOSE c \in first : TRUE)

(* domainRuleMatch: the rule is the domain, or a suffix of its labels. *)
Matches(domain, rule) == IsPrefix(rule, domain)
Specificity(domain, rule) == IF domain = rule THEN Len(rule) + 1 ELSE Len(rule)

(* diagnoseDomain: disabled targets do not count, nor do tags. *)
DomainCandidates(f, domain) ==
  LET names == TargetOrder(f.domains, <<>>, f.order)
      candidate(g, rule) ==
        [target |-> g.target, rule |-> rule, exact |-> rule = domain,
         priority |-> Priority(names, g.target), specific |-> Specificity(domain, rule)]
      ofGroup(g) == {candidate(g, rule) : rule \in {r \in ToSet(g.values) : Matches(domain, r)}}
  IN  UNION {ofGroup(g) : g \in Enabled(f.domains)}

(* Without domain.conf the request is answered 400. *)
DiagnoseDomain(domain) == IF domains = NoFile THEN Refused ELSE Winner(DomainCandidates(Now, domain))

Candidate(names, target, prefix) ==
  [target |-> target, rule |-> prefix, specific |-> prefix.bits,
   priority |-> Priority(names, target)]

(* appendCIDRDiagnosticMatches. *)
CIDRCandidates(f, address) ==
  LET names == TargetOrder(f.domains, f.blocks, f.order)
      prefixes(b) == {Masked(IP(c.ip), c.bits) : c \in ToSet(b.values)}
      ofBlock(b) == {Candidate(names, b.target, p) : p \in {q \in prefixes(b) : Holds(q, address)}}
  IN  UNION {ofBlock(b) : b \in Enabled(f.blocks)}

(* appendGeoIPDiagnosticMatches: a .dat file that is refused is a note. *)
GeoIPCandidates(f, address) ==
  LET names == TargetOrder(f.domains, f.blocks, f.order)
      found(scan) == IF scan.ok THEN ToSet(scan.found) ELSE {}
      prefixes(b) == UNION {found(PrefixesContaining(data, tag, address)) : tag \in ToSet(b.tags)}
      ofBlock(b) == {Candidate(names, b.target, p) : p \in prefixes(b)}
  IN  UNION {ofBlock(b) : b \in Enabled(f.blocks)}

(* applyConfiguredIPWinner. *)
ConfiguredWinner(f, address) == Winner(CIDRCandidates(f, address) \cup GeoIPCandidates(f, address))

(* ipRuntimeEvidence: the first target, in their order, whose ipset has it. *)
FirstIn(names, members) ==
  LET held == {i \in DOMAIN names : names[i] \in members}
  IN  IF held = {} THEN {} ELSE {names[Min(held)]}
RuntimeTarget(members) == FirstIn(TargetOrder(domains, blocks, order), members)

(* diagnoseIP: what the kernel holds goes before what is configured, and    *)
(* the prefix stays that of the configuration.                              *)
DiagnoseIP(address, members) ==
  LET answer(winner, runtime) ==
        [matched |-> winner # None \/ runtime # {},
         target |-> IF runtime # {} THEN runtime ELSE IF winner = None THEN {} ELSE {winner.target}]
  IN  IF blocks = NoFile THEN Refused
      ELSE answer(ConfiguredWinner(Now, address), RuntimeTarget(members))

-----------------------------------------------------------------------------
(* Validation.                                                              *)

(* The keys of enabled groups, in the order of the file; keys[i] are those  *)
(* of the i-th group.                                                       *)
Routed(f, keys) ==
  LET ofGroup(i) == [k \in DOMAIN keys[i] |-> [key |-> keys[i][k], target |-> Groups(f)[i].target]]
  IN  FlattenSeq([i \in DOMAIN keys |-> IF Groups(f)[i].enabled THEN ofGroup(i) ELSE <<>>])
Values(f) == [i \in DOMAIN Groups(f) |-> Groups(f)[i].values]
TagKeys(f) ==
  LET upper(tags) == [k \in DOMAIN tags |-> Upper(tags[k])]
  IN  [i \in DOMAIN Groups(f) |-> upper(Groups(f)[i].tags)]

Issue(code, prev, this) == [code |-> code, key |-> this.key, prev |-> prev.target, target |-> this.target]

(* Two of a list, the earlier one first. *)
Pairs(list) == {p \in (DOMAIN list) \X (DOMAIN list) : p[1] < p[2]}

(* The same key again: a warning each time, about the first. *)
Repeated(list) ==
  LET first(i) == \A j \in 1..(i - 1) : list[j].key # list[i].key
      again == {p \in Pairs(list) : first(p[1]) /\ list[p[1]].key = list[p[2]].key}
      code(p) == IF list[p[1]].target = list[p[2]].target THEN "duplicate" ELSE "conflicting"
  IN  {Issue(code(p), list[p[1]], list[p[2]]) : p \in again}

(* validateDomainConfigDeep. *)
DomainIssues(f) == Repeated(Routed(f, Values(f))) \cup Repeated(Routed(f, TagKeys(f)))

Start(p) == [size |-> p.size, at |-> p.net * 2^(4 * p.size - p.bits)]

OverlapOneSided(p, q) == Holds(p, Start(q))

(* prefixesOverlap. *)
Overlap(p, q) == Holds(p, Start(q)) \/ Holds(q, Start(p))

(* validateCIDRConfigDeep: every pair of prefixes that overlap. *)
EntryIssues(f) ==
  LET list == Routed(f, Values(f))
      prefix(i) == Masked(IP(list[i].key.ip), list[i].key.bits)
      code(p) == IF list[p[1]].target # list[p[2]].target THEN "conflicting"
                 ELSE IF prefix(p[1]) = prefix(p[2]) THEN "duplicate" ELSE "overlapping"
      overlapping == {p \in Pairs(list) : Overlap(prefix(p[2]), prefix(p[1]))}
  IN  {Issue(code(p), list[p[1]], list[p[2]]) : p \in overlapping}
CIDRIssues(f) == Repeated(Routed(f, TagKeys(f))) \cup EntryIssues(f)

-----------------------------------------------------------------------------
(* Targets.                                                                 *)

MergeLast(enabled, more) == more

(* mergeEnabled: one enabled group enables the target. *)
MergeEnabled(enabled, more) == IF more THEN TRUE ELSE enabled

Count(g) == Len(g.values) + Len(g.tags)

(* The sum of a sequence of numbers. *)
Total(numbers) ==
  LET upTo[n \in 0..Len(numbers)] == IF n = 0 THEN 0 ELSE upTo[n - 1] + numbers[n]
  IN  upTo[Len(numbers)]

(* ensureTarget, for each of the groups of a target. *)
EnabledIn(groups, n) ==
  LET upTo[i \in 0..Len(groups)] ==
        IF i = 0 THEN FALSE
        ELSE IF groups[i].target = n THEN MergeEnabled(upTo[i - 1], groups[i].enabled)
        ELSE upTo[i - 1]
  IN  upTo[Len(groups)]

(* targetInventory: every target that a file or PolicyOrder names. *)
Inventory ==
  LET all == Groups(domains) \o Groups(blocks)
      rules(groups, n) ==
        Total([i \in DOMAIN groups |-> IF groups[i].target = n THEN Count(groups[i]) ELSE 0])
  IN  [n \in NamesOf(ToSet(Groups(domains))) \cup NamesOf(ToSet(Groups(blocks))) \cup ToSet(order) |->
         [enabled |-> EnabledIn(all, n),
          domainRules |-> rules(Groups(domains), n),
          cidrRules |-> rules(Groups(blocks), n)]]

(* handleOverview: countDomainRules, countCIDRRules. *)
RuleCount(f) ==
  LET groups == Groups(f)
  IN  Total([i \in DOMAIN groups |-> IF groups[i].enabled THEN Count(groups[i]) ELSE 0])

-----------------------------------------------------------------------------
(* Changes by others.                                                       *)

RuleInit ==
  /\ domains \in {NoFile, <<>>} /\ blocks \in {NoFile, <<>>}
  /\ order = <<>>

Size == Len(Groups(domains)) + Len(Groups(blocks))

AddDomains(g) ==
  /\ Size < MaxGroups
  /\ domains' = Append(Groups(domains), g)
  /\ UNCHANGED <<blocks, order>>

AddBlock(b) ==
  /\ Size < MaxGroups
  /\ blocks' = Append(Groups(blocks), b)
  /\ UNCHANGED <<domains, order>>

(* The line of a disabled target of domain.conf has no rules. *)
SwitchedOff(g) == [target |-> g.target, enabled |-> FALSE, tags |-> <<>>, values |-> <<>>]

(* A group goes, or is switched off; a block of ip.list keeps its rules     *)
(* then, and may be switched on again.                                      *)
EditDomains(i) ==
  /\ domains' \in {RemoveAt(domains, i), [domains EXCEPT ![i] = SwitchedOff(@)]}
  /\ UNCHANGED <<blocks, order>>

EditBlocks(i) ==
  /\ blocks' \in {RemoveAt(blocks, i), [blocks EXCEPT ![i].enabled = ~@]}
  /\ UNCHANGED <<domains, order>>

SetOrder(o) ==
  /\ order' = o /\ o # order
  /\ UNCHANGED <<domains, blocks>>

RuleNext ==
  \/ \E g \in DomainGroups : AddDomains(g)
  \/ \E b \in Blocks : AddBlock(b)
  \/ \E i \in DOMAIN Groups(domains) : EditDomains(i)
  \/ \E i \in DOMAIN Groups(blocks) : EditBlocks(i)
  \/ \E o \in PolicyOrders : SetOrder(o)

(* The .dat file and the rules change one at a time. *)
Init == RuleInit /\ DatInit
Next ==
  \/ DatNext /\ UNCHANGED ruleVars
  \/ RuleNext /\ UNCHANGED datVars
Spec == Init /\ [][Next]_diagVars

-----------------------------------------------------------------------------
(* Properties.                                                              *)

(* What the files hold: groups of known targets, and bytes. *)
TypeOK ==
  /\ domains \in {NoFile} \cup Seq(RuleGroups)
  /\ blocks \in {NoFile} \cup Seq(PrefixBlocks)
  /\ order \in {<<>>} \cup PolicyOrders
  /\ DatTypeOK

(* The pairs of target and rule, or prefix, of some candidates. *)
RulesFor(candidates) == {[target |-> c.target, rule |-> c.rule] : c \in candidates}

(* The answer about a domain, or about an address by the prefixes of        *)
(* ip.list, moves only with the rules that match it: as long as PolicyOrder *)
(* stays, it names another winner only if the old one's rule is gone or the *)
(* new one's has come.  Other rules and targets may come, go, or change     *)
(* their place in the files.                                                *)
AnswersMoveWithTheirRules ==
  [][order' = order =>
       LET moved(before, after) ==
             LET was == Winner(before)
                 is == Winner(after)
             IN  was # is => was \notin RulesFor(after) \/ is \notin RulesFor(before)
       IN  /\ \A d \in Domains : moved(DomainCandidates(Now, d), DomainCandidates(Then, d))
           /\ \A a \in Addresses : moved(CIDRCandidates(Now, a), CIDRCandidates(Then, a))]_diagVars

(* The target a diagnosis names for an address is the first of the order    *)
(* with an enabled block that holds it, by an entry of its own or by a tag  *)
(* whose entry in a .dat file that can be read was meant to have it: from   *)
(* the bytes of the file through the lists of candidates to the answer.     *)
RoutesTo(address, n) ==
  \E b \in Enabled(blocks) :
    /\ b.target = n
    /\ \/ \E c \in ToSet(b.values) : Holds(Masked(IP(c.ip), c.bits), address)
       \/ /\ \A i \in DOMAIN stored : Fits(stored[i])
          /\ \E tag \in ToSet(b.tags) : Meant(stored, tag, address) # {}
AddressGoesToFirst ==
  damage = "none" /\ blocks # NoFile =>
    \A a \in Addresses :
      LET routed == FirstIn(TargetOrder(domains, blocks, order), {n \in Targets : RoutesTo(a, n)})
      IN  /\ DiagnoseIP(a, {}).matched <=> routed # {}
          /\ DiagnoseIP(a, {}).target = routed

(* Validation warns of a conflict exactly where a diagnosis could name two  *)
(* targets: for a domain that two targets list, and for two targets if and  *)
(* only if some address is in a prefix of each.                             *)
AllAddresses == [size : {1}, at : 0..15] \cup [size : {2}, at : 0..255]
WarningsAreConflicts ==
  LET conflicts(issues) == {i \in issues : i.code = "conflicting"}
      exact(d) == {c \in DomainCandidates(Now, d) : c.exact}
      entries == Routed(blocks, Values(blocks))
      asked == {a \in AllAddresses : \E i \in DOMAIN entries : Len(entries[i].key.ip) = a.size}
      routes == {{c.target : c \in CIDRCandidates(Now, a)} : a \in asked}
  IN  /\ \A d \in Domains :
           Cardinality({c.target : c \in exact(d)}) > 1 <=>
             \E i \in conflicts(Repeated(Routed(domains, Values(domains)))) : i.key = d
      /\ {{i.prev, i.target} : i \in conflicts(EntryIssues(blocks))} =
           {both \in SUBSET Targets : Cardinality(both) = 2 /\ \E targets \in routes : both \subseteq targets}

(* The pages agree about the targets in use: those the inventory shows as   *)
(* enabled are those in the order of a diagnosis, each once, so whatever a  *)
(* diagnosis names is shown.  And they agree about the rules: those that    *)
(* the inventory counts for the targets of domain.conf are together those   *)
(* that the overview counts; for ip.list they are those and the rules of    *)
(* disabled blocks, which the overview leaves out (targetInventory,         *)
(* countDomainRules, countCIDRRules, diagnosticTargetOrder).                *)
TargetsAgree ==
  LET names == TargetOrder(domains, blocks, order)
      used == {n \in DOMAIN Inventory : Inventory[n].enabled}
      forTargets(count(_)) ==
        Total([i \in DOMAIN Names |->
                 IF Names[i] \in DOMAIN Inventory THEN count(Inventory[Names[i]]) ELSE 0])
      domainRules(info) == info.domainRules
      cidrRules(info) == info.cidrRules
      disabled(groups) ==
        Total([i \in DOMAIN groups |-> IF groups[i].enabled THEN 0 ELSE Count(groups[i])])
  IN  /\ ToSet(names) = used /\ Len(names) = Cardinality(used)
      /\ forTargets(domainRules) = RuleCount(domains)
      /\ forTargets(cidrRules) = RuleCount(blocks) + disabled(Groups(blocks))
      /\ \A members \in SUBSET Targets, a \in Addresses :
           blocks # NoFile => DiagnoseIP(a, members).target \subseteq used
=============================================================================
