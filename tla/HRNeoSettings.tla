---------------------------- MODULE HRNeoSettings ----------------------------
(***************************************************************************)
(* What the program does to hrneo.conf, the settings of HR Neo: one        *)
(* `key=value` per line, which people and HR Neo's installer edit too.     *)
(* The structured PUT and the generated default rewrite the whole file     *)
(* from its parsed form; the target order and the link to a GeoData file   *)
(* edit lines in place.  Requests come one at a time here; ConfigWrites    *)
(* has their interleavings.                                                *)
(*                                                                         *)
(* The known keys differ only in their kind, so a few of each stand for    *)
(* the 27 of hrneoConfigOrder.  A setting is a sequence of at most one     *)
(* value: a nil pointer is the empty one.                                  *)
(***************************************************************************)
EXTENDS Integers, SequencesExt

CONSTANTS
  KeyOrder,     \* the known keys, in the order they are written (hrneoConfigOrder)
  OtherKeys,    \* keys HydraBridge does not know, as sort.Strings orders them
  Kind,         \* the kind of each known key
  Words,        \* values as text
  Trim,         \* strings.TrimSpace
  LineBroken,   \* the words that have a line break in them
  Pieces,       \* what such a word is in a file: the value of its line, and more lines
  Separated,    \* the words that have a comma or a slash in them
  NotANumber,   \* any text strconv.Atoi finds no number in
  NoFile,       \* what the file is when it does not exist
  Modes,        \* the log modes HR Neo has
  MaxInt,       \* the largest int of the build
  Default,      \* defaultHRNeoConfig
  InitTexts,    \* what the file may hold at first
  Patches,      \* bodies of structured writes
  Orders, Links,\* target orders and GeoData paths that requests name
  MaxRequests

Keys == ToSet(KeyOrder)
ListKeys == {k \in Keys : Kind[k] = "list"}
OrderKey == CHOOSE k \in Keys : Kind[k] = "order"
Note == [key |-> "#", val |-> ""]  \* a comment, a blank line, a line without "="
NoName == ""                       \* the key of the line "=x"

Plain == Words \ LineBroken
MinInt == -MaxInt - 1

(* What the line of a key may say, and what a file may hold.                *)
Said(k) ==
  IF k \in Keys /\ Kind[k] \in {"int", "positive"} THEN Int \cup {NotANumber}
  ELSE IF k = OrderKey THEN Seq(Plain)
  ELSE Plain

Names == Keys \cup ToSet(OtherKeys) \cup {NoName}

Lines == {Note} \cup UNION {[key : {k}, val : Said(k)] : k \in Names}

IsLine(l) ==
  \/ l = Note
  \/ /\ l.key \in Names
     /\ l \in [key : {l.key}, val : Said(l.key)]

AreLines(lines) == lines \in Seq(ToSet(lines)) /\ \A i \in DOMAIN lines : IsLine(lines[i])

IsText(text) ==
  \/ text = NoFile
  \/ text \in [lines : {text.lines}, nl : BOOLEAN] /\ AreLines(text.lines)

(* What a setting holds in the program.                                     *)
Held(k) ==
  CASE Kind[k] = "bool" -> BOOLEAN
    [] Kind[k] \in {"int", "positive"} -> MinInt..MaxInt
    [] Kind[k] \in {"text", "mode"} -> Words
    [] Kind[k] \in {"list", "order"} -> Seq(Words)

IsSettings(cfg) ==
  /\ DOMAIN cfg = Keys
  /\ \A k \in Keys : cfg[k] # <<>> => cfg[k][1] \in Held(k) /\ cfg[k] = <<cfg[k][1]>>

ASSUME KeysAssumption ==
  /\ IsInjective(KeyOrder) /\ KeyOrder \in Seq(Keys)
  /\ IsInjective(OtherKeys) /\ OtherKeys \in Seq(ToSet(OtherKeys))
  /\ Kind \in [Keys -> {"bool", "int", "positive", "mode", "text", "list", "order"}]
  /\ \E k \in Keys : {j \in Keys : Kind[j] = "order"} = {k}
  /\ Keys \cap {NoName, Note.key} = {}
  /\ ToSet(OtherKeys) \cap (Keys \cup {NoName, Note.key}) = {}

(* A word without a line break has none when it is trimmed.                 *)
ASSUME WordsAssumption ==
  /\ Trim \in [Words -> Words] /\ \A w \in Words : Trim[Trim[w]] = Trim[w]
  /\ LineBroken \cup Separated \subseteq Words
  /\ {"", "true", "false"} \cup Modes \subseteq Plain
  /\ \A w \in {"", "true", "false"} : Trim[w] = w
  /\ \A w \in Plain : Trim[w] \in Plain
  /\ MaxInt \in Nat /\ MaxRequests \in Nat
  /\ NotANumber \notin Int

ASSUME TextsAssumption ==
  /\ NoFile \notin [lines : Seq(Lines), nl : BOOLEAN]
  /\ \A text \in InitTexts : IsText(text)
  /\ \A w \in LineBroken : Pieces[w].first \in Plain /\ AreLines(Pieces[w].rest)

(* Bodies are decoded already; a name with a line break is the last of its  *)
(* order.  The default has no list that is not empty, and nothing to trim.  *)
ASSUME BodiesAssumption ==
  /\ \A patch \in Patches :
       /\ IsSettings(patch)
       /\ patch[OrderKey] = <<>> \/ ToSet(Front(patch[OrderKey][1])) \subseteq Plain
  /\ IsSettings(Default)
  /\ \A k \in Keys : Default[k] # <<>> =>
       /\ Kind[k] \in {"text", "mode"} => Default[k][1] \in Plain /\ Trim[Default[k][1]] = Default[k][1]
       /\ Kind[k] \in {"list", "order"} => Default[k][1] = <<>>
  /\ Orders \subseteq Seq(Words) /\ \A path \in Links : Trim[path] \in Plain

VARIABLES
  file,    \* [lines, nl]: the lines, and whether the last one ends in a newline; or NoFile
  count,   \* requests served
  last     \* the last request

vars == <<file, count, last>>

(***************************************************************************)
(* Reading                                                                 *)
(***************************************************************************)

Empty == [k \in Keys |-> <<>>]

Named(names) ==
  FlattenSeq([i \in DOMAIN names |-> IF Trim[names[i]] = "" THEN <<>> ELSE <<Trim[names[i]]>>])

(* strconv.Atoi without its error: 0 for what is no number, and the nearest *)
(* int for a number that does not fit.                                      *)
ParseInt(val) ==
  IF val = NotANumber THEN 0 ELSE
  CASE val > MaxInt -> MaxInt
    [] val < MinInt -> MinInt
    [] OTHER -> val

AddedFirst(before, path) == <<path>> \o IF before = <<>> THEN <<>> ELSE before[1]

(* appendString. *)
Added(before, path) == (IF before = <<>> THEN <<>> ELSE before[1]) \o <<path>>

(* setHRNeoConfigValue: the setting after one more line of its key. *)
Value(k, val, before) ==
  CASE Kind[k] = "bool" -> <<Trim[val] = "true">>
    [] Kind[k] \in {"int", "positive"} -> <<ParseInt(val)>>
    [] Kind[k] \in {"text", "mode"} -> <<Trim[val]>>
    [] Kind[k] = "list" -> <<Added(before, Trim[val])>>
    [] Kind[k] = "order" -> <<Named(val)>>

(* parseHRNeoConfigFile: the settings, and a map of the other keys, which   *)
(* the last line of a key wins.                                             *)
SetLine(parsed, line) ==
  CASE line = Note -> parsed
    [] line.key \in Keys ->
         [parsed EXCEPT !.cfg[line.key] = Value(line.key, line.val, @)]
    [] OTHER ->
         [parsed EXCEPT !.unknown = [k \in DOMAIN @ \cup {line.key} |->
                                       IF k = line.key THEN Trim[line.val] ELSE @[k]]]

NothingRead == [cfg |-> Empty, unknown |-> [k \in {} |-> ""]]

Parse(text) ==
  LET read[n \in 0..Len(text.lines)] ==
        IF n = 0 THEN NothingRead ELSE SetLine(read[n - 1], text.lines[n])
  IN  read[Len(text.lines)]

(***************************************************************************)
(* Writing                                                                 *)
(***************************************************************************)

(* A word behind "key=", with its spaces; a line break starts another line. *)
Written(k, word) ==
  IF word \in LineBroken THEN <<[key |-> k, val |-> Pieces[word].first]>> \o Pieces[word].rest
  ELSE <<[key |-> k, val |-> word]>>

OrderLines(k, names) ==
  IF names # <<>> /\ Last(names) \in LineBroken
    THEN <<[key |-> k, val |-> Append(Front(names), Pieces[Last(names)].first)]>>
           \o Pieces[Last(names)].rest
  ELSE <<[key |-> k, val |-> names]>>

(* writeRepeatString: an empty list is written as "key=". *)
ListLines(k, list) ==
  IF list = <<>> THEN Written(k, "") ELSE FlattenSeq([i \in DOMAIN list |-> Written(k, list[i])])

(* writeHRNeoConfigKey: nothing for nil. *)
KeyLines(k, setting) ==
  IF setting = <<>> THEN <<>>
  ELSE CASE Kind[k] = "bool" -> Written(k, IF setting[1] THEN "true" ELSE "false")
         [] Kind[k] \in {"int", "positive"} -> <<[key |-> k, val |-> setting[1]]>>
         [] Kind[k] = "order" -> OrderLines(k, setting[1])
         [] Kind[k] \in {"text", "mode"} -> Written(k, setting[1])
         [] Kind[k] = "list" -> ListLines(k, setting[1])

(* renderHRNeoConfig. *)
Rendered(cfg) == FlattenSeq([i \in DOMAIN KeyOrder |-> KeyLines(KeyOrder[i], cfg[KeyOrder[i]])])

(* renderHRNeoConfigPreservingUnknown: the unknown keys last, but for the   *)
(* one without a name.                                                      *)
Preserved(unknown) ==
  LET LineOf(k) == IF k \in DOMAIN unknown THEN <<[key |-> k, val |-> unknown[k]]>> ELSE <<>>
  IN  FlattenSeq([i \in DOMAIN OtherKeys |-> LineOf(OtherKeys[i])])

Whole(lines) == [lines |-> lines, nl |-> lines # <<>>]

(* mergeHRNeoConfig. *)
Merge(base, patch) == [k \in Keys |-> IF patch[k] = <<>> THEN base[k] ELSE patch[k]]

DefaultText == Whole(Rendered(Default))

Rewritten(text, patch) ==
  LET parsed == Parse(text)
  IN  IF text = NoFile THEN Whole(Rendered(Merge(Default, patch)))
      ELSE Whole(Rendered(Merge(parsed.cfg, patch)) \o Preserved(parsed.unknown))

(* validateHRNeoConfig, of the body alone: the values of lists and orders   *)
(* are trimmed before they are looked at, but not before they are written.  *)
AnyWord(w) == TRUE
ValidWord(w) == w \notin LineBroken
ValidPath(w) == Trim[w] # "" /\ ValidWord(Trim[w])
ValidName(w) == ValidPath(w) /\ Trim[w] \notin Separated

ValidKey(k, v) ==
  CASE Kind[k] = "mode" -> v \in Modes
    [] Kind[k] = "int" -> v >= 0
    [] Kind[k] = "positive" -> v > 0
    [] Kind[k] = "text" -> ValidWord(v)
    [] Kind[k] = "list" -> \A i \in DOMAIN v : ValidPath(v[i])
    [] Kind[k] = "order" -> \A i \in DOMAIN v : ValidName(v[i])
    [] OTHER -> TRUE

Valid(patch) == \A k \in Keys : patch[k] # <<>> => ValidKey(k, patch[k][1])

(* validateTargetOrder, which also trims the names where they are. *)
ValidOrder(order) ==
  /\ \A i \in DOMAIN order : ValidName(order[i])
  /\ \A i, j \in DOMAIN order : Trim[order[i]] = Trim[order[j]] => i = j

(***************************************************************************)
(* Editing lines in place                                                  *)
(***************************************************************************)

Positions(lines, key) == {i \in DOMAIN lines : lines[i].key = key}

ReplacedEverywhere(text, line) ==
  IF Positions(text.lines, line.key) = {} THEN Whole(Append(text.lines, line))
  ELSE [text EXCEPT !.lines = [i \in DOMAIN @ |-> IF @[i].key = line.key THEN line ELSE @[i]]]

(* replaceHRNeoConfigValue: the first line of the key is replaced and its   *)
(* others go; without one, the line is appended.                            *)
Replaced(text, line) ==
  LET at == Positions(text.lines, line.key)
      Kept(i) == i \notin at \/ \A j \in at : i <= j
      Edited(i) == IF ~Kept(i) THEN <<>> ELSE IF i \in at THEN <<line>> ELSE <<text.lines[i]>>
  IN  IF at = {} THEN Whole(Append(text.lines, line))
      ELSE [text EXCEPT !.lines = FlattenSeq([i \in DOMAIN @ |-> Edited(i)])]

(* appendHRNeoRepeatValue: a value that is listed already changes nothing.  *)
(* saveGeoData starts from the default when there is no file.               *)
Linked(text, line) ==
  LET base == IF text = NoFile THEN DefaultText ELSE text
      Same(l) == l.key = line.key /\ Trim[l.val] = line.val
  IN  IF \E i \in DOMAIN base.lines : Same(base.lines[i]) THEN text ELSE Whole(Append(base.lines, line))

-----------------------------------------------------------------------------
(* The requests.                                                            *)

Init ==
  /\ file \in InitTexts
  /\ count = 0
  /\ last = [op |-> "none"]

Serve(request) ==
  /\ count < MaxRequests
  /\ count' = count + 1
  /\ last' = request

(* handlePutHRNeoStructured; an invalid body is answered 400. *)
PutStructured(patch) ==
  /\ Serve([op |-> "put", patch |-> patch, valid |-> Valid(patch)])
  /\ file' = IF Valid(patch) THEN Rewritten(file, patch) ELSE file

(* handlePutTargetOrder; without a file it answers 500. *)
PutOrder(order) ==
  /\ Serve([op |-> "order", order |-> Named(order),
            valid |-> ValidOrder(order) /\ file # NoFile])
  /\ file' = IF ValidOrder(order) /\ file # NoFile
               THEN Replaced(file, [key |-> OrderKey, val |-> Named(order)]) ELSE file

(* handleGenerateHRNeoDefault. *)
GenerateDefault ==
  /\ Serve([op |-> "default", valid |-> TRUE])
  /\ file' = DefaultText

(* A GeoData file was stored: its path joins the key of its kind. *)
Link(k, path) ==
  /\ Serve([op |-> "link", key |-> k, path |-> path, valid |-> TRUE])
  /\ file' = Linked(file, [key |-> k, val |-> Trim[path]])

-----------------------------------------------------------------------------
(* The compatibility report (compatibilityReport).                          *)

(* missingHRNeoKeys. *)
Missing(text) == {k \in Keys : Parse(text).cfg[k] = <<>>}

Unknown(text) == DOMAIN Parse(text).unknown

(* "invalid-hrneo-config" otherwise. *)
Compatible(text) == Valid(Parse(text).cfg)

-----------------------------------------------------------------------------
Next ==
  \/ \E patch \in Patches : PutStructured(patch)
  \/ \E order \in Orders : PutOrder(order)
  \/ GenerateDefault
  \/ \E k \in ListKeys, path \in Links : Link(k, path)

Spec == Init /\ [][Next]_vars

-----------------------------------------------------------------------------
(* Properties.                                                              *)

(* The file is always one that HR Neo and the parser read line by line.     *)
TypeOK == IsText(file) /\ count \in 0..MaxRequests

(* How the settings read, said without a fold: the last line of a key wins, *)
(* and the lines of a repeatable key add up.                                *)
ValuesOf(text, k) ==
  FlattenSeq([i \in DOMAIN text.lines |->
                IF text.lines[i].key = k THEN <<text.lines[i].val>> ELSE <<>>])

Reads(text, k) ==
  LET vals == ValuesOf(text, k)
  IN  IF vals = <<>> THEN <<>>
      ELSE IF Kind[k] = "list" THEN <<[i \in DOMAIN vals |-> Trim[vals[i]]]>>
      ELSE Value(k, Last(vals), <<>>)

(* What a client that was given v for k means; a list without an entry can  *)
(* only be written as one whose entry is empty.                             *)
Meant(k, v) ==
  CASE Kind[k] \in {"text", "mode"} -> Trim[v]
    [] Kind[k] = "list" -> IF v = <<>> THEN <<"">> ELSE [i \in DOMAIN v |-> Trim[v[i]]]
    [] Kind[k] = "order" -> Named(v)
    [] OTHER -> v

(* A body with a name that is valid only because its line break is trimmed. *)
BrokenBody(patch) ==
  \E k \in Keys : /\ Kind[k] \in {"list", "order"} /\ patch[k] # <<>>
                  /\ \E i \in DOMAIN patch[k][1] : patch[k][1][i] \in LineBroken

(* A structured write changes the settings it names to what it says and no  *)
(* other: those it omits, which it reads from the file and writes again,    *)
(* read as before; of a key HydraBridge does not know its last value stays, *)
(* without the spaces around it; no value brings a line of its own; a       *)
(* refused body changes nothing.  Bodies with BrokenBody are left out: the  *)
(* break that validatePathValue trims away is written, and its line may set *)
(* a key that the body omits.                                               *)
PutChangesOnlyWhatItNames ==
  [][count' # count /\ last'.op = "put" =>
       LET patch == last'.patch
           Before == IF file = NoFile THEN DefaultText ELSE file
       IN  IF ~last'.valid THEN file' = file
           ELSE ~BrokenBody(patch) =>
                /\ \A k \in Keys : Reads(file', k) =
                     IF patch[k] = <<>> THEN Reads(Before, k) ELSE <<Meant(k, patch[k][1])>>
                /\ \A k \in ToSet(OtherKeys) :
                     LET was == ValuesOf(Before, k)
                     IN  ValuesOf(file', k) = IF was = <<>> THEN <<>> ELSE <<Trim[Last(was)]>>]_vars

(* A structured write that names nothing brings whatever people have left   *)
(* in the file into a form of its own: the second such write changes        *)
(* nothing (the first drops comments and spaces, sorts the keys and writes  *)
(* numbers as they were read), so clients that save what they have read do  *)
(* not change the revision for each other for ever; and the compatibility   *)
(* report misses and does not know the same keys as before (but for a line  *)
(* without a key, which is lost), and finds the settings valid if it did    *)
(* before.                                                                  *)
RewritesSettle ==
  LET once == Rewritten(file, Empty)
  IN  /\ Rewritten(once, Empty) = once
      /\ file # NoFile =>
           /\ Missing(once) = Missing(file)
           /\ Unknown(once) = Unknown(file) \ {""}
           /\ Compatible(file) => Compatible(once)

(* A target order is a narrow write: every line that is not a PolicyOrder   *)
(* stays as it is and where it is, comments, unknown and repeated keys and  *)
(* values that do not parse included; afterwards the file has one line of   *)
(* the order, and reads as the order asked for.                             *)
OrderIsNarrow ==
  [][count' # count /\ last'.op = "order" =>
       LET Others(text) ==
             FlattenSeq([i \in DOMAIN text.lines |->
                           IF text.lines[i].key = OrderKey THEN <<>> ELSE <<text.lines[i]>>])
       IN  IF ~last'.valid THEN file' = file
           ELSE /\ Others(file') = Others(file)
                /\ ValuesOf(file', OrderKey) = <<last'.order>>]_vars

=============================================================================
