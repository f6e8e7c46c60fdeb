------------------------------- MODULE GeoDat -------------------------------
(***************************************************************************)
(* The .dat files of GeoData, byte by byte: the index of their tags and    *)
(* the search of the prefixes of a tag that hold an address, two readers   *)
(* that parse the same protobuf with different code, one from a stream and *)
(* one from slices.                                                        *)
(*                                                                         *)
(* The widths are scaled: a byte has 4 bits, of which a varint uses 3, and *)
(* a number 8, so the longest varint has 3 bytes and its last bit does not *)
(* fit (for the code: 8, 7, 64, 10).  An IPv4 address is one byte and an   *)
(* IPv6 address two.  A field tag is field * 4 + wire type.                *)
(*                                                                         *)
(* A file is written by others (external): entries one after the other, a  *)
(* download cut short, a byte damaged, or any bytes at all.                *)
(***************************************************************************)
EXTENDS Integers, Sequences, FiniteSets, SequencesExt

CONSTANTS
  Entries,     \* entries whoever makes the file may put in it
  MaxEntries,
  Raw,         \* bytes of a file that is no .dat at all
  MaxRaw,      \* and how many it may have
  Numbers,     \* numbers to be read back
  Wanted,      \* tags that are asked for
  Addresses,   \* addresses that are asked about
  MaxTag,      \* maxGeoDataTagBytes
  MaxBody      \* maxGeoDataBytes

Bytes == 0..15
More == 8          \* the bit that says that a varint goes on
Width == 8         \* bits of a number
Limit == 256       \* 2^Width
MaxVarint == 3     \* bytes of a varint
Top == 6           \* field 1, with a length
CodeField == 6
IPField == 6
CIDRField == 10    \* field 2, with a length
BitsField == 8     \* field 2, a varint

ASSUME GeoDatAssumption ==
  /\ Raw \subseteq Bytes /\ Numbers \subseteq 0..(Limit - 1) /\ \A tag \in Wanted : tag \in Seq(Bytes)
  /\ MaxTag \in Nat /\ MaxBody \in Nat /\ MaxEntries \in Nat
  /\ \A e \in Entries :
       e \in [code : Seq(Bytes), extra : Seq(Bytes), cidrs : Seq([ip : Seq(Bytes), bits : 0..(Limit - 1)])]

VARIABLES
  stored,   \* the entries put into the file
  data,     \* its bytes
  damage    \* "none", "cut", "byte", or "raw"

datVars == <<stored, data, damage>>

(* What a reader returns when it returns an error. *)
Refused == [ok |-> FALSE]

(* strings.ToUpper: the bytes 13 and 15 are the lower case of 12 and 14. *)
Upper(code) == [i \in DOMAIN code |-> IF code[i] \in {13, 15} THEN code[i] - 1 ELSE code[i]]

From(s, i) == SubSeq(s, i, Len(s))
UpTo(s, n) == SubSeq(s, 1, IF n > Len(s) THEN Len(s) ELSE n)

(* The number in the first n bytes, of which there are MaxVarint at most;   *)
(* bits above the width are shifted out.                                    *)
NumberOf(bytes, n) ==
  LET bits(i) == IF i <= n THEN bytes[i] % More ELSE 0
  IN  (bits(1) + 8 * bits(2) + 64 * bits(3)) % Limit

Number(bytes, n) == [ok |-> TRUE, value |-> NumberOf(bytes, n), size |-> n]

(* There is at most one byte where a number may end. *)
NumberEnding(bytes, ends) ==
  IF ends = {} THEN Refused ELSE Number(bytes, CHOOSE n \in ends : TRUE)

-----------------------------------------------------------------------------
(* The two readers of varints. *)

LastBytes(bytes) == {n \in DOMAIN bytes : bytes[n] < More /\ \A i \in 1..(n - 1) : bytes[i] >= More}

ReadVarintShort(bytes) ==
  NumberEnding(bytes, {n \in LastBytes(bytes) : 3 * n < Width})

(* readProtoVarint: as long as the shift is less than the width. *)
ReadVarint(bytes) ==
  NumberEnding(bytes, {n \in LastBytes(bytes) : 3 * (n - 1) < Width})

(* readProtoVarintBytes: as long as there are no more than ten bytes. *)
ReadVarintBytes(bytes) ==
  NumberEnding(bytes, {n \in LastBytes(bytes) : n <= MaxVarint})

-----------------------------------------------------------------------------
(* The index. *)

EntryTagAsSpelled(body) ==
  LET tagged(length, code) ==
        IF length.value >= MaxTag \/ length.value > Len(code) THEN Refused
        ELSE [ok |-> TRUE, tag |-> SubSeq(code, 1, length.value)]
      after(length) == IF length.ok THEN tagged(length, From(body, 2 + length.size)) ELSE Refused
  IN  IF body = <<>> \/ body[1] # CodeField THEN Refused ELSE after(ReadVarint(Tail(body)))

(* readGeoDataEntryTag. *)
EntryTag(body) ==
  LET tagged(length, code) ==
        IF length.value >= MaxTag \/ length.value > Len(code) THEN Refused
        ELSE [ok |-> TRUE, tag |-> Upper(SubSeq(code, 1, length.value))]
      after(length) == IF length.ok THEN tagged(length, From(body, 2 + length.size)) ELSE Refused
  IN  IF body = <<>> \/ body[1] # CodeField THEN Refused ELSE after(ReadVarint(Tail(body)))

(* The next entry: its body, which may be cut short, and what follows it.   *)
Frame(bytes) ==
  LET framed(length, rest) ==
        [ok |-> TRUE, whole |-> length.value <= Len(rest),
         body |-> UpTo(rest, length.value), rest |-> From(rest, length.value + 1)]
      after(length) ==
        IF ~length.ok \/ length.value > MaxBody THEN Refused
        ELSE framed(length, From(bytes, 2 + length.size))
  IN  IF bytes[1] # Top THEN Refused ELSE after(ReadVarint(Tail(bytes)))

(* The parts one after the other, where next[i] is the one that starts at   *)
(* place i: each starts where the one before it ends.                       *)
Parts(next) ==
  LET end == Len(next) + 1
      parts[i \in 1..end] ==
        LET before(part, others) ==
              IF others.ok THEN [ok |-> TRUE, list |-> <<part>> \o others.list] ELSE Refused
            first(part) == IF part.ok THEN before(part, parts[end - Len(part.rest)]) ELSE Refused
        IN  IF i = end THEN [ok |-> TRUE, list |-> <<>>] ELSE first(next[i])
  IN  parts[1]

(* The entries of a file. *)
Frames(bytes) == Parts([i \in DOMAIN bytes |-> Frame(From(bytes, i))])

TagsOf(frames) ==
  IF \E i \in DOMAIN frames : ~EntryTag(frames[i].body).ok THEN Refused
  ELSE [ok |-> TRUE, tags |-> {EntryTag(frames[i].body).tag : i \in DOMAIN frames} \ {<<>>}]

TagsLenient(bytes) ==
  LET read(frames) == IF frames.ok THEN TagsOf(frames.list) ELSE Refused
  IN  read(Frames(bytes))

(* scanGeoDataTags: an entry that is cut short is an error. *)
ScanTags(bytes) ==
  LET read(frames) ==
        IF frames.ok /\ \A i \in DOMAIN frames.list : frames.list[i].whole THEN TagsOf(frames.list)
        ELSE Refused
  IN  read(Frames(bytes))

-----------------------------------------------------------------------------
(* The search. *)

(* A field of a message: the bytes of one with a length, or its number;     *)
(* other wire types are refused.  skipProtoField reads past the fields its  *)
(* callers do not know, and they read those they know in the same way.      *)
Field(body) ==
  LET read(number, after) ==
        IF body[1] % 4 = 0
        THEN [ok |-> TRUE, tag |-> body[1], value |-> number.value, rest |-> after]
        ELSE IF number.value > Len(after) THEN Refused    \* checkedProtoLength
        ELSE [ok |-> TRUE, tag |-> body[1], value |-> SubSeq(after, 1, number.value),
              rest |-> From(after, number.value + 1)]
      next(number) == IF number.ok THEN read(number, From(body, 2 + number.size)) ELSE Refused
  IN  IF body[1] % 4 \notin {0, 2} THEN Refused ELSE next(ReadVarintBytes(Tail(body)))

(* The fields of a message, in their order. *)
Fields(body) == Parts([i \in DOMAIN body |-> Field(From(body, i))])

(* geoDataEntryCode. *)
EntryCode(body) ==
  IF body = <<>> \/ body[1] # CodeField THEN Refused
  ELSE LET first(field) ==
             IF field.ok THEN [ok |-> TRUE, tag |-> Upper(field.value), rest |-> field.rest] ELSE Refused
       IN  first(Field(body))

(* Addresses and prefixes of either family, which size tells apart. *)
IP(ip) == [size |-> Len(ip), at |-> IF Len(ip) = 1 THEN ip[1] ELSE 16 * ip[1] + ip[2]]
BitLen(address) == 4 * address.size
Masked(address, bits) ==
  [size |-> address.size, bits |-> bits, net |-> address.at \div 2^(BitLen(address) - bits)]
Holds(prefix, address) ==
  prefix.size = address.size /\ prefix = Masked(address, prefix.bits)

(* The last value of a field of the message, or the one it has without it. *)
LastOf(list, tag, default) ==
  LET at == {i \in DOMAIN list : list[i].tag = tag}
  IN  IF at = {} THEN default ELSE list[Max(at)].value

(* parseGeoIPCIDR: no prefix when the address has another length, or when   *)
(* it has fewer bits than are asked for.                                    *)
CIDR(fields) ==
  LET prefix(ip, bits) ==
        IF Len(ip) \in {1, 2} /\ bits <= BitLen(IP(ip)) THEN {Masked(IP(ip), bits)} ELSE {}
  IN  prefix(LastOf(fields, IPField, <<>>), LastOf(fields, BitsField, 0))

(* What several scans found, in their order, unless one of them failed. *)
AllFound(scans) ==
  IF \E i \in DOMAIN scans : ~scans[i].ok THEN Refused
  ELSE [ok |-> TRUE, found |-> FlattenSeq([i \in DOMAIN scans |-> scans[i].found])]
Nothing == [ok |-> TRUE, found |-> <<>>]

(* geoIPBodyPrefixesContaining. *)
PrefixesOf(body, address) ==
  LET found(held) == IF held = {} THEN <<>> ELSE <<CHOOSE p \in held : TRUE>>
      read(inner) ==
        IF inner.ok THEN [ok |-> TRUE, found |-> found({p \in CIDR(inner.list) : Holds(p, address)})]
        ELSE Refused
      of(field) == IF field.tag = CIDRField THEN read(Fields(field.value)) ELSE Nothing
      all(fields) ==
        IF fields.ok THEN AllFound([i \in DOMAIN fields.list |-> of(fields.list[i])]) ELSE Refused
  IN  all(Fields(body))

(* scanGeoIPPrefixesContaining.  An entry of another tag is not looked at.  *)
ScanPrefixes(bytes, wanted, address) ==
  LET here(entry) ==
        IF ~entry.ok THEN Refused
        ELSE IF entry.tag = Upper(wanted) THEN PrefixesOf(entry.rest, address)
        ELSE Nothing
      read(frames) ==
        IF frames.ok /\ \A i \in DOMAIN frames.list : frames.list[i].whole
        THEN AllFound([i \in DOMAIN frames.list |-> here(EntryCode(frames.list[i].body))])
        ELSE Refused
  IN  read(Frames(bytes))

(* The elements of s that are in kept, each where it is first. *)
FirstOnes(s, kept) ==
  LET new(i) == s[i] \in kept /\ \A j \in 1..(i - 1) : s[j] # s[i]
  IN  FlattenSeq([i \in DOMAIN s |-> IF new(i) THEN <<s[i]>> ELSE <<>>])

(* geoIPPrefixesContaining over one file: each prefix once. *)
PrefixesContaining(bytes, wanted, address) ==
  LET once(scan) == IF scan.ok THEN [ok |-> TRUE, found |-> FirstOnes(scan.found, ToSet(scan.found))] ELSE Refused
  IN  once(ScanPrefixes(bytes, wanted, address))

-----------------------------------------------------------------------------
(* The file, as others write it. *)

(* Of MaxVarint bytes at most: the lengths and bits of a file take no more. *)
Varint(v) ==
  LET low == v % More
      middle == (v \div 8) % More
      high == (v \div 64) % More
  IN  IF v < 8 THEN <<low>>
      ELSE IF v < 64 THEN <<More + low, middle>>
      ELSE <<More + low, More + middle, high>>

Delimited(field, bytes) == <<field>> \o Varint(Len(bytes)) \o bytes

(* An entry of geoip.dat; extra is a field no reader knows.  Zero bits are  *)
(* the default, which protobuf leaves out.                                  *)
EncodeCIDR(c) ==
  Delimited(CIDRField, Delimited(IPField, c.ip) \o
                         IF c.bits = 0 THEN <<>> ELSE <<BitsField>> \o Varint(c.bits))
Body(e) ==
  Delimited(CodeField, e.code) \o e.extra \o
    FlattenSeq([i \in DOMAIN e.cidrs |-> EncodeCIDR(e.cidrs[i])])
Encode(e) == Delimited(Top, Body(e))

(* A number holds the length of an entry, and what the readers do not know  *)
(* is no prefix.                                                            *)
ASSUME EntriesAssumption ==
  \A e \in Entries :
    /\ Len(Body(e)) < Limit
    /\ Fields(e.extra).ok
    /\ \A i \in DOMAIN Fields(e.extra).list : Fields(e.extra).list[i].tag # CIDRField

DatInit == stored = <<>> /\ data = <<>> /\ damage = "none"

AddEntry(e) ==
  /\ damage = "none" /\ Len(stored) < MaxEntries
  /\ stored' = Append(stored, e)
  /\ data' = data \o Encode(e)
  /\ UNCHANGED damage

(* A download or a copy that ended early. *)
Cut(n) ==
  /\ damage = "none" /\ stored # <<>>
  /\ data' = SubSeq(data, 1, n)
  /\ damage' = "cut"
  /\ UNCHANGED stored

Damage(i, b) ==
  /\ damage = "none" /\ data[i] # b
  /\ data' = [data EXCEPT ![i] = b]
  /\ damage' = "byte"
  /\ UNCHANGED stored

AddByte(b) ==
  /\ stored = <<>> /\ damage \in {"none", "raw"} /\ Len(data) < MaxRaw
  /\ data' = Append(data, b)
  /\ damage' = "raw"
  /\ UNCHANGED stored

DatNext ==
  \/ \E e \in Entries : AddEntry(e)
  \/ \E n \in 0..(Len(data) - 1) : Cut(n)
  \/ \E i \in DOMAIN data, b \in Raw : Damage(i, b)
  \/ \E b \in Raw : AddByte(b)

-----------------------------------------------------------------------------
(* Properties.                                                              *)

DatTypeOK ==
  /\ stored \in Seq(Entries) /\ Len(stored) <= MaxEntries
  /\ data \in Seq(Bytes)
  /\ damage \in {"none", "cut", "byte", "raw"}

Short(e) == Len(e.code) < MaxTag
Fits(e) == Len(Body(e)) <= MaxBody
Tags(entries) == {Upper(entries[i].code) : i \in DOMAIN entries} \ {<<>>}

(* What the entries of a tag say about an address. *)
Meant(entries, tag, address) ==
  LET named == {i \in DOMAIN entries : Upper(entries[i].code) = Upper(tag)}
      cidrs == {c \in UNION {ToSet(entries[i].cidrs) : i \in named} :
                  Len(c.ip) \in {1, 2} /\ c.bits <= BitLen(IP(c.ip))}
  IN  {p \in {Masked(IP(c.ip), c.bits) : c \in cidrs} : Holds(p, address)}

(* A file is read as it was meant, and one that was cut short is never read *)
(* as less than it was: either the cut lies between two entries, and the    *)
(* index has the tags of those before it and the search the prefixes of     *)
(* theirs, each once, or both refuse the file.  Both refuse a file with an  *)
(* entry that is too large, the index also one with a tag that is too long. *)
File(entries) == FlattenSeq([i \in DOMAIN entries |-> Encode(entries[i])])
DecodeIsExact ==
  damage \in {"none", "cut"} =>
    LET whole == {n \in 0..Len(stored) : Len(File(SubSeq(stored, 1, n))) = Len(data)}
        before == SubSeq(stored, 1, CHOOSE n \in whole : TRUE)
    IN  IF whole = {}
        THEN /\ ~ScanTags(data).ok
             /\ \A tag \in Wanted, address \in Addresses : ~PrefixesContaining(data, tag, address).ok
        ELSE /\ ScanTags(data).ok <=> \A i \in DOMAIN before : Fits(before[i]) /\ Short(before[i])
             /\ ScanTags(data).ok => ScanTags(data).tags = Tags(before)
             /\ \A tag \in Wanted, address \in Addresses :
                  LET scan == PrefixesContaining(data, tag, address)
                  IN  /\ scan.ok <=> \A i \in DOMAIN before : Fits(before[i])
                      /\ scan.ok => /\ ToSet(scan.found) = Meant(before, tag, address)
                                    /\ Len(scan.found) = Cardinality(ToSet(scan.found))

(* The two readers agree about any bytes: a file the index accepts, which   *)
(* is how an upload is checked, has no entry that the search refuses, but   *)
(* for what is inside an entry of the tag asked for; and the search finds   *)
(* prefixes for no tag that the index does not have.                        *)
ReadersAgree ==
  LET index == ScanTags(data)
  IN  index.ok =>
        \A tag \in Wanted, address \in Addresses :
          LET scan == PrefixesContaining(data, tag, address)
          IN  Upper(tag) \notin index.tags /\ tag # <<>> => scan.ok /\ scan.found = <<>>

(* Every number is read back, whatever comes after it, and both readers of  *)
(* varints return the same of any bytes, at the limit of a number's bytes   *)
(* and of its bits too.                                                     *)
VarintIsExact ==
  /\ ReadVarint(data) = ReadVarintBytes(data)
  /\ \A v \in Numbers :
       ReadVarint(Varint(v) \o data) = [ok |-> TRUE, value |-> v, size |-> Len(Varint(v))]
=============================================================================
