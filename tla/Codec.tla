--------------------------------- MODULE Codec ---------------------------------
(***************************************************************************)
(* Packages and snapshots as objects in Redis (wire/pack.go).  A cell      *)
(* stands for a field of fixed width, for four bytes of an address or for  *)
(* a string of one piece; lengths are written modulo LenMod (2^16).        *)
(***************************************************************************)
EXTENDS Values, Sequences, TLC

CONSTANT LenMod

ASSUME CodecAssumption == LenMod \in Nat \ {0}

Header == 10
Magic == "WAFS"
Version == 1

PackType(t) == IF t = "cidr" THEN "cidr" ELSE "string"
HasReasons(packType) == packType # "cidr"  \* FlagReasons

(* The address family, the length of the prefix and the address; an invalid prefix has *)
(* no bits, which is 255 as a byte.                                                    *)
PrefixMaterial(p) ==
  CASE p.fam = 4 -> <<4, p.bits, p.addr>>
    [] p.fam = 6 -> <<6, p.bits, p.addr \div 2^V4Bits, p.addr % 2^V4Bits>>
    [] OTHER     -> <<6, 255, 0, 0>>

(* Fault: the prefix is not parsed. *)
RecordAsGiven(t, op, value, r) ==
  [op |-> op, exp |-> r.exp, reason |-> r.reason, value |-> value, prefix |-> r.prefix]

(* A record of a set as it travels: a prefix is parsed from the value if it is not known. *)
RecordOf(t, op, value, r) ==
  [op |-> op, exp |-> r.exp, reason |-> r.reason, value |-> value,
   prefix |-> IF t # "cidr" THEN NoPrefix ELSE IF r.prefix # NoPrefix THEN r.prefix ELSE ParsePrefix(value)]

(* The order of the records of a snapshot. *)
RankOf(text) == IF text.form = "word" THEN text.word ELSE IF text.form = "int" THEN text.n ELSE 0
Rank(text) == IF text.form = "md5" THEN RankOf(text.of) ELSE RankOf(text)
family(p) == IF p.fam = 4 THEN 4 ELSE 6

less(packType, a, b) ==
  IF packType # "cidr" THEN Rank(a.value) < Rank(b.value)
  ELSE \/ family(a.prefix) < family(b.prefix)
       \/ /\ family(a.prefix) = family(b.prefix)
          /\ \/ a.prefix.bits < b.prefix.bits
             \/ a.prefix.bits = b.prefix.bits /\ a.prefix.addr < b.prefix.addr

appendRecord(packType, r) ==
  IF packType = "cidr" THEN <<r.op>> \o PrefixMaterial(r.prefix) \o <<r.exp>>
  ELSE <<r.op, 1, r.value, r.exp>>
       \o (IF HasReasons(packType) THEN <<Len(r.reason) % LenMod>> \o r.reason ELSE <<>>)

(* An object with these records, in this order. *)
Packed(head, rs) ==
  LET body[i \in 0..Len(rs)] == IF i = 0 THEN <<>> ELSE body[i - 1] \o appendRecord(head.type, rs[i])
  IN  <<Magic, Version, head.kind, head.type, HasReasons(head.type),
        head.epoch, head.seq, head.hash, head.key, Len(rs)>> \o body[Len(rs)]

Pack(head, recs) ==
  Packed(head, IF head.kind = "snapshot" THEN SortSeq(recs, LAMBDA a, b : less(head.type, a, b)) ELSE recs)

------------------------------------------------------------------------------
(* Unpack.  Every read is preceded by a test of what is left; a read past the end panics. *)

Cell(data, i) == IF i <= Len(data) THEN data[i] ELSE "panic"
Cells(data, i, n) == [k \in 1..n |-> Cell(data, i + k - 1)]

Parsed(next, op, prefix, value, exp, reason) ==
  [err |-> "none", next |-> next,
   rec |-> [op |-> op, prefix |-> prefix, value |-> value, exp |-> exp, reason |-> reason]]
Broken(err) == [err |-> err, next |-> 0, rec |-> <<>>]

unpackCIDR(data, pos) ==
  LET fam == Cell(data, pos + 1)
      n   == IF fam = 4 THEN 1 ELSE 2
      a   == Cells(data, pos + 3, n)
  IN  CASE pos + 2 > Len(data) -> Broken("short")
        [] pos + 2 <= Len(data) /\ fam \notin {4, 6} -> Broken("family")
        [] pos + 2 <= Len(data) /\ fam \in {4, 6} /\ pos + 3 + n > Len(data) -> Broken("short")
        [] OTHER -> Parsed(pos + 4 + n, Cell(data, pos),
                           PrefixOf(fam, IF fam = 4 THEN a[1] ELSE a[1] * 2^V4Bits + a[2], Cell(data, pos + 2)),
                           Blank, Cell(data, pos + 3 + n), <<>>)

(* Fault: no test of the length of the reason. *)
unpackUnchecked(data, pos, reasons) ==
  LET n == Cell(data, pos + 1)
      e == pos + 2 + n
      k == Cell(data, e + 1)
  IN  IF pos + 1 > Len(data) \/ e > Len(data) \/ (reasons /\ e + 1 > Len(data)) THEN Broken("short")
      ELSE Parsed(IF reasons THEN e + 2 + k ELSE e + 1, Cell(data, pos), NoPrefix, Cell(data, pos + 2),
                  Cell(data, e), IF reasons THEN Cells(data, e + 2, k) ELSE <<>>)

unpackString(data, pos, reasons) ==
  LET n == Cell(data, pos + 1)      \* length of the value
      e == pos + 2 + n              \* expiry
      k == Cell(data, e + 1)        \* length of the reason
  IN  CASE pos + 1 > Len(data) -> Broken("short")
        [] pos + 1 <= Len(data) /\ e > Len(data) -> Broken("short")
        [] pos + 1 <= Len(data) /\ e <= Len(data) /\ ~reasons ->
             Parsed(e + 1, Cell(data, pos), NoPrefix, Cell(data, pos + 2), Cell(data, e), <<>>)
        [] pos + 1 <= Len(data) /\ e <= Len(data) /\ reasons /\ e + 1 > Len(data) -> Broken("short")
        [] OTHER ->
             IF e + 1 + k > Len(data) THEN Broken("short")
             ELSE Parsed(e + 2 + k, Cell(data, pos), NoPrefix, Cell(data, pos + 2), Cell(data, e),
                         Cells(data, e + 2, k))

unpackRecord(data, pos) ==
  CASE pos > Len(data) -> Broken("short")
    [] pos <= Len(data) /\ data[4] = "cidr" -> unpackCIDR(data, pos)
    [] pos <= Len(data) /\ data[4] = "string" -> unpackString(data, pos, data[5])
    [] OTHER -> Broken("type")

Unpack(data) ==
  LET upTo[i \in 0..data[Header]] ==
        IF i = 0 THEN [err |-> "none", next |-> Header + 1, recs |-> <<>>]
        ELSE LET before == upTo[i - 1]
                 r == unpackRecord(data, before.next)
             IN  IF before.err # "none" THEN before
                 ELSE [err |-> r.err, next |-> r.next,
                       recs |-> IF r.err = "none" THEN Append(before.recs, r.rec) ELSE <<>>]
  IN  CASE Len(data) < Header -> [err |-> "short", recs |-> <<>>]
        [] Len(data) >= Header /\ data[1] # Magic -> [err |-> "magic", recs |-> <<>>]
        [] Len(data) >= Header /\ data[1] = Magic /\ data[2] # Version -> [err |-> "version", recs |-> <<>>]
        [] OTHER -> [err |-> upTo[data[Header]].err, recs |-> upTo[data[Header]].recs]

(* PackRecord.Material: what a mirror keys a record by. *)
RecordMaterial(packType, r) == IF packType = "cidr" THEN r.prefix ELSE r.value

=============================================================================
