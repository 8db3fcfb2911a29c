-------------------------------- MODULE Values --------------------------------
(***************************************************************************)
(* Canonical values, the material their hash is made of, and lifetimes     *)
(* (set/canon.go, set/material.go, nginxtime).  A text is a record that    *)
(* says which of the parsers accepts it.  Addresses keep their structure   *)
(* with fewer bits: V4Bits for 32, V6Bits for 128; the addresses           *)
(* ::ffff:0:0/96 are those that start with MapTag.  An integer of 64 bits  *)
(* has IntBits.                                                            *)
(***************************************************************************)
EXTENDS Integers

CONSTANTS V4Bits, V6Bits, MapTag, IntBits, Second

ASSUME ValuesAssumption ==
  /\ {V4Bits, V6Bits, IntBits, Second} \subseteq Nat \ {0} /\ V4Bits < V6Bits
  /\ MapTag \in 1..(2^(V6Bits - V4Bits) - 1)

(* What is used of exponentiation, of which the provers know nothing. *)
ASSUME PowersOfTwo ==
  2^0 = 1 /\ \A k \in 0..(V6Bits + IntBits) : 2^k \in Nat \ {0} /\ 2^(k + 1) = 2 * 2^k

Width(fam) == IF fam = 4 THEN V4Bits ELSE V6Bits
MapBits == V6Bits - V4Bits

(* Two's complement. *)
IntMax == 2^(IntBits - 1) - 1
Wrap(n) == ((n + IntMax + 1) % 2^IntBits) - IntMax - 1

------------------------------------------------------------------------------
(* Prefixes (net/netip). *)

NoPrefix == [fam |-> 0, addr |-> 0, bits |-> 0]
PrefixOf(fam, addr, bits) == [fam |-> fam, addr |-> addr, bits |-> bits]
Masked(p) == [p EXCEPT !.addr = @ - (@ % 2^(Width(p.fam) - p.bits))]
Is4In6(fam, addr) == fam = 6 /\ addr \div 2^V4Bits = MapTag
Unmap(fam, addr) == IF Is4In6(fam, addr) THEN PrefixOf(4, addr % 2^V4Bits, V4Bits)
                    ELSE PrefixOf(fam, addr, Width(fam))

(* The prefix a mirror matches addresses against: an IPv4 one where that is possible. *)
materialPrefix(p) ==
  Masked(IF Is4In6(p.fam, p.addr) /\ p.bits >= MapBits
         THEN PrefixOf(4, p.addr % 2^V4Bits, p.bits - MapBits)
         ELSE p)

------------------------------------------------------------------------------
(* Texts, and what a set of type t makes of them. *)

PrefixText(p) == [form |-> "prefix", prefix |-> p]
AddrText(fam, addr) == [form |-> "addr", fam |-> fam, addr |-> addr]
IntText(n, pad) == [form |-> "int", n |-> n, pad |-> pad]  \* pad: leading zeros, or a plus sign
WordText(w) == [form |-> "word", word |-> w]
MD5Hex(text) == [form |-> "md5", of |-> text]
Blank == [form |-> "blank"]    \* nothing but space
TooLong == [form |-> "long"]   \* more than ValueMax bytes

(* A text that a parser of addresses accepts has a length and an address. *)
Prefixes == {p \in [fam : {4, 6}, addr : Nat, bits : Nat] :
               p.addr < 2^Width(p.fam) /\ p.bits <= Width(p.fam)}
Spelled(text) ==
  /\ text.form = "prefix" => text.prefix \in Prefixes
  /\ text.form = "addr" => text.fam \in {4, 6} /\ text.addr \in Nat /\ text.addr < 2^Width(text.fam)

Refused(err) == [err |-> err, value |-> Blank, prefix |-> NoPrefix]
Taken(value, prefix) == [err |-> "none", value |-> value, prefix |-> prefix]

(* Fault: bits of the host stay in the value. *)
canonUnmasked(text) ==
  CASE text.form = "prefix" -> Taken(text, materialPrefix(Masked(text.prefix)))
    [] text.form = "addr" -> LET p == Unmap(text.fam, text.addr) IN Taken(PrefixText(p), p)
    [] OTHER -> Refused("wrong_type")

canonCIDR(text) ==
  CASE text.form = "prefix" -> Taken(PrefixText(Masked(text.prefix)), materialPrefix(Masked(text.prefix)))
    [] text.form = "addr" -> LET p == Unmap(text.fam, text.addr) IN Taken(PrefixText(p), p)
    [] OTHER -> Refused("wrong_type")

(* strconv.ParseInt and FormatInt: one spelling for each number of the width. *)
canonNumeric(text) ==
  IF text.form = "int" /\ text.n \in (-IntMax - 1)..IntMax
  THEN Taken(IntText(text.n, FALSE), NoPrefix) ELSE Refused("wrong_type")

CanonPrefix(t, text) ==
  CASE text = Blank   -> Refused("empty")
    [] text = TooLong -> Refused("too_long")
    [] t = "cidr" /\ text \notin {Blank, TooLong}    -> canonCIDR(text)
    [] t = "numeric" /\ text \notin {Blank, TooLong} -> canonNumeric(text)
    [] OTHER -> Taken(text, NoPrefix)

(* Fault: an IPv4 network in its IPv6 form stays in it. *)
ParsePrefixMapped(text) ==
  CASE text.form = "prefix" -> Masked(text.prefix)
    [] text.form = "addr" -> Unmap(text.fam, text.addr)
    [] OTHER -> NoPrefix

(* What is hashed for a stored value when the prefix has to be parsed from it again. *)
ParsePrefix(text) ==
  CASE text.form = "prefix" -> materialPrefix(text.prefix)
    [] text.form = "addr" -> Unmap(text.fam, text.addr)
    [] OTHER -> NoPrefix

Material(t, text) == IF t = "cidr" /\ ParsePrefix(text) # NoPrefix THEN ParsePrefix(text) ELSE text

(* Set.hashOf: the prefix of the record if it has one. *)
hashOf(t, value, prefix) == IF t = "cidr" /\ prefix # NoPrefix THEN prefix ELSE Material(t, value)

(* Type of a catalogue entry. *)
TypeOf(catalog) ==
  CASE catalog \in {"ip", "ipv4", "cidr"} -> "cidr" [] catalog = "numeric" -> "numeric" [] OTHER -> "string"

------------------------------------------------------------------------------
(* What a text stands for: the addresses of a prefix, the number of a numeral. *)

Addresses(p) == {a \in 0..(2^Width(p.fam) - 1) : a - (a % 2^(Width(p.fam) - p.bits)) = Masked(p).addr}

Meaning(text) ==
  CASE text.form = "prefix" -> [fam |-> text.prefix.fam, addrs |-> Addresses(text.prefix)]
    [] text.form = "addr" -> LET p == Unmap(text.fam, text.addr) IN [fam |-> p.fam, addrs |-> {p.addr}]
    [] text.form = "int" -> [number |-> text.n]
    [] OTHER -> [text |-> text]

------------------------------------------------------------------------------
(* Lifetimes. *)

Units == [s |-> 1, m |-> 60, h |-> 3600, d |-> 86400]

(* A number and a unit as nginx writes them; zero for what is no lifetime. *)
ParseSeconds(spec) ==
  IF spec.n \in 1..IntMax THEN Wrap(spec.n * Units[spec.unit]) ELSE 0

(* now.Add(time.Duration(ttl) * time.Second) *)
ExpiryOf(now, ttl) == now + Wrap(ttl * Second)

=============================================================================
