------------------------------- MODULE MCService -------------------------------
(* An instance of Service for TLC: addresses of two and four bits. *)
EXTENDS Service

Definition(catalog, hash, n, unit) ==
  [type |-> TypeOf(catalog), hash |-> hash, ttl |-> [n |-> n, unit |-> unit]]

(* Lists of addresses, of networks and of numbers, names kept as hashes, and names in clear, *)
(* the last two without a lifetime of their own.                                             *)
AddressSet == Definition("ip", FALSE, 1, "m")
NetworkSet == Definition("cidr", FALSE, 30, "s")
NumberSet  == Definition("numeric", FALSE, 1, "m")
HashSet    == Definition("text", TRUE, 0, "s")
NameSet    == Definition("text", FALSE, 0, "s")
AllDefinitions == {AddressSet, NetworkSet, NumberSet, HashSet, NameSet}

Host     == AddrText(4, 1)                     \* 1
Mapped   == AddrText(6, MapTag * 2^V4Bits + 1) \* the same host as an IPv6 address
Net      == PrefixText(PrefixOf(4, 3, 1))      \* 2/1 with a bit of the host set
MapNet   == PrefixText(PrefixOf(6, MapTag * 2^V4Bits, 3)) \* 0/1 in its IPv6 form
OtherNet == PrefixText(PrefixOf(4, 2, 1))      \* 2/1
HostNet  == PrefixText(PrefixOf(4, 1, 2))      \* the host with its length
Six      == PrefixText(PrefixOf(6, 9, 2))
Seven    == IntText(7, FALSE)
PadSeven == IntText(7, TRUE)
Word     == WordText(1)

AllTexts == {Host, Mapped, HostNet, Net, OtherNet, MapNet, Six, Seven, PadSeven, Word}

Plain(op, values, ttl) ==
  [json |-> TRUE, set |-> "set", op |-> op, origin |-> "inspector", values |-> values, ttl |-> ttl,
   reason |-> <<>>, forever |-> FALSE, hashed |-> FALSE]

(* Additions under several spellings, with the lifetime of the set, one of their own and one *)
(* that overflows; removals; and an event for each refusal.                                  *)
AllEvents ==
     AddressSet :> {Plain("add", <<Host, Mapped, Net>>, 0), Plain("none", <<Mapped>>, 30), Plain("remove", <<Host>>, 0)}
  @@ NetworkSet :> {Plain("add", <<MapNet, Six, Net>>, 0), Plain("add", <<Six>>, 60), Plain("remove", <<MapNet, Net>>, 0)}
  @@ NumberSet  :> {Plain("add", <<PadSeven, IntText(-1, FALSE)>>, 0), Plain("add", <<Seven>>, 300),
                    Plain("remove", <<Seven>>, 0), Plain("add", <<Word, TooLong>>, 60), Plain("add", <<TooLong, Blank>>, 60)}
  @@ HashSet    :> {[Plain("add", <<Word>>, 30) EXCEPT !.reason = <<"scan", "er">>],
                    [Plain("add", <<MD5Hex(Word), MD5Hex(WordText(2))>>, 60) EXCEPT !.hashed = TRUE],
                    Plain("remove", <<WordText(2)>>, 0)}
  @@ NameSet    :> {Plain("add", <<Word, Word>>, 30), [Plain("add", <<Word>>, 60) EXCEPT !.json = FALSE],
                    [Plain("add", <<Word>>, 60) EXCEPT !.set = "other"], Plain("drop", <<Word>>, 0),
                    [Plain("add", <<Word>>, 0) EXCEPT !.origin = "none"], [Plain("add", <<Word>>, 60) EXCEPT !.forever = TRUE],
                    Plain("add", <<Word>>, 0), Plain("add", <<>>, 0)}
=============================================================================
