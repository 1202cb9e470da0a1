-------------------------------- MODULE Scope --------------------------------
(***************************************************************************)
(* Addresses and networks of both IP families as scope.py reads them: what *)
(* an operator types, the network it stands for, the text that is stored   *)
(* for it, and when two stored texts overlap.                              *)
(***************************************************************************)
EXTENDS Integers

CONSTANTS
    Families,       \* the families typed: a subset of {"ipv4", "ipv6"}
    Width,          \* address bits by family; 32 and 128 in the program
    MaxAddresses,   \* max_addresses_per_range
    Global          \* the public addresses of each family

ASSUME FamiliesAssumption == Families \subseteq {"ipv4", "ipv6"}
\* The largest limit the settings admit is below the size of an IPv6 /32.
ASSUME WidthAssumption ==
    /\ Width \in [{"ipv4", "ipv6"} -> Nat]
    /\ MaxAddresses \in 1..(2 ^ (Width["ipv6"] - Width["ipv4"]) - 1)

Addresses(f) == 0..(2 ^ Width[f] - 1)
Bare == -1          \* no "/" in the text

\* What may be typed: prefixes up to one too long.
Texts == UNION {[family : {f}, address : Addresses(f), prefix : {Bare} \union 0..(Width[f] + 1)]
                : f \in Families}

\* ip_network(raw if "/" in raw else f"{raw}/32", strict=False).
PrefixLength(t) == IF t.prefix = Bare THEN Width["ipv4"] ELSE t.prefix
Parses(t) == PrefixLength(t) <= Width[t.family]
Size(t) == 2 ^ (Width[t.family] - PrefixLength(t))
FirstAddress(t) == (t.address \div Size(t)) * Size(t)
LastAddress(t) == FirstAddress(t) + Size(t) - 1
Network(t) == [family |-> t.family, addresses |-> FirstAddress(t)..LastAddress(t)]

\* A public end needs the permission of the registration and of the server.
Accepts(t, publicAllowed) ==
    /\ Parses(t)
    /\ Size(t) <= MaxAddresses
    /\ {FirstAddress(t), LastAddress(t)} \intersect Global[t.family] # {} => publicAllowed

\* Variants: no network keeps its prefix; the address is stored as it was typed.
WithoutPrefix(t) == [family |-> t.family, address |-> FirstAddress(t), prefix |-> Bare]
AsTyped(t) ==
    [t EXCEPT !.prefix = IF PrefixLength(t) = Width[t.family] THEN Bare ELSE PrefixLength(t)]

\* The text that is stored: a single address loses its prefix.
Normalized(t) ==
    [family |-> t.family, address |-> FirstAddress(t),
     prefix |-> IF PrefixLength(t) = Width[t.family] THEN Bare ELSE PrefixLength(t)]

\* Variant: only networks inside the one registered before count.
StartsInside(s, t) ==
    s.family = t.family /\ FirstAddress(t) \in FirstAddress(s)..LastAddress(s)

\* overlaps(): two stored texts.
Overlaps(s, t) ==
    /\ s.family = t.family
    /\ FirstAddress(s) <= LastAddress(t)
    /\ FirstAddress(t) <= LastAddress(s)
=============================================================================
