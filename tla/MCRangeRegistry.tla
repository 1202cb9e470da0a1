--------------------------- MODULE MCRangeRegistry ---------------------------
(***************************************************************************)
(* RangeRegistry over the networks of a two-bit address space.             *)
(***************************************************************************)
EXTENDS RangeRegistry, TLC

CONSTANTS r1, r2, b1, b2

OneRequest == {r1}
TwoRequests == {r1, r2}
OneBatch == {b1}
TwoBatches == {b1, b2}

TwoBits == [ipv4 |-> 2, ipv6 |-> 4]
NoPublic == [ipv4 |-> {}, ipv6 |-> {}]
Net == INSTANCE Scope WITH
    Families <- {"ipv4"}, Width <- TwoBits, MaxAddresses <- 2, Global <- NoPublic

\* The first half, and the first and the last address.
SomeCidrs ==
    {Net!Normalized(t) : t \in {s \in Net!Texts : Net!Accepts(s, FALSE) /\
        (\/ s.address = 0
         \/ s.address = 3 /\ s.prefix = Net!Bare)}}
OverlappingCidrs ==
    {p \in SomeCidrs \X SomeCidrs : Net!Overlaps(p[1], p[2])}

RequestSymmetry == Permutations(Requests) \union Permutations(Batches)
=============================================================================
