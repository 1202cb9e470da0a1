---------------------------- MODULE MCRuleChecks ----------------------------
(* Small address spaces, and the services the catalogue and the aliases    *)
(* name.                                                                   *)
EXTENDS RuleChecks

OnlyV4 == {"ipv4"}
BothFamilies == {"ipv4", "ipv6"}
ThreeBits == [ipv4 |-> 3, ipv6 |-> 6]
TwoBits == [ipv4 |-> 2, ipv6 |-> 4]
UpperHalf == [ipv4 |-> 4..7, ipv6 |-> {}]

AllNames == Keys \union DOMAIN ServiceAliases \union {Unknown}
SomeProducts == DOMAIN ProductAliases \union {Unknown, "samba smbd", "wordpress", "https gateway"}
SomePorts == {0, 80, 22, 5900}
Mentions == [p \in {Product(q) : q \in SomeProducts} |->
    CASE p = "openssh" -> {"ssh"}
      [] p = "samba smbd" -> {"smb"}
      [] p = "wordpress" -> {"rdp"}
      [] p = "https gateway" -> {"http", "https"}
      [] OTHER -> {}]
=============================================================================
