----------------------------- MODULE RuleProofs -----------------------------
(***************************************************************************)
(* The pure rules for every input: any width of addresses, any limit, any  *)
(* name, product and port, any number of findings of a service.            *)
(***************************************************************************)
EXTENDS RuleChecks, FiniteSetTheorems, WellFoundedInduction, TLAPS

----------------------------------------------------------------------------
(* The inputs.                                                             *)

LEMMA InputsStep == InputsOK /\ [Next]_<<text, other, observed>> => InputsOK'
<1> SUFFICES ASSUME InputsOK, [Next]_<<text, other, observed>> PROVE InputsOK'
    OBVIOUS
<1> USE DEF InputsOK
<1>1. CASE Type
    BY <1>1 DEF Type
<1>2. CASE Observe
  <2>0. PICK name \in Names, product \in Products, port \in Ports, public \in BOOLEAN :
          \E findings \in UNION {[1..n -> Severities] : n \in 0..MaxFindings} :
              observed' = [name |-> name, product |-> product, port |-> port, public |-> public,
                           findings |-> findings]
    BY <1>2 DEF Observe
  <2>1. PICK n \in 0..MaxFindings : \E findings \in [1..n -> Severities] :
          observed' = [name |-> name, product |-> product, port |-> port, public |-> public,
                       findings |-> findings]
    BY <2>0
  <2>1a. PICK findings \in [1..n -> Severities] :
          observed' = [name |-> name, product |-> product, port |-> port, public |-> public,
                       findings |-> findings]
    BY <2>1
  <2>2. findings \in Seq(Severities)
    BY <2>1a, RuleAssumption
  <2> QED
    BY <1>2, <2>0, <2>1a, <2>2 DEF Observe, Services
<1> QED
    BY <1>1, <1>2 DEF Next

LEMMA InputsAlways == Spec => []InputsOK
<1>1. Init => InputsOK
    BY DEF Init, InputsOK
<1> QED
    BY <1>1, InputsStep, PTL DEF Spec

----------------------------------------------------------------------------
(* Numbers.                                                                *)

\* Induction over the numbers of a set.
LEMMA NumbersOf ==
    ASSUME NEW S, 0 \in S, \A n \in Nat : n \in S => n + 1 \in S
    PROVE  Nat \subseteq S
<1> DEFINE R == OpToRel(<, Nat)
           T == Nat \ S
<1>1. SUFFICES ASSUME T # {} PROVE FALSE
    OBVIOUS
<1>2. IsWellFoundedOn(R, Nat)
    BY NatLessThanWellFounded
<1>3. \E x \in T : \A y \in T : ~ (<<y, x>> \in R)
  <2>1. T \subseteq Nat
    OBVIOUS
  <2> HIDE DEF T, R
  <2> QED
    BY <1>1, <1>2, <2>1, WFMin
<1>4. PICK x \in T : \A y \in T : ~ (<<y, x>> \in R)
    BY <1>3
<1>5. x - 1 \in T /\ x \in Nat
    OBVIOUS
<1>6. <<x - 1, x>> \in R
    BY <1>5 DEF OpToRel
<1> QED
    BY <1>4, <1>5, <1>6

\* A set of numbers has a smallest one.
LEMMA SmallestIsThere ==
    ASSUME NEW I \in SUBSET Nat, I # {}
    PROVE  Min(I) \in I
<1> DEFINE R == OpToRel(<, Nat)
<1>1. IsWellFoundedOn(R, Nat)
    BY NatLessThanWellFounded
<1>2. PICK x \in I : \A y \in I : ~ (<<y, x>> \in R)
  <2> HIDE DEF R
  <2> QED
    BY <1>1, WFMin
<1>3. ASSUME NEW y \in I, y < x PROVE FALSE
  <2>1. <<y, x>> \in R
    BY <1>3 DEF OpToRel
  <2> QED
    BY <1>2, <2>1
<1>4. x \in I /\ \A y \in I : x =< y
  <2> HIDE DEF R
  <2> QED
    BY <1>3
<1> QED
    BY <1>4 DEF Min

----------------------------------------------------------------------------
(* Scope: powers of two, alignment, intervals.                             *)

\* As many subsets as the power says, and more subsets of the larger set.
LEMMA PowersGrow ==
    /\ \A n \in Nat : 2 ^ n \in Nat \ {0}
    /\ \A m, n \in Nat : m < n => 2 ^ m < 2 ^ n
<1>1. ASSUME NEW n \in Nat
      PROVE  IsFiniteSet(SUBSET (1..n)) /\ Cardinality(SUBSET (1..n)) = 2 ^ n /\ 2 ^ n \in Nat
  <2>1. IsFiniteSet(1..n) /\ Cardinality(1..n) = n
    BY FS_Interval
  <2>2. IsFiniteSet(SUBSET (1..n)) /\ Cardinality(SUBSET (1..n)) = 2 ^ n
    BY <2>1, FS_SUBSET
  <2> QED
    BY <2>2, FS_CardinalityType
<1>2. ASSUME NEW n \in Nat PROVE 2 ^ n # 0
  <2>1. {} \in SUBSET (1..n)
    OBVIOUS
  <2> QED
    BY <1>1, <2>1, FS_EmptySet
<1>3. ASSUME NEW m \in Nat, NEW n \in Nat, m < n PROVE 2 ^ m < 2 ^ n
  <2>1. SUBSET (1..m) \subseteq SUBSET (1..n)
    BY <1>3
  <2>2. (1..n) \in SUBSET (1..n) /\ (1..n) \notin SUBSET (1..m)
    BY <1>3
  <2>3. SUBSET (1..m) # SUBSET (1..n)
    BY <2>2
  <2>4. Cardinality(SUBSET (1..m)) <= Cardinality(SUBSET (1..n))
        /\ Cardinality(SUBSET (1..m)) # Cardinality(SUBSET (1..n))
    BY <1>1, <2>1, <2>3, FS_Subset
  <2> QED
    BY <1>1, <2>4
<1> QED
    BY <1>1, <1>2, <1>3

\* What strict=False makes of an address inside a network of b addresses.
LEMMA Aligned ==
    ASSUME NEW a \in Nat, NEW b \in Nat \ {0}
    PROVE  LET first == (a \div b) * b
           IN  first \in Nat /\ first <= a /\ a < first + b /\ (first \div b) * b = first
<1> DEFINE q == a \div b
           r == a % b
<1>1. q \in Nat /\ r \in 0..(b - 1) /\ a = b * q + r
    OBVIOUS
<1>2. q * b \in Nat /\ q * b = b * q
    BY <1>1
<1>3. (q * b) \div b = q
    BY <1>1
<1> QED
    BY <1>1, <1>2, <1>3

LEMMA SameInterval ==
    ASSUME NEW a \in Nat, NEW b \in Nat, NEW c \in Nat, NEW d \in Nat, a <= b, c <= d, a..b = c..d
    PROVE  a = c /\ b = d
<1>1. a \in c..d /\ b \in c..d /\ c \in a..b /\ d \in a..b
    OBVIOUS
<1> QED
    BY <1>1

LEMMA IntervalsMeet ==
    ASSUME NEW a \in Nat, NEW b \in Nat, NEW c \in Nat, NEW d \in Nat, a <= b, c <= d
    PROVE  (a <= d /\ c <= b) <=> (a..b) \intersect (c..d) # {}
<1>1. ASSUME a <= d, c <= b PROVE (a..b) \intersect (c..d) # {}
  <2>1. CASE a <= c
    <3>1. c \in (a..b) \intersect (c..d)
      BY <1>1, <2>1
    <3> QED
      BY <3>1
  <2>2. CASE c <= a
    <3>1. a \in (a..b) \intersect (c..d)
      BY <1>1, <2>2
    <3> QED
      BY <3>1
  <2> QED
    BY <2>1, <2>2
<1>2. ASSUME NEW x \in (a..b) \intersect (c..d) PROVE a <= d /\ c <= b
    BY <1>2
<1> QED
    BY <1>1, <1>2

\* A text that parses stands for a network of at least one address, the one typed among them.
LEMMA NetworkOfText ==
    ASSUME NEW t \in Texts, Parses(t)
    PROVE  /\ t.family \in {"ipv4", "ipv6"}
           /\ t = [family |-> t.family, address |-> t.address, prefix |-> t.prefix]
           /\ Width[t.family] \in Nat /\ PrefixLength(t) \in 0..Width[t.family]
           /\ Size(t) \in Nat \ {0}
           /\ FirstAddress(t) \in Nat /\ LastAddress(t) \in Nat /\ FirstAddress(t) <= LastAddress(t)
           /\ (FirstAddress(t) \div Size(t)) * Size(t) = FirstAddress(t)
<1>1. PICK f \in Families :
          t \in [family : {f}, address : Addresses(f), prefix : {Bare} \union 0..(Width[f] + 1)]
    BY DEF Texts
<1>2. t.family = f /\ t.family \in {"ipv4", "ipv6"} /\ Width[t.family] \in Nat
    BY <1>1, FamiliesAssumption, WidthAssumption
<1>3. PrefixLength(t) \in 0..Width[t.family]
    BY <1>1, <1>2, WidthAssumption DEF PrefixLength, Parses, Bare
<1>4. Size(t) \in Nat \ {0}
    BY <1>2, <1>3, PowersGrow DEF Size
<1>5. t.address \in Nat
    BY <1>1, <1>2, PowersGrow DEF Addresses
<1>6. /\ FirstAddress(t) \in Nat
      /\ (FirstAddress(t) \div Size(t)) * Size(t) = FirstAddress(t)
    BY <1>4, <1>5, Aligned DEF FirstAddress
<1>7. LastAddress(t) \in Nat /\ FirstAddress(t) <= LastAddress(t)
    BY <1>4, <1>6 DEF LastAddress
<1>8. t = [family |-> t.family, address |-> t.address, prefix |-> t.prefix]
    BY <1>1
<1> QED
    BY <1>2, <1>3, <1>4, <1>6, <1>7, <1>8

\* Two accepted texts of one size have one prefix length.
LEMMA SizeTellsPrefix ==
    ASSUME NEW t \in Texts, NEW u \in Texts, Parses(t), Parses(u), t.family = u.family,
           Size(t) = Size(u)
    PROVE  PrefixLength(t) = PrefixLength(u)
<1> DEFINE m == Width[t.family] - PrefixLength(t)
           n == Width[u.family] - PrefixLength(u)
<1>1. m \in Nat /\ n \in Nat /\ 2 ^ m = 2 ^ n
    BY NetworkOfText DEF Size
<1>2. ~(m < n) /\ ~(n < m)
  <2> HIDE DEF m, n
  <2> QED
    BY <1>1, PowersGrow
<1> QED
    BY <1>1, <1>2, NetworkOfText

\* For any width and any limit, in both families: the stored text is one network's, and no
\* other text is.
THEOREM NormalTextIsCanonical == Spec => []NormalIsCanonical
<1>1. ASSUME InputsOK, Registered(text), Registered(other)
      PROVE  Normalized(text) = Normalized(other) <=> Network(text) = Network(other)
  <2>1. text \in Texts /\ other \in Texts /\ Parses(text) /\ Parses(other)
    BY <1>1 DEF InputsOK, Registered, Accepts
  <2>2. ASSUME Normalized(text) = Normalized(other) PROVE Network(text) = Network(other)
    <3>1. /\ text.family = other.family /\ FirstAddress(text) = FirstAddress(other)
          /\ PrefixLength(text) = PrefixLength(other)
      BY <2>1, <2>2, NetworkOfText DEF Normalized, Bare
    <3> QED
      BY <3>1 DEF Network, LastAddress, Size
  <2>3. ASSUME Network(text) = Network(other) PROVE Normalized(text) = Normalized(other)
    <3>1. /\ text.family = other.family
          /\ FirstAddress(text)..LastAddress(text) = FirstAddress(other)..LastAddress(other)
      BY <2>3 DEF Network
    <3>2. FirstAddress(text) = FirstAddress(other) /\ LastAddress(text) = LastAddress(other)
      BY <2>1, <3>1, NetworkOfText, SameInterval
    <3>3. Size(text) = Size(other)
      BY <2>1, <3>2, NetworkOfText DEF LastAddress
    <3>4. PrefixLength(text) = PrefixLength(other)
      BY <2>1, <3>1, <3>3, SizeTellsPrefix
    <3> QED
      BY <3>1, <3>2, <3>4 DEF Normalized
  <2> QED
    BY <2>2, <2>3
<1>2. InputsOK => NormalIsCanonical
    BY <1>1 DEF NormalIsCanonical
<1> QED
    BY <1>2, InputsAlways, PTL

\* The one kind of text that is not read as it was stored.
SingleIPv6(t) == t.family = "ipv6" /\ PrefixLength(t) = Width["ipv6"]

\* Every other stored text is read as the network it was stored for.
LEMMA StoredIsReadAgain ==
    ASSUME NEW t \in Texts, Parses(t), ~SingleIPv6(t)
    PROVE  /\ Normalized(t).family = t.family /\ Parses(Normalized(t))
           /\ Size(Normalized(t)) = Size(t)
           /\ FirstAddress(Normalized(t)) = FirstAddress(t)
           /\ LastAddress(Normalized(t)) = LastAddress(t)
<1>1. /\ Normalized(t).family = t.family /\ Normalized(t).address = FirstAddress(t)
      /\ Normalized(t).prefix =
            IF PrefixLength(t) = Width[t.family] THEN Bare ELSE PrefixLength(t)
    BY DEF Normalized
<1>2. PrefixLength(t) \in 0..Width[t.family] /\ t.family \in {"ipv4", "ipv6"}
    BY NetworkOfText
<1>3. PrefixLength(Normalized(t)) = PrefixLength(t)
  <2>1. CASE PrefixLength(t) = Width[t.family]
    <3>1. t.family = "ipv4" /\ Normalized(t).prefix = Bare
      BY <1>1, <1>2, <2>1 DEF SingleIPv6
    <3> QED
      BY <2>1, <3>1 DEF PrefixLength
  <2>2. CASE PrefixLength(t) # Width[t.family]
    <3>1. Normalized(t).prefix = PrefixLength(t) /\ PrefixLength(t) # Bare
      BY <1>1, <1>2, <2>2, NetworkOfText DEF Bare
    <3> QED
      BY <3>1 DEF PrefixLength
  <2> QED
    BY <2>1, <2>2
<1>4. Size(Normalized(t)) = Size(t) /\ Parses(Normalized(t))
    BY <1>1, <1>3 DEF Size, Parses
<1>5. FirstAddress(Normalized(t)) = FirstAddress(t)
    BY <1>1, <1>4, NetworkOfText DEF FirstAddress
<1> QED
    BY <1>1, <1>4, <1>5 DEF LastAddress

\* For any width and any limit, in both families, single IPv6 addresses apart: the comparison
\* of two stored texts finds a common address exactly if there is one.
THEOREM OverlapIsSharing ==
    Spec => [](~SingleIPv6(text) /\ ~SingleIPv6(other) => OverlapsIsSharing)
<1>1. ASSUME InputsOK, Registered(text), Registered(other), ~SingleIPv6(text), ~SingleIPv6(other)
      PROVE  Overlaps(Normalized(text), Normalized(other)) <=>
                 /\ text.family = other.family
                 /\ Network(text).addresses \intersect Network(other).addresses # {}
  <2>1. text \in Texts /\ other \in Texts /\ Parses(text) /\ Parses(other)
    BY <1>1 DEF InputsOK, Registered, Accepts
  <2>2. /\ Normalized(text).family = text.family /\ Normalized(other).family = other.family
        /\ FirstAddress(Normalized(text)) = FirstAddress(text)
        /\ LastAddress(Normalized(text)) = LastAddress(text)
        /\ FirstAddress(Normalized(other)) = FirstAddress(other)
        /\ LastAddress(Normalized(other)) = LastAddress(other)
    BY <1>1, <2>1, StoredIsReadAgain
  <2>3. (FirstAddress(text) <= LastAddress(other) /\ FirstAddress(other) <= LastAddress(text)) <=>
            (FirstAddress(text)..LastAddress(text))
                \intersect (FirstAddress(other)..LastAddress(other)) # {}
    BY <2>1, NetworkOfText, IntervalsMeet
  <2> QED
    BY <2>2, <2>3 DEF Overlaps, Network
<1>2. InputsOK => (~SingleIPv6(text) /\ ~SingleIPv6(other) => OverlapsIsSharing)
    BY <1>1 DEF OverlapsIsSharing
<1> QED
    BY <1>2, InputsAlways, PTL

\* ... and the worker accepts the stored text as the network that was registered, with the
\* same permission for public addresses.
THEOREM StoredIsAccepted == Spec => [](~SingleIPv6(text) => RevalidationAccepts)
<1>1. ASSUME InputsOK, NEW allowed \in BOOLEAN, text # Nothing, ~SingleIPv6(text),
             Accepts(text, allowed)
      PROVE  Accepts(Normalized(text), allowed) /\ Network(Normalized(text)) = Network(text)
  <2>1. text \in Texts /\ Parses(text)
    BY <1>1 DEF InputsOK, Accepts
  <2> QED
    BY <1>1, <2>1, StoredIsReadAgain DEF Accepts, Network
<1>2. InputsOK => (~SingleIPv6(text) => RevalidationAccepts)
    BY <1>1 DEF RevalidationAccepts
<1> QED
    BY <1>2, InputsAlways, PTL

\* A single IPv6 address is never accepted again, whatever is permitted: without prefix it is
\* read as a network that is larger than any limit the settings admit.  Scope_ipv6 shows one.
THEOREM SingleIPv6IsRefused ==
    Spec => [](text # Nothing /\ SingleIPv6(text) =>
                   \A allowed \in BOOLEAN : ~Accepts(Normalized(text), allowed))
<1>1. ASSUME NEW t, SingleIPv6(t), NEW allowed \in BOOLEAN, Accepts(Normalized(t), allowed)
      PROVE  FALSE
  <2>1. Normalized(t).family = "ipv6" /\ PrefixLength(Normalized(t)) = Width["ipv4"]
    BY <1>1 DEF SingleIPv6, Normalized, PrefixLength
  <2>2. Width["ipv4"] \in Nat /\ Width["ipv6"] \in Nat /\ Width["ipv4"] <= Width["ipv6"]
    BY <1>1, <2>1, WidthAssumption DEF Accepts, Parses
  <2>3. Size(Normalized(t)) = 2 ^ (Width["ipv6"] - Width["ipv4"])
    BY <2>1 DEF Size
  <2>4. 2 ^ (Width["ipv6"] - Width["ipv4"]) \in Nat
    BY <2>2, PowersGrow
  <2>5. Size(Normalized(t)) > MaxAddresses
    BY <2>3, <2>4, WidthAssumption
  <2> QED
    BY <1>1, <2>3, <2>4, <2>5, WidthAssumption DEF Accepts
<1>2. text # Nothing /\ SingleIPv6(text) =>
          \A allowed \in BOOLEAN : ~Accepts(Normalized(text), allowed)
    BY <1>1
<1> QED
    BY <1>2, PTL

----------------------------------------------------------------------------
(* RiskRules: names and products.                                          *)

\* No alias stands for another alias.
LEMMA NamesAreNormalOnce ==
    ASSUME NEW raw
    PROVE  ServiceName(ServiceName(raw)) = ServiceName(raw)
<1>1. CASE raw \in DOMAIN ServiceAliases
  <2>1. ServiceAliases[raw] \in {"https", "http", "rdp", "smb", "dns", "imap", "pop3", "smtp", "veritas"}
    BY <1>1 DEF ServiceAliases
  <2>2. ServiceAliases[raw] \notin DOMAIN ServiceAliases
    BY <2>1 DEF ServiceAliases
  <2> QED
    BY <1>1, <2>2 DEF ServiceName, Aliased
<1> QED
    BY <1>1 DEF ServiceName, Aliased

\* ... and the two products that are aliases of themselves stand for themselves.
LEMMA ProductsAreNormalOnce ==
    ASSUME NEW raw
    PROVE  Product(Product(raw)) = Product(raw)
<1>1. CASE raw \in DOMAIN ProductAliases
  <2>1. ProductAliases[raw] \in {"iis", "apache", "nginx", "openssh"}
    BY <1>1 DEF ProductAliases
  <2>2. /\ {"iis", "apache"} \intersect DOMAIN ProductAliases = {}
        /\ ProductAliases["nginx"] = "nginx" /\ ProductAliases["openssh"] = "openssh"
    BY DEF ProductAliases
  <2> QED
    BY <1>1, <2>1, <2>2 DEF Product, Aliased
<1> QED
    BY <1>1 DEF Product, Aliased

\* For any name and any product: what is stored normalised is read as it is, and the CPE built
\* from a normalised product is that of the product.
THEOREM NormalisedOnce == Spec => []NormalisingIsOnce
<1>1. NormalisingIsOnce
    BY NamesAreNormalOnce, ProductsAreNormalOnce DEF NormalisingIsOnce, Cpe
<1> QED
    BY <1>1, PTL

----------------------------------------------------------------------------
(* RiskRules: the loop over the findings.                                  *)

\* h tells what the loop has made of each set of the first n findings.
Fold(seq, n, h) ==
    h = [s \in SUBSET (1..n) |->
            IF s = {} THEN "low" ELSE Worse(h[s \ {Max(s)}], seq[Max(s)])]

\* The last finding of a set of them.
LEMMA UpTo ==
    ASSUME NEW n \in Nat, NEW s \in SUBSET (1..(n + 1)), n + 1 \in s
    PROVE  Max(s) = n + 1
<1>1. \A y \in s : n + 1 >= y
    OBVIOUS
<1>2. \A x \in s : (\A y \in s : x >= y) => x = n + 1
    OBVIOUS
<1> QED
    BY <1>1, <1>2 DEF Max

\* The recursion of the fold has a solution for every length: one finding more extends it.
LEMMA FoldsExist ==
    ASSUME NEW seq
    PROVE  \A n \in Nat : \E h : Fold(seq, n, h)
<1> DEFINE S == {n \in Nat : \E h : Fold(seq, n, h)}
<1>1. 0 \in S
  <2>1. Fold(seq, 0, [s \in SUBSET (1..0) |-> "low"])
    <3>1. \A s \in SUBSET (1..0) : s = {}
      OBVIOUS
    <3> QED
      BY <3>1 DEF Fold
  <2> QED
    BY <2>1
<1>2. ASSUME NEW n \in Nat, NEW h, Fold(seq, n, h)
      PROVE  \E g : Fold(seq, n + 1, g)
  <2> DEFINE g == [s \in SUBSET (1..(n + 1)) |->
                      IF n + 1 \in s THEN Worse(h[s \ {n + 1}], seq[n + 1]) ELSE h[s]]
             e == [s \in SUBSET (1..(n + 1)) |->
                      IF s = {} THEN "low" ELSE Worse(g[s \ {Max(s)}], seq[Max(s)])]
  <2>1. ASSUME NEW s \in SUBSET (1..(n + 1)), n + 1 \in s PROVE g[s] = e[s]
    <3>1. Max(s) = n + 1
      BY <2>1, UpTo
    <3>2. s \ {n + 1} \in SUBSET (1..(n + 1)) /\ n + 1 \notin s \ {n + 1}
      OBVIOUS
    <3>3. g[s \ {n + 1}] = h[s \ {n + 1}]
      BY <3>2
    <3>4. e[s] = Worse(g[s \ {n + 1}], seq[n + 1])
      BY <2>1, <3>1
    <3>5. g[s] = Worse(h[s \ {n + 1}], seq[n + 1])
      BY <2>1
    <3> QED
      BY <3>3, <3>4, <3>5
  <2>2. ASSUME NEW s \in SUBSET (1..(n + 1)), n + 1 \notin s PROVE g[s] = e[s]
    <3>1. s \in SUBSET (1..n)
      BY <2>2
    <3>2. g[s] = h[s]
      BY <2>2
    <3>3. h[s] = IF s = {} THEN "low" ELSE Worse(h[s \ {Max(s)}], seq[Max(s)])
      BY <1>2, <3>1 DEF Fold
    <3>4. s \ {Max(s)} \in SUBSET (1..(n + 1)) /\ n + 1 \notin s \ {Max(s)}
      BY <2>2
    <3>5. g[s \ {Max(s)}] = h[s \ {Max(s)}]
      BY <3>4
    <3>6. e[s] = IF s = {} THEN "low" ELSE Worse(g[s \ {Max(s)}], seq[Max(s)])
      OBVIOUS
    <3> QED
      BY <3>2, <3>3, <3>5, <3>6
  <2>3. g = e
    <3> HIDE DEF g
    <3>1. \A s \in SUBSET (1..(n + 1)) : g[s] = e[s]
      BY <2>1, <2>2
    <3>2. g = [s \in SUBSET (1..(n + 1)) |-> g[s]]
      BY DEF g
    <3> QED
      BY <3>1, <3>2
  <2>4. Fold(seq, n + 1, g)
    <3> HIDE DEF g
    <3> QED
      BY <2>3 DEF Fold
  <2> QED
    BY <2>4
<1>3. Nat \subseteq S
  <2> HIDE DEF S
  <2>1. \A n \in Nat : n \in S => n + 1 \in S
    BY <1>2 DEF S
  <2> QED
    BY <1>1, <2>1, NumbersOf
<1> QED
    BY <1>3

\* So the loop is that solution.
LEMMA WorstIsAFold ==
    ASSUME NEW n \in Nat, NEW seq \in [1..n -> Severities]
    PROVE  \E h : Fold(seq, n, h) /\ Worst(seq) = h[1..n]
<1> DEFINE h == CHOOSE g : Fold(seq, n, g)
<1>1. Worst(seq) = h[1..n]
    BY DEF Worst, FoldLeft, MapThenFoldSet, Fold
<1> QED
    BY <1>1, FoldsExist

\* What the loop may hold.
Levels == {"critical", "high", "medium", "low"}

\* One turn keeps the worse of the two.
LEMMA WorseIsGreater ==
    ASSUME NEW worst \in Levels, NEW s \in Severities
    PROVE  /\ Worse(worst, s) \in Levels
           /\ Rank[worst] <= Rank[Worse(worst, s)] /\ Rank[s] <= Rank[Worse(worst, s)]
           /\ Worse(worst, s) \in {worst, s}
<1>1. /\ Rank["critical"] = 4 /\ Rank["high"] = 3 /\ Rank["medium"] = 2
      /\ Rank["low"] = 1 /\ Rank["info"] = 1
    BY DEF Rank, Severities
<1> QED
    BY <1>1 DEF Worse, Levels, Severities

LEMMA Ranked ==
    /\ \A s \in Severities : Rank[s] \in 1..4
    /\ Levels \subseteq Severities
    /\ Rank["low"] = 1
BY DEF Rank, Severities, Levels

\* After the loop: as bad as every finding, and one of them unless it is "low".
LEMMA WorstOfAll ==
    ASSUME NEW n \in Nat, NEW seq \in [1..n -> Severities]
    PROVE  /\ Worst(seq) \in Levels
           /\ \A i \in 1..n : Rank[seq[i]] <= Rank[Worst(seq)]
           /\ Worst(seq) = "low" \/ \E i \in 1..n : Worst(seq) = seq[i]
<1>1. PICK h : Fold(seq, n, h) /\ Worst(seq) = h[1..n]
    BY WorstIsAFold
<1> DEFINE P(k) == /\ h[1..k] \in Levels
                   /\ \A i \in 1..k : Rank[seq[i]] <= Rank[h[1..k]]
                   /\ h[1..k] = "low" \/ \E i \in 1..k : h[1..k] = seq[i]
           S == {k \in Nat : k <= n => P(k)}
<1>2. P(0)
  <2>1. 1..0 = {}
    OBVIOUS
  <2>2. h[{}] = "low"
    BY <1>1 DEF Fold
  <2> QED
    BY <2>1, <2>2 DEF Levels
<1>3. ASSUME NEW k \in Nat, k + 1 <= n, P(k) PROVE P(k + 1)
  <2>1. k + 1 \in 1..(k + 1) /\ (1..(k + 1)) \ {k + 1} = 1..k /\ 1..(k + 1) \in SUBSET (1..n)
    BY <1>3
  <2>2. Max(1..(k + 1)) = k + 1
    BY <2>1, UpTo
  <2>3. h[1..(k + 1)] = Worse(h[1..k], seq[k + 1])
    BY <1>1, <2>1, <2>2 DEF Fold
  <2>4. seq[k + 1] \in Severities /\ h[1..k] \in Levels
    BY <1>3
  <2>5. /\ h[1..(k + 1)] \in Levels
        /\ Rank[h[1..k]] <= Rank[h[1..(k + 1)]] /\ Rank[seq[k + 1]] <= Rank[h[1..(k + 1)]]
        /\ h[1..(k + 1)] \in {h[1..k], seq[k + 1]}
    BY <2>3, <2>4, WorseIsGreater
  <2>6. ASSUME NEW i \in 1..(k + 1) PROVE Rank[seq[i]] <= Rank[h[1..(k + 1)]]
    <3>1. CASE i = k + 1
      BY <2>5, <3>1
    <3>2. CASE i \in 1..k
      <4>1. seq[i] \in Severities
        BY <1>3, <3>2
      <4>2. Rank[seq[i]] \in 1..4 /\ Rank[h[1..k]] \in 1..4 /\ Rank[h[1..(k + 1)]] \in 1..4
        BY <2>4, <2>5, <4>1, Ranked
      <4>3. Rank[seq[i]] <= Rank[h[1..k]]
        BY <1>3, <3>2
      <4> QED
        BY <2>5, <4>2, <4>3
    <3> QED
      BY <3>1, <3>2
  <2>7. h[1..(k + 1)] = "low" \/ \E i \in 1..(k + 1) : h[1..(k + 1)] = seq[i]
    BY <1>3, <2>5
  <2> QED
    BY <2>5, <2>6, <2>7
<1>4. Nat \subseteq S
  <2>1. 0 \in S
    BY <1>2
  <2>2. \A k \in Nat : k \in S => k + 1 \in S
    <3> HIDE DEF P
    <3> QED
      BY <1>3
  <2> HIDE DEF S
  <2> QED
    BY <2>1, <2>2, NumbersOf
<1>5. P(n)
  <2> HIDE DEF P
  <2> QED
    BY <1>4
<1> QED
    BY <1>1, <1>5

\* For any number of findings, in any order, the loop returns the worst one.
THEOREM WorstIsFound == Spec => []WorstIsMaximum
<1>1. ASSUME InputsOK, observed # Nothing
      PROVE  Rank[Worst(observed.findings)]
                 = Max({1} \union {Rank[s] : s \in Range(observed.findings)})
  <2> DEFINE seq == observed.findings
             ranks == {1} \union {Rank[s] : s \in Range(seq)}
             worst == Rank[Worst(seq)]
  <2>1. seq \in Seq(Severities)
    BY <1>1 DEF InputsOK, Services
  <2>2. Len(seq) \in Nat /\ seq \in [1..Len(seq) -> Severities]
    BY <2>1
  <2>3. Range(seq) = {seq[i] : i \in 1..Len(seq)} /\ Range(seq) \subseteq Severities
    BY <2>2 DEF Range
  <2>4. /\ Worst(seq) \in Levels /\ \A i \in 1..Len(seq) : Rank[seq[i]] <= Rank[Worst(seq)]
        /\ Worst(seq) = "low" \/ \E i \in 1..Len(seq) : Worst(seq) = seq[i]
    <3> HIDE DEF seq
    <3> QED
      BY <2>2, WorstOfAll
  <2>5. worst \in 1..4 /\ ranks \subseteq 1..4
    <3> HIDE DEF seq
    <3> QED
      BY <2>3, <2>4, Ranked
  <2>6. worst \in ranks
    <3> HIDE DEF seq
    <3> QED
      BY <2>3, <2>4, Ranked
  <2>7. \A r \in ranks : worst >= r
    <3> HIDE DEF seq
    <3> QED
      BY <2>3, <2>4, <2>5
  <2> HIDE DEF seq, ranks, worst
  <2>8. \A r \in ranks : (\A q \in ranks : r >= q) => r = worst
    BY <2>5, <2>6, <2>7
  <2>9. Max(ranks) = worst
    BY <2>6, <2>7, <2>8 DEF Max
  <2> QED
    BY <2>9 DEF seq, ranks, worst
<1>2. InputsOK => WorstIsMaximum
    BY <1>1 DEF WorstIsMaximum
<1> QED
    BY <1>2, InputsAlways, PTL

----------------------------------------------------------------------------
(* RiskRules: the score.                                                   *)

\* The risks an entry may start from.
Bases == {"none", "low", "medium", "high", "critical"}

LEMMA CatalogueBases ==
    /\ DOMAIN Catalogue = 1..19
    /\ \A c \in Entries : c.base \in Bases
    /\ Uncatalogued.base \in Bases
<1>1. DOMAIN Catalogue = 1..19
    BY DEF Catalogue
<1>2. \A i \in 1..19 : Catalogue[i].base \in Bases
    BY DEF Catalogue, Entry, Bases
<1> QED
    BY <1>1, <1>2 DEF Entries, Uncatalogued, Entry, Bases

\* Whatever is observed, the service is given an entry or none.
LEMMA ResolveFindsAnEntry ==
    ASSUME NEW name, NEW mentions, NEW port
    PROVE  Resolve(name, mentions, port) \in Entries \union {Uncatalogued}
<1>1. CASE name \in Keys
    BY <1>1 DEF Resolve, Keys
<1>2. CASE name \notin Keys /\ mentions \intersect Keys # {}
  <2> DEFINE I == {i \in 1..Len(Catalogue) : Catalogue[i].key \in mentions}
  <2>1. Len(Catalogue) = 19 /\ DOMAIN Catalogue = 1..19
    BY CatalogueBases DEF Catalogue
  <2>2. I # {} /\ I \in SUBSET Nat
    BY <1>2, <2>1 DEF Keys, Entries
  <2>3. Min(I) \in I
    <3> HIDE DEF I
    <3> QED
      BY <2>2, SmallestIsThere
  <2>4. SelectInSeq(Catalogue, LAMBDA c : c.key \in mentions) = Min(I)
    BY <2>2 DEF SelectInSeq
  <2> QED
    BY <1>2, <2>1, <2>3, <2>4 DEF Resolve, Entries
<1>3. CASE name \notin Keys /\ mentions \intersect Keys = {}
    BY <1>3 DEF Resolve
<1> QED
    BY <1>1, <1>2, <1>3

LEMMA ScoreIsCapped ==
    ASSUME NEW x \in Nat
    PROVE  Min({100, x}) = IF x <= 100 THEN x ELSE 100
BY DEF Min

\* With another finding the worst one is no better.
LEMMA WorstGrows ==
    ASSUME NEW seq \in Seq(Severities), NEW s \in Severities
    PROVE  /\ Worst(seq) \in Levels /\ Worst(Append(seq, s)) \in Levels
           /\ Rank[Worst(seq)] <= Rank[Worst(Append(seq, s))]
<1> DEFINE n == Len(seq)
           more == Append(seq, s)
<1>1. /\ n \in Nat /\ seq \in [1..n -> Severities]
      /\ more \in [1..(n + 1) -> Severities] /\ \A i \in 1..n : more[i] = seq[i]
  <2>1. more \in Seq(Severities) /\ Len(more) = n + 1
    OBVIOUS
  <2>2. \A i \in 1..n : more[i] = seq[i]
    OBVIOUS
  <2>3. n \in Nat /\ seq \in [1..n -> Severities]
    OBVIOUS
  <2> HIDE DEF more
  <2>4. more \in [1..(n + 1) -> Severities]
    BY <2>1
  <2> QED
    BY <2>2, <2>3, <2>4
<1> HIDE DEF n, more
<1>2. /\ Worst(seq) \in Levels
      /\ Worst(seq) = "low" \/ \E i \in 1..n : Worst(seq) = seq[i]
    BY <1>1, WorstOfAll
<1>3. /\ Worst(more) \in Levels
      /\ \A i \in 1..(n + 1) : Rank[more[i]] <= Rank[Worst(more)]
    BY <1>1, WorstOfAll
<1>4. Rank[Worst(seq)] <= Rank[Worst(more)]
  <2>1. CASE Worst(seq) = "low"
    BY <1>3, <2>1, Ranked
  <2>2. CASE \E i \in 1..n : Worst(seq) = seq[i]
    BY <1>1, <1>3, <2>2
  <2> QED
    BY <1>2, <2>1, <2>2
<1> QED
    BY <1>2, <1>3, <1>4 DEF more

LEMMA FindingRiskGrows ==
    ASSUME NEW a \in Levels, NEW b \in Levels, Rank[a] <= Rank[b]
    PROVE  FindingRisk[a] \in Nat /\ FindingRisk[b] \in Nat /\ FindingRisk[a] <= FindingRisk[b]
<1>1. /\ Rank["critical"] = 4 /\ Rank["high"] = 3 /\ Rank["medium"] = 2 /\ Rank["low"] = 1
      /\ FindingRisk["critical"] = 40 /\ FindingRisk["high"] = 25 /\ FindingRisk["medium"] = 15
      /\ FindingRisk["low"] = 0
    BY DEF Rank, Severities, FindingRisk
<1> QED
    BY <1>1 DEF Levels

LEMMA ExposureGrows ==
    ASSUME NEW entry \in Entries \union {Uncatalogued}, NEW public \in BOOLEAN
    PROVE  /\ Exposure(entry, public) \in Nat /\ Exposure(entry, TRUE) \in Nat
           /\ Exposure(entry, public) <= Exposure(entry, TRUE)
<1>1. entry.base \in Bases
    BY CatalogueBases
<1>2. BaseRisk[entry.base] \in Nat
    BY <1>1 DEF Bases, BaseRisk
<1> DEFINE rest == BaseRisk[entry.base] + (IF entry.remote THEN 20 ELSE 0)
                      + (IF entry # Uncatalogued /\ ~entry.encrypted THEN 15 ELSE 0)
           now == Exposure(entry, public)
           exposed == Exposure(entry, TRUE)
<1>3. rest \in Nat
    BY <1>2
<1>4. exposed = rest + 20 /\ now \in {rest + 20, rest + 0}
    BY DEF Exposure
<1> HIDE DEF rest, now, exposed
<1>5. now \in Nat /\ exposed \in Nat /\ now <= exposed
    BY <1>3, <1>4
<1> QED
    BY <1>5 DEF now, exposed

\* For any service, whatever its name, product and port, and any number of findings: another
\* finding and a public address never lower its score or its level.
THEOREM RiskNeverFalls == Spec => []RiskGrows
<1>1. ASSUME InputsOK, observed # Nothing, NEW s \in Severities
      PROVE  LET entry == EntryOf(observed)
                 now == Score(entry, observed.public, observed.findings)
                 more == Score(entry, TRUE, Append(observed.findings, s)) IN
             more >= now /\ more <= 100 /\ Level(more) >= Level(now)
  <2> DEFINE entry == EntryOf(observed)
             now == Score(entry, observed.public, observed.findings)
             more == Score(entry, TRUE, Append(observed.findings, s))
             a == FindingRisk[Worst(observed.findings)]
             b == FindingRisk[Worst(Append(observed.findings, s))]
             x == Exposure(entry, observed.public)
             y == Exposure(entry, TRUE)
  <2>1. observed.findings \in Seq(Severities) /\ observed.public \in BOOLEAN
    BY <1>1 DEF InputsOK, Services
  <2>2. entry \in Entries \union {Uncatalogued}
    BY ResolveFindsAnEntry DEF EntryOf
  <2>3. a \in Nat /\ b \in Nat /\ a <= b
    BY <2>1, WorstGrows, FindingRiskGrows
  <2>4. x \in Nat /\ y \in Nat /\ x <= y
    <3> HIDE DEF entry
    <3> QED
      BY <2>1, <2>2, ExposureGrows
  <2>5. now = Min({100, x + a}) /\ more = Min({100, y + b})
    BY DEF Score
  <2> HIDE DEF now, more, a, b, x, y
  <2>6. now = (IF x + a <= 100 THEN x + a ELSE 100) /\ more = (IF y + b <= 100 THEN y + b ELSE 100)
    BY <2>3, <2>4, <2>5, ScoreIsCapped
  <2>7. now \in Nat /\ more \in Nat /\ more >= now /\ more <= 100
    BY <2>3, <2>4, <2>6
  <2>8. Level(more) >= Level(now)
    BY <2>7 DEF Level
  <2> QED
    BY <2>7, <2>8 DEF now, more
<1>2. InputsOK => RiskGrows
    BY <1>1 DEF RiskGrows
<1> QED
    BY <1>2, InputsAlways, PTL
=============================================================================
