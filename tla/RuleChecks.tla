----------------------------- MODULE RuleChecks -----------------------------
(***************************************************************************)
(* The pure rules, over every input of a bounded set, once each: pairs of  *)
(* texts an operator may type (Scope), observed services (RiskRules).      *)
(***************************************************************************)
EXTENDS Scope, RiskRules

CONSTANTS
    Names, Products, Ports, \* what Nmap may say of a service
    MentionsOf,             \* the catalogue keys that occur in a normalised product
    MaxFindings             \* bound: findings of one service

ASSUME RuleAssumption == MaxFindings \in Nat

VARIABLES
    text, other,    \* two texts; Nothing before they are typed
    observed        \* a service; Nothing before it is observed

Nothing == [family |-> "none", address |-> 0, prefix |-> 0]

Severities == {"critical", "high", "medium", "low", "info"}

Init == text = Nothing /\ other = Nothing /\ observed = Nothing

Type ==
    /\ text = Nothing /\ observed = Nothing
    /\ text' \in Texts
    /\ other' \in Texts
    /\ UNCHANGED observed

Observe ==
    /\ text = Nothing /\ observed = Nothing
    /\ \E name \in Names, product \in Products, port \in Ports, public \in BOOLEAN :
        \E findings \in UNION {[1..n -> Severities] : n \in 0..MaxFindings} :
            observed' = [name |-> name, product |-> product, port |-> port, public |-> public,
                         findings |-> findings]
    /\ UNCHANGED <<text, other>>

Next == Type \/ Observe

Spec == Init /\ [][Next]_<<text, other, observed>>

Services ==
    [name : Names, product : Products, port : Ports, public : BOOLEAN, findings : Seq(Severities)]

\* The inputs are what may be typed and what may be observed.
InputsOK ==
    /\ {text, other} \subseteq Texts \union {Nothing}
    /\ observed \in Services \union {Nothing}

----------------------------------------------------------------------------
(* Scope.                                                                  *)

Registered(t) == t # Nothing /\ Accepts(t, TRUE)

\* Two texts are stored alike exactly if they stand for the same network: the UNIQUE
\* constraint on the stored text finds every duplicate and no others.
NormalIsCanonical ==
    Registered(text) /\ Registered(other) =>
        (Normalized(text) = Normalized(other) <=> Network(text) = Network(other))

\* Stored texts overlap exactly if the networks they were accepted for share an address.
OverlapsIsSharing ==
    Registered(text) /\ Registered(other) =>
        (Overlaps(Normalized(text), Normalized(other)) <=>
            /\ text.family = other.family
            /\ Network(text).addresses \intersect Network(other).addresses # {})

\* What was accepted is accepted again by the worker, which reads the stored text, and
\* means the same network to it.
RevalidationAccepts ==
    \A allowed \in BOOLEAN :
        text # Nothing /\ Accepts(text, allowed) =>
            /\ Accepts(Normalized(text), allowed)
            /\ Network(Normalized(text)) = Network(text)

----------------------------------------------------------------------------
(* RiskRules.                                                              *)

\* The catalogue entry of the observed service.
EntryOf(o) == Resolve(ServiceName(o.name), MentionsOf[Product(o.product)], o.port)

\* Normalising what is normalised changes nothing: the stored names, read again, and the
\* CPE, which is built from a product that is normalised twice, stay what they are.
NormalisingIsOnce ==
    observed # Nothing =>
        /\ ServiceName(ServiceName(observed.name)) = ServiceName(observed.name)
        /\ Product(Product(observed.product)) = Product(observed.product)
        /\ Cpe(Product(observed.product)) = Cpe(observed.product)

Rank ==
    [s \in Severities |->
        CASE s \in {"low", "info"} -> 1 [] s = "medium" -> 2 [] s = "high" -> 3 [] s = "critical" -> 4]

\* The loop over the findings finds the worst one, in whatever order they come.
WorstIsMaximum ==
    observed # Nothing =>
        Rank[Worst(observed.findings)] = Max({1} \union {Rank[s] : s \in Range(observed.findings)})

\* Neither another finding nor a public address makes a service look safer, and the
\* level follows the score, the cap at 100 included.
RiskGrows ==
    observed # Nothing =>
        LET entry == EntryOf(observed)
            now == Score(entry, observed.public, observed.findings) IN
        \A s \in Severities :
            LET more == Score(entry, TRUE, Append(observed.findings, s)) IN
            more >= now /\ more <= 100 /\ Level(more) >= Level(now)
=============================================================================
