------------------------------ MODULE RiskRules ------------------------------
(***************************************************************************)
(* What intelligence/ makes of one observed service: the normalised name   *)
(* and product, the entry of the catalogue, the context of the host, and   *)
(* the score and level of risk.  A product is a name with the catalogue    *)
(* keys that occur in it; a version is left out.                           *)
(***************************************************************************)
EXTENDS Integers, Sequences, SequencesExt

Unknown == "unknown"

----------------------------------------------------------------------------
(* normalization.py                                                        *)

ServiceAliases ==
    [raw \in {"ssl/http", "https-alt", "http-proxy", "ms-wbt-server", "microsoft-ds",
              "netbios-ssn", "domain", "imaps", "pop3s", "smtps", "submission", "veritas-dedup"} |->
        CASE raw \in {"ssl/http", "https-alt"} -> "https"
          [] raw = "http-proxy" -> "http"
          [] raw = "ms-wbt-server" -> "rdp"
          [] raw \in {"microsoft-ds", "netbios-ssn"} -> "smb"
          [] raw = "domain" -> "dns"
          [] raw = "imaps" -> "imap"
          [] raw = "pop3s" -> "pop3"
          [] raw \in {"smtps", "submission"} -> "smtp"
          [] raw = "veritas-dedup" -> "veritas"]

ProductAliases ==
    [raw \in {"microsoft iis httpd", "microsoft-iis", "apache httpd", "nginx", "openssh",
              "openssh sshd"} |->
        CASE raw \in {"microsoft iis httpd", "microsoft-iis"} -> "iis"
          [] raw = "apache httpd" -> "apache"
          [] raw = "nginx" -> "nginx"
          [] raw \in {"openssh", "openssh sshd"} -> "openssh"]

Aliased(aliases, name) == IF name \in DOMAIN aliases THEN aliases[name] ELSE name

ServiceName(raw) == Aliased(ServiceAliases, raw)

\* "unknown", "generic", "null" and nothing are no product.
Product(raw) == Aliased(ProductAliases, raw)

\* Variant: the table of the builder is keyed by what Nmap says.
RawCpe(raw) == IF raw \in DOMAIN ProductAliases THEN ProductAliases[raw] ELSE Unknown

\* extract_or_build_cpe, of a product that may be normalised already.
Cpe(product) ==
    IF Product(product) \in {"iis", "apache", "nginx", "openssh"} THEN Product(product) ELSE Unknown

----------------------------------------------------------------------------
(* catalog.py                                                              *)

Entry(key, base, encrypted, remote, ports) ==
    [key |-> key, base |-> base, encrypted |-> encrypted, remote |-> remote, ports |-> ports]

Catalogue == <<
    Entry("http", "low", FALSE, FALSE, {80, 8080}),
    Entry("https", "low", TRUE, FALSE, {443, 8443}),
    Entry("ssh", "medium", TRUE, TRUE, {22}),
    Entry("rdp", "high", TRUE, TRUE, {3389}),
    Entry("smb", "high", FALSE, FALSE, {445, 139}),
    Entry("ftp", "medium", FALSE, FALSE, {21}),
    Entry("smtp", "low", FALSE, FALSE, {25, 587, 465}),
    Entry("dns", "low", FALSE, FALSE, {53}),
    Entry("ldap", "medium", FALSE, FALSE, {389}),
    Entry("ldaps", "low", TRUE, FALSE, {636}),
    Entry("mysql", "medium", FALSE, FALSE, {3306}),
    Entry("postgresql", "medium", FALSE, FALSE, {5432}),
    Entry("mssql", "medium", FALSE, FALSE, {1433}),
    Entry("oracle", "medium", FALSE, FALSE, {1521}),
    Entry("redis", "high", FALSE, FALSE, {6379}),
    Entry("mongodb", "high", FALSE, FALSE, {27017}),
    Entry("winrm", "medium", TRUE, TRUE, {5985, 5986}),
    Entry("snmp", "medium", FALSE, FALSE, {161, 162}),
    Entry("vnc", "high", FALSE, TRUE, {5900}) >>

Entries == {Catalogue[i] : i \in DOMAIN Catalogue}
Keys == {c.key : c \in Entries}
Uncatalogued == Entry("general", "none", FALSE, FALSE, {})

\* The name, then the first entry a product mentions, then the port: the maps by key and by
\* port have one entry each to find.
Resolve(name, mentions, port) ==
    IF name \in Keys THEN CHOOSE c \in Entries : c.key = name
    ELSE IF mentions \intersect Keys # {}
         THEN Catalogue[SelectInSeq(Catalogue, LAMBDA c : c.key \in mentions)]
    ELSE IF \E c \in Entries : port \in c.ports THEN CHOOSE c \in Entries : port \in c.ports
    ELSE Uncatalogued

----------------------------------------------------------------------------
(* risk.py                                                                 *)

\* LOW is 1, CRITICAL is 4.
Level(score) ==
    IF score >= 75 THEN 4 ELSE IF score >= 50 THEN 3 ELSE IF score >= 25 THEN 2 ELSE 1

BaseRisk ==
    [base \in {"none", "low", "medium", "high", "critical"} |->
        CASE base = "none" -> 10 [] base = "low" -> 15 [] base = "medium" -> 30
          [] base = "high" -> 50 [] base = "critical" -> 75]

\* Variant: each finding replaces the one before.
Later(worst, severity) == IF severity \in {"critical", "high", "medium"} THEN severity ELSE worst

\* One turn of the loop over the findings; "info" and "unknown" change nothing.
Worse(worst, severity) ==
    CASE severity = "critical" -> "critical"
      [] severity = "high" /\ worst # "critical" -> "high"
      [] severity = "medium" /\ worst \notin {"critical", "high"} -> "medium"
      [] OTHER -> worst

Worst(severities) == FoldLeft(Worse, "low", severities)

FindingRisk ==
    [worst \in {"critical", "high", "medium", "low"} |->
        CASE worst = "critical" -> 40 [] worst = "high" -> 25
          [] worst = "medium" -> 15 [] worst = "low" -> 0]

\* Variant: the score of an exposed service starts from the exposure.
InsteadOfBase(entry, public) ==
    IF public THEN 20 ELSE BaseRisk[entry.base] + (IF entry.remote THEN 20 ELSE 0)

\* The context's flags are those of the entry.
Exposure(entry, public) ==
    BaseRisk[entry.base]
        + (IF entry.remote THEN 20 ELSE 0)
        + (IF entry # Uncatalogued /\ ~entry.encrypted THEN 15 ELSE 0)
        + (IF public THEN 20 ELSE 0)

Score(entry, public, severities) ==
    Min({100, Exposure(entry, public) + FindingRisk[Worst(severities)]})
=============================================================================
