---------------------------- MODULE RangeRegistry ----------------------------
(***************************************************************************)
(* The register of authorised ranges: requests that register one range,    *)
(* imports that are previewed and later confirmed, and the switch that     *)
(* enables a range.  A request checks what it has read of the table; what  *)
(* happens between its SELECT and its commit it does not see, except where *)
(* the UNIQUE constraint on cidr meets it.                                 *)
(***************************************************************************)
EXTENDS Naturals, Sequences

CONSTANTS
    Cidrs,          \* the normalised networks (see Scope)
    Overlapping,    \* the pairs of them that overlap
    NoCidr,         \* "no request in flight"
    Requests,       \* bound: requests in flight together
    Batches,        \* bound: imports ever previewed
    NoBatch,        \* "no confirmation in flight"
    MaxLines        \* bound: candidates in an imported file

ASSUME SentinelsAssumption == NoCidr \notin Cidrs /\ NoBatch \notin Batches
\* What Scope shows of overlaps(): a network overlaps itself, and the order is immaterial.
ASSUME OverlappingAssumption ==
    /\ Overlapping \subseteq Cidrs \X Cidrs
    /\ \A c \in Cidrs : <<c, c>> \in Overlapping
    /\ \A c, d \in Cidrs : <<c, d>> \in Overlapping => <<d, c>> \in Overlapping
ASSUME LinesAssumption == MaxLines \in Nat

VARIABLES
    ranges,         \* authorized_ranges: the rows that are there
    enabled,        \* those of them that are enabled
    registering,    \* POST /ranges in flight: its network and the rows it read
    batch,          \* import_batches
    confirming      \* POST /ranges/import/confirm in flight: the batch it read

vars == <<ranges, enabled, registering, batch, confirming>>

Registrations == [cidr : Cidrs \union {NoCidr}, known : SUBSET Cidrs]
NoRegistration == [cidr |-> NoCidr, known |-> {}]

\* valid: the items of the payload marked valid; known: the rows the preview read,
\* kept for the properties only.
ImportBatches == [status : {"absent", "previewed", "expired", "confirmed"},
                  valid : SUBSET Cidrs, known : SUBSET Cidrs]
AbsentBatch == [status |-> "absent", valid |-> {}, known |-> {}]

TypeOK ==
    /\ ranges \subseteq Cidrs
    /\ enabled \subseteq ranges
    /\ registering \in [Requests -> Registrations]
    /\ batch \in [Batches -> ImportBatches]
    /\ confirming \in [Requests -> Batches \union {NoBatch}]

Init ==
    /\ ranges = {}
    /\ enabled = {}
    /\ registering = [r \in Requests |-> NoRegistration]
    /\ batch = [b \in Batches |-> AbsentBatch]
    /\ confirming = [r \in Requests |-> NoBatch]

Idle(r) == registering[r] = NoRegistration /\ confirming[r] = NoBatch
OverlapsAny(c, S) == \E d \in S : <<c, d>> \in Overlapping

----------------------------------------------------------------------------
(* One range.                                                              *)

\* Variant: only the very same network is refused.
SameAsAny(c, S) == c \notin S

Admits(c, S) == ~OverlapsAny(c, S)

\* create_range reads every row and refuses a network that overlaps one (409).
CheckRange(r, c) ==
    /\ Idle(r)
    /\ Admits(c, ranges)
    /\ registering' = [registering EXCEPT ![r] = [cidr |-> c, known |-> ranges]]
    /\ UNCHANGED <<ranges, enabled, batch, confirming>>

InsertRange(r) ==
    LET c == registering[r].cidr IN
    /\ c \in Cidrs \ ranges
    /\ ranges' = ranges \union {c}
    /\ enabled' = enabled \union {c}
    /\ registering' = [registering EXCEPT ![r] = NoRegistration]
    /\ UNCHANGED <<batch, confirming>>

\* The UNIQUE constraint: the request ends in an error.
InsertRefused(r) ==
    /\ registering[r].cidr \in ranges
    /\ registering' = [registering EXCEPT ![r] = NoRegistration]
    /\ UNCHANGED <<ranges, enabled, batch, confirming>>

\* patch_range.
SwitchRange(c) ==
    /\ c \in ranges
    /\ enabled' = IF c \in enabled THEN enabled \ {c} ELSE enabled \union {c}
    /\ UNCHANGED <<ranges, registering, batch, confirming>>

----------------------------------------------------------------------------
(* Imports.                                                                *)

Files == UNION {[1..n -> Cidrs] : n \in 1..MaxLines}

\* A candidate is valid unless it overlaps a row or any candidate before it, valid or not.
ValidAt(file, i) == ~OverlapsAny(file[i], ranges \union {file[j] : j \in 1..(i - 1)})

PreviewImport(b) ==
    /\ batch[b].status = "absent"
    /\ \E file \in Files :
        batch' = [batch EXCEPT ![b] =
            [status |-> "previewed", known |-> ranges,
             valid |-> {file[i] : i \in {j \in DOMAIN file : ValidAt(file, j)}}]]
    /\ UNCHANGED <<ranges, enabled, registering, confirming>>

\* 30 minutes pass; the column is not written, the time is compared.
Expire(b) ==
    /\ batch[b].status = "previewed"
    /\ batch' = [batch EXCEPT ![b].status = "expired"]
    /\ UNCHANGED <<ranges, enabled, registering, confirming>>

\* confirm_import reads the batch; any other status answers 409.
ReadBatch(r, b) ==
    /\ Idle(r)
    /\ batch[b].status = "previewed"
    /\ confirming' = [confirming EXCEPT ![r] = b]
    /\ UNCHANGED <<ranges, enabled, registering, batch>>

\* Variant: the items somebody else has registered meanwhile are overwritten.
ConfirmAnyway(b) == TRUE

\* The INSERTs of all items meet no row with the same network.
AllNew(b) == batch[b].valid \intersect ranges = {}

\* All the valid items in one transaction, without another look at overlaps.
CommitImport(r) ==
    LET b == confirming[r] IN
    /\ b \in Batches
    /\ AllNew(b)
    /\ ranges' = ranges \union batch[b].valid
    /\ enabled' = enabled \union batch[b].valid
    /\ batch' = [batch EXCEPT ![b].status = "confirmed"]
    /\ confirming' = [confirming EXCEPT ![r] = NoBatch]
    /\ UNCHANGED registering

\* IntegrityError: rolled back as a whole, 409 "gere uma nova previa".
ImportRefused(r) ==
    LET b == confirming[r] IN
    /\ b \in Batches
    /\ ~AllNew(b)
    /\ confirming' = [confirming EXCEPT ![r] = NoBatch]
    /\ UNCHANGED <<ranges, enabled, registering, batch>>

Next ==
    \/ \E r \in Requests :
        \/ \E c \in Cidrs : CheckRange(r, c)
        \/ InsertRange(r) \/ InsertRefused(r)
        \/ \E b \in Batches : ReadBatch(r, b)
        \/ CommitImport(r) \/ ImportRefused(r)
    \/ \E c \in Cidrs : SwitchRange(c)
    \/ \E b \in Batches : PreviewImport(b) \/ Expire(b)

Spec == Init /\ [][Next]_vars

----------------------------------------------------------------------------
(* Properties.                                                             *)

Overlap(c, d) == c # d /\ <<c, d>> \in Overlapping

\* A network enters the register next to one it overlaps only if that one was not there
\* when it was checked: neither for POST /ranges, nor for any two items of one import.
OverlapsOnlyUnseen ==
    [][\A c \in ranges' \ ranges, d \in ranges' : Overlap(c, d) =>
        /\ d \in ranges
        /\ \/ \E r \in Requests : registering[r].cidr = c /\ d \notin registering[r].known
           \/ \E r \in Requests : \E b \in Batches :
                confirming[r] = b /\ c \in batch[b].valid /\ d \notin batch[b].known]_vars

\* Why: what a request or a batch carries overlaps nothing it has read, and the items
\* of a batch do not overlap each other.
CheckedInvariant ==
    /\ \A r \in Requests : registering[r].cidr # NoCidr =>
            ~OverlapsAny(registering[r].cidr, registering[r].known)
    /\ \A b \in Batches : \A c \in batch[b].valid :
            /\ ~OverlapsAny(c, batch[b].known)
            /\ \A d \in batch[b].valid : ~Overlap(c, d)

\* A confirmation, however it races with others, neither repeats nor overwrites a
\* registration: a range an operator has disabled is enabled again only by the switch.
DisabledStaysDisabled ==
    [][\A c \in ranges \ enabled : c \in enabled' =>
        ranges' = ranges /\ batch' = batch /\ registering' = registering]_vars

\* No two authorised ranges overlap.
NoOverlap == \A c, d \in ranges : ~Overlap(c, d)
=============================================================================
