------------------------- MODULE RangeRegistryProofs -------------------------
(***************************************************************************)
(* For any networks, requests, imports and files: what the register's      *)
(* checks promise although nothing is locked.                              *)
(***************************************************************************)
EXTENDS RangeRegistry, TLAPS

\* TypeOK is inductive, one step per action.
LEMMA TypeStep == TypeOK /\ [Next]_vars => TypeOK'
<1> SUFFICES ASSUME TypeOK, [Next]_vars PROVE TypeOK'
    OBVIOUS
<1> USE DEF TypeOK
<1>1. ASSUME NEW r \in Requests, NEW c \in Cidrs, CheckRange(r, c) PROVE TypeOK'
  <2>1. [cidr |-> c, known |-> ranges] \in Registrations
    BY DEF Registrations
  <2> QED
    BY <1>1, <2>1 DEF CheckRange
<1>2. ASSUME NEW r \in Requests, InsertRange(r) \/ InsertRefused(r) PROVE TypeOK'
  <2>1. NoRegistration \in Registrations
    BY DEF NoRegistration, Registrations
  <2> QED
    BY <1>2, <2>1 DEF InsertRange, InsertRefused
<1>3. ASSUME NEW c \in Cidrs, SwitchRange(c) PROVE TypeOK'
    BY <1>3 DEF SwitchRange
<1>4. ASSUME NEW b \in Batches, PreviewImport(b) PROVE TypeOK'
  <2>1. PICK file \in Files : batch' = [batch EXCEPT ![b] =
            [status |-> "previewed", known |-> ranges,
             valid |-> {file[i] : i \in {j \in DOMAIN file : ValidAt(file, j)}}]]
    BY <1>4 DEF PreviewImport
  <2>2. \A i \in DOMAIN file : file[i] \in Cidrs
    BY DEF Files
  <2>3. [status |-> "previewed", known |-> ranges,
         valid |-> {file[i] : i \in {j \in DOMAIN file : ValidAt(file, j)}}] \in ImportBatches
    BY <2>2 DEF ImportBatches
  <2> QED
    BY <1>4, <2>1, <2>3 DEF PreviewImport
<1>5. ASSUME NEW b \in Batches, Expire(b) PROVE TypeOK'
  <2>1. [batch[b] EXCEPT !.status = "expired"] \in ImportBatches
    BY DEF ImportBatches
  <2> QED
    BY <1>5, <2>1 DEF Expire
<1>6. ASSUME NEW r \in Requests, NEW b \in Batches, ReadBatch(r, b) PROVE TypeOK'
    BY <1>6 DEF ReadBatch
<1>7. ASSUME NEW r \in Requests, CommitImport(r) PROVE TypeOK'
  <2>1. /\ [batch[confirming[r]] EXCEPT !.status = "confirmed"] \in ImportBatches
        /\ batch[confirming[r]].valid \subseteq Cidrs
    BY <1>7 DEF CommitImport, ImportBatches
  <2> QED
    BY <1>7, <2>1 DEF CommitImport
<1>8. ASSUME NEW r \in Requests, ImportRefused(r) PROVE TypeOK'
    BY <1>8 DEF ImportRefused
<1>9. ASSUME UNCHANGED vars PROVE TypeOK'
    BY <1>9 DEF vars
<1> QED
    BY <1>1, <1>2, <1>3, <1>4, <1>5, <1>6, <1>7, <1>8, <1>9 DEF Next

\* Spec keeps the types of every variable.
THEOREM TypeCorrect == Spec => []TypeOK
<1>1. Init => TypeOK
    BY DEF Init, TypeOK, NoRegistration, Registrations, AbsentBatch, ImportBatches
<1> QED
    BY <1>1, TypeStep, PTL DEF Spec

\* The valid items of a file overlap neither the table nor each other.
LEMMA PreviewIsDisjoint ==
    ASSUME TypeOK, NEW file \in Files
    PROVE  LET valid == {file[i] : i \in {j \in DOMAIN file : ValidAt(file, j)}} IN
           \A c \in valid : ~OverlapsAny(c, ranges) /\ \A d \in valid : ~Overlap(c, d)
<1> DEFINE Valid == {j \in DOMAIN file : ValidAt(file, j)}
<1>1. ASSUME NEW i \in Valid PROVE ~OverlapsAny(file[i], ranges)
    BY <1>1 DEF ValidAt, OverlapsAny
<1>2. PICK n \in 1..MaxLines : file \in [1..n -> Cidrs]
    BY DEF Files
<1>3. Valid \subseteq Nat /\ \A i \in Valid : file[i] \in Cidrs /\ i >= 1
    BY <1>2, LinesAssumption
<1>4. ASSUME NEW i \in Valid, NEW j \in Valid, i < j
      PROVE  <<file[j], file[i]>> \notin Overlapping
  <2>1. i \in 1..(j - 1)
    BY <1>3, <1>4
  <2> QED
    BY <1>4, <2>1 DEF ValidAt, OverlapsAny
<1>5. ASSUME NEW i \in Valid, NEW j \in Valid PROVE ~Overlap(file[i], file[j])
  <2>1. CASE i = j
    BY <2>1 DEF Overlap
  <2>2. CASE i < j
    BY <1>3, <1>4, <2>2, OverlappingAssumption DEF Overlap
  <2>3. CASE j < i
    BY <1>4, <2>3 DEF Overlap
  <2> QED
    BY <1>3, <2>1, <2>2, <2>3
<1> QED
    BY <1>1, <1>5

\* CheckedInvariant is inductive, one step per action that writes what it speaks of.
LEMMA CheckedStep == TypeOK /\ CheckedInvariant /\ [Next]_vars => CheckedInvariant'
<1> SUFFICES ASSUME TypeOK, CheckedInvariant, [Next]_vars PROVE CheckedInvariant'
    OBVIOUS
<1> USE DEF TypeOK, CheckedInvariant
<1>1. ASSUME NEW r \in Requests, NEW c \in Cidrs, CheckRange(r, c) PROVE CheckedInvariant'
    BY <1>1 DEF CheckRange, Admits, OverlapsAny, Overlap
<1>2. ASSUME NEW r \in Requests, InsertRange(r) \/ InsertRefused(r) PROVE CheckedInvariant'
  <2>1. batch' = batch /\ registering' = [registering EXCEPT ![r] = NoRegistration]
    BY <1>2 DEF InsertRange, InsertRefused
  <2>2. registering'[r].cidr = NoCidr
    BY <2>1 DEF NoRegistration
  <2>3. \A a \in Requests : a # r => registering'[a] = registering[a]
    BY <2>1
  <2>4. \A a \in Requests : registering'[a].cidr # NoCidr =>
            ~OverlapsAny(registering'[a].cidr, registering'[a].known)
    BY <2>2, <2>3 DEF OverlapsAny
  <2> QED
    BY <2>1, <2>4 DEF OverlapsAny, Overlap
<1>3. ASSUME NEW b \in Batches, PreviewImport(b) PROVE CheckedInvariant'
  <2>1. PICK file \in Files : batch' = [batch EXCEPT ![b] =
            [status |-> "previewed", known |-> ranges,
             valid |-> {file[i] : i \in {j \in DOMAIN file : ValidAt(file, j)}}]]
    BY <1>3 DEF PreviewImport
  <2>2. \A c \in batch'[b].valid :
            /\ ~OverlapsAny(c, batch'[b].known)
            /\ \A d \in batch'[b].valid : ~Overlap(c, d)
    BY <2>1, PreviewIsDisjoint
  <2>3. \A a \in Batches : a # b => batch'[a] = batch[a]
    BY <2>1
  <2> QED
    BY <1>3, <2>2, <2>3 DEF PreviewImport, OverlapsAny, Overlap
<1>4. ASSUME \A b \in Batches :
                batch'[b].valid = batch[b].valid /\ batch'[b].known = batch[b].known,
             registering' = registering
      PROVE  CheckedInvariant'
    BY <1>4 DEF OverlapsAny, Overlap
<1>5. ASSUME NEW b \in Batches, Expire(b) PROVE CheckedInvariant'
    BY <1>4, <1>5 DEF Expire, ImportBatches
<1>6. ASSUME NEW r \in Requests, CommitImport(r) PROVE CheckedInvariant'
    BY <1>4, <1>6 DEF CommitImport, ImportBatches
<1>7. ASSUME batch' = batch, registering' = registering PROVE CheckedInvariant'
    BY <1>4, <1>7
<1> QED
    BY <1>1, <1>2, <1>3, <1>5, <1>6, <1>7
    DEF Next, vars, SwitchRange, ReadBatch, ImportRefused

\* OverlapsOnlyUnseen, for any networks and any number of requests and imports: two
\* registered networks overlap only where neither check could see the other.
THEOREM ChecksHold == Spec => OverlapsOnlyUnseen
<1> DEFINE Unseen == \A c \in ranges' \ ranges, d \in ranges' : Overlap(c, d) =>
        /\ d \in ranges
        /\ \/ \E r \in Requests : registering[r].cidr = c /\ d \notin registering[r].known
           \/ \E r \in Requests : \E b \in Batches :
                confirming[r] = b /\ c \in batch[b].valid /\ d \notin batch[b].known
<1>1. TypeOK /\ CheckedInvariant /\ [Next]_vars => [Unseen]_vars
  <2> SUFFICES ASSUME TypeOK, CheckedInvariant, [Next]_vars PROVE [Unseen]_vars
    OBVIOUS
  <2>1. ASSUME NEW r \in Requests, InsertRange(r) PROVE Unseen
    <3> SUFFICES ASSUME NEW c \in ranges' \ ranges, NEW d \in ranges', Overlap(c, d)
                 PROVE  d \in ranges /\ registering[r].cidr = c /\ d \notin registering[r].known
        OBVIOUS
    <3>1. registering[r].cidr = c /\ c # NoCidr /\ d \in ranges
        BY <2>1, SentinelsAssumption DEF InsertRange, Overlap
    <3> QED
        BY <3>1 DEF CheckedInvariant, OverlapsAny, Overlap
  <2>2. ASSUME NEW r \in Requests, CommitImport(r) PROVE Unseen
    <3> SUFFICES ASSUME NEW c \in ranges' \ ranges, NEW d \in ranges', Overlap(c, d)
                 PROVE  /\ d \in ranges /\ confirming[r] \in Batches
                        /\ c \in batch[confirming[r]].valid
                        /\ d \notin batch[confirming[r]].known
        OBVIOUS
    <3>1. confirming[r] \in Batches /\ c \in batch[confirming[r]].valid
        BY <2>2 DEF CommitImport
    <3>2. d \in ranges
        BY <2>2, <3>1 DEF CommitImport, CheckedInvariant
    <3> QED
        BY <3>1, <3>2 DEF CheckedInvariant, OverlapsAny, Overlap
  <2>3. ASSUME ranges' = ranges PROVE Unseen
    BY <2>3
  <2> QED
    BY <2>1, <2>2, <2>3 DEF Next, vars, CheckRange, InsertRefused, SwitchRange,
       PreviewImport, Expire, ReadBatch, ImportRefused
<1>2. Init => CheckedInvariant
    BY DEF Init, CheckedInvariant, NoRegistration, AbsentBatch
<1>3. [][Unseen]_vars => OverlapsOnlyUnseen
    BY DEF OverlapsOnlyUnseen
<1> QED
    BY <1>1, <1>2, <1>3, TypeCorrect, CheckedStep, PTL DEF Spec

\* DisabledStaysDisabled: what an insertion or an import enables was not in the register,
\* for any networks and any number of requests and imports.
THEOREM DisabledIsKept == Spec => DisabledStaysDisabled
<1> DEFINE Kept == \A c \in ranges \ enabled : c \in enabled' =>
        ranges' = ranges /\ batch' = batch /\ registering' = registering
<1>1. TypeOK /\ [Next]_vars => [Kept]_vars
  <2> SUFFICES ASSUME TypeOK, [Next]_vars PROVE [Kept]_vars
    OBVIOUS
  <2>1. ASSUME NEW r \in Requests, InsertRange(r) PROVE Kept
    BY <2>1 DEF InsertRange
  <2>2. ASSUME NEW r \in Requests, CommitImport(r) PROVE Kept
    <3>1. batch[confirming[r]].valid \intersect ranges = {}
        BY <2>2 DEF CommitImport, AllNew
    <3>2. enabled' = enabled \union batch[confirming[r]].valid
        BY <2>2 DEF CommitImport
    <3> QED
        BY <3>1, <3>2
  <2>3. ASSUME NEW c \in Cidrs, SwitchRange(c) PROVE Kept
    BY <2>3 DEF SwitchRange
  <2>4. ASSUME enabled' = enabled PROVE Kept
    BY <2>4
  <2> QED
    BY <2>1, <2>2, <2>3, <2>4 DEF Next, vars, CheckRange, InsertRefused, PreviewImport,
       Expire, ReadBatch, ImportRefused
<1>2. [][Kept]_vars => DisabledStaysDisabled
    BY DEF DisabledStaysDisabled
<1> QED
    BY <1>1, <1>2, TypeCorrect, PTL DEF Spec
=============================================================================
