---------------------------- MODULE BannerProbes ----------------------------
(***************************************************************************)
(* engines/banner.py BannerEngine.enrich: one probe per service, gathered, *)
(* at most max_parallelism of them holding the semaphore at a time, each   *)
(* under its own time limit.                                               *)
(***************************************************************************)
EXTENDS Integers, FiniteSets

CONSTANTS Tcp,            \* the services Nmap reported open over TCP
          Udp,            \* the others: their probe returns at once
          MaxParallelism, \* max_parallelism of the profile
          ProbeLimit      \* max(1, timeout_seconds) of the profile

VARIABLES probe,     \* where the probe of each service stands
          open,      \* ticks each open probe has held the semaphore
          cancel     \* a CancelledError is due at the task's next await

bannerVars == <<probe, open>>

Services == Tcp \union Udp
Probing == {s \in Services : probe[s] = "open"}
Waiting == {s \in Services : probe[s] = "waiting"}
PassOver == \A s \in Services : probe[s] = "over"

BannerTypeOK ==
    /\ probe \in [Services -> {"none", "waiting", "open", "over"}]
    /\ open \in [Services -> Nat]

BannerInit ==
    /\ probe = [s \in Services |-> "none"]
    /\ open = [s \in Services |-> 0]

----------------------------------------------------------------------------
\* gather() of all probes; the one of a service that is not TCP returns False.
StartPass ==
    /\ probe' = [s \in Services |-> IF s \in Tcp THEN "waiting" ELSE "over"]
    /\ open' = [s \in Services |-> 0]

HasPlace == Cardinality(Probing) < MaxParallelism

Acquire(s) ==
    /\ probe[s] = "waiting"
    /\ HasPlace
    /\ ~cancel
    /\ probe' = [probe EXCEPT ![s] = "open"]
    /\ UNCHANGED <<open, cancel>>

Over(s) ==
    /\ probe' = [probe EXCEPT ![s] = "over"]
    /\ open' = [open EXCEPT ![s] = 0]
    /\ UNCHANGED cancel

\* An answer (a certificate that does not verify is one too) or an error: the
\* service gets its banner and TLS details, or keeps what Nmap said of it.
ProbeEnds(s) == probe[s] = "open" /\ Over(s)

ProbeExpires(s) == probe[s] = "open" /\ open[s] = ProbeLimit /\ Over(s)

\* The cancellation of the gather cancels every probe that has not ended.
CancelPass ==
    /\ cancel
    /\ ~PassOver
    /\ probe' = [s \in Services |-> "over"]
    /\ open' = [s \in Services |-> 0]
    /\ cancel' = FALSE

----------------------------------------------------------------------------
\* No free place while somebody waits, no probe past its limit.
BannerQuiet ==
    /\ ~PassOver /\ ~cancel
    /\ Waiting = {} \/ Cardinality(Probing) >= MaxParallelism
    /\ \A s \in Probing : open[s] < ProbeLimit

BannerTick ==
    /\ open' = [s \in Services |-> IF s \in Probing THEN open[s] + 1 ELSE open[s]]
    /\ UNCHANGED probe
=============================================================================
