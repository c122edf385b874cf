---------------------------- MODULE AtomicChange ----------------------------
(***************************************************************************)
(* What an operator is promised of one transaction, without connections,   *)
(* traps or probes: the host's files are as they were (old), as requested  *)
(* (new; both when the request changes nothing), or in between; the run    *)
(* makes one report; a report of success or of failure is true when it is  *)
(* made and ever after; and a run that ends without one of these two (its  *)
(* revert unverified, or the process gone) leaves the host to settle.      *)
(***************************************************************************)
VARIABLES old, new, report

vars == <<old, new, report>>

Reports == {"committed", "unchanged", "left"}

TypeOK == old \in BOOLEAN /\ new \in BOOLEAN /\ report \in Reports \cup {"none"}

Init == old = TRUE /\ new \in BOOLEAN /\ report = "none"

\* The files change only while the run is under way, or after it has left them.
Change ==
    /\ report \in {"none", "left"}
    /\ old' \in BOOLEAN
    /\ new' \in BOOLEAN
    /\ UNCHANGED report

Report(r) ==
    /\ report = "none"
    /\ r = "committed" => new
    /\ r = "unchanged" => old
    /\ report' = r
    /\ UNCHANGED <<old, new>>

Next == Change \/ \E r \in Reports : Report(r)

\* In the end there is a report, and the files are all as they were or all as
\* requested.
Settles == <>[](report # "none" /\ (old \/ new))

Spec == Init /\ [][Next]_vars /\ Settles
=============================================================================
