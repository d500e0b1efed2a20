---------------------------------- MODULE MCRisk ----------------------------------
(* Model checking instance of Risk: two hosts share a match queue of one place; the *)
(* other workloads are about one host.                                             *)
EXTENDS Risk, TLC

CONSTANTS h1, h2, a1, cve1

\* exp for the sums that one advisory can give, by decades.
MCSaturate ==
  [raw \in 0..1200 |->
    CASE raw = 0 -> 0 [] raw \in 1..9 -> 10 [] raw \in 10..49 -> 57 [] raw \in 50..99 -> 139
      [] raw \in 100..299 -> 329 [] raw \in 300..599 -> 593 [] raw \in 600..1199 -> 835 [] OTHER -> 960]

MCSeed ==
    [id |-> a1, aliases |-> {cve1}, text |-> "critical", cvss |-> 0, whole |-> TRUE,
     affected |-> <<[eco |-> "Ubuntu", intro |-> None, fix |-> 2],
                    [eco |-> "Debian", intro |-> 1, fix |-> None]>>]
MCOsvRecord ==
    {MCSeed,
     [id |-> a1, aliases |-> {}, text |-> "", cvss |-> 75, whole |-> TRUE,
      affected |-> <<[eco |-> "Ubuntu", intro |-> 1, fix |-> None]>>],
     [id |-> a1, aliases |-> {}, text |-> "", cvss |-> 0, whole |-> FALSE, affected |-> <<>>]}
MCManager == [h \in {h1, h2} |-> "dpkg"]
MCOsVersion == (h1 :> "22.04") @@ (h2 :> "12")
MCMisconfigs == {{}, {"sshd_permitrootlogin"}}
MCConditions == {"no_owner_account"}
MCOverrides == {[weights |-> "hygiene" :> 100, enabled |-> "identity" :> FALSE]}

================================================================================
