------------------------------ MODULE MCAuditTask ------------------------------
(* Instance of AuditTask for TLC: a site, one of its hosts, and a host below it. *)
EXTENDS AuditTask

CONSTANTS site, host, subhost

MCDomains == {site, host}
MCAbove == [d \in MCDomains |-> IF d = host THEN {site} ELSE {}]
MCThree == {site, host, subhost}
MCAboveThree ==
    [d \in MCThree |-> IF d = subhost THEN {site, host} ELSE IF d = host THEN {site} ELSE {}]
=============================================================================
