--------------------------- MODULE MCIngressSync ---------------------------
(***************************************************************************)
(* Small instances of IngressSync: i is an ordinary Ingress, m a master, n *)
(* and o minions of its host.                                              *)
(***************************************************************************)
EXTENDS IngressSync, TLC

CONSTANTS i, m, n, o

SpecOf(class, type, host, http, paths, tls) ==
    [class |-> class, type |-> type, single |-> TRUE, host |-> host,
     http |-> http, paths |-> paths, tls |-> tls]

Plain(class, p) == SpecOf(class, "", "h", TRUE, {p}, FALSE)
Rejected == SpecOf("nginx", "", "h", FALSE, {}, FALSE)
Master(host) == SpecOf("nginx", "master", host, FALSE, {}, FALSE)
Minion(ps) == SpecOf("nginx", "minion", "h", TRUE, ps, FALSE)
Pathless == SpecOf("nginx", "minion", "h", FALSE, {}, FALSE)
Secured(ps) == SpecOf("nginx", "minion", "h", TRUE, ps, TRUE)

\* An Ingress that changes its class and its type and may be refused, and a
\* minion that may have nothing to offer.
TypeSpecs ==
    [k \in {i, n} |->
        IF k = i THEN {Plain("", "q"), Plain("other", "p"), Rejected, Master("h"),
                       Minion({"p"})}
        ELSE {Minion({"p"}), Pathless}]

\* A master that may be refused and its minions; o may be dropped.
MergeSpecs ==
    [k \in {m, n, o} |->
        IF k = m THEN {Master("h"), Master("")}
        ELSE IF k = n THEN {Minion({"p", "q"})}
        ELSE {Minion({"p"}), Secured({"q"})}]
=============================================================================
