--------------------------- MODULE MCRegistration ---------------------------
(* Two esxi sources that want one host beside a legacy source, one of them
   retried with a changed intent; without the guard, two proxmox sources; the
   direct path, where an esxi and a proxmox source want one cluster name; one
   esxi source alone; and the queue of two jobs a restarted process finds.  *)
EXTENDS Registration

CONSTANTS s1, s2, s3, p1, p2, p3, old, h1, v1, v2, t1

Attempt(s, o, u, n, c) == [source |-> s, op |-> o, actor |-> u, host |-> h1, name |-> n, create |-> c]
Ann == Attempt(s1, 1, "ann", "c1", TRUE)
AnnChanged == Attempt(s1, 1, "ann", "c1", FALSE)
Bob == Attempt(s2, 2, "bob", "c1", FALSE)
Pve == Attempt(p1, 3, "ann", "c1", TRUE)
Gone == Attempt(p2, 4, "ann", "c1", TRUE)
Bis == Attempt(p3, 5, "bob", "c2", TRUE)
Solo == Attempt(s3, 6, "bob", "c2", TRUE)
MCAttempts == {Ann, AnnChanged, Bob, Pve, Gone, Bis, Solo}

Mode(d, g, as, l) == [durable |-> d, guarded |-> g, attempts |-> as, staged |-> {}, legacy |-> l]
Queue == [Mode(TRUE, TRUE, {}, {}) EXCEPT !.staged = {Pve, Bis}]
MCModes == {Mode(TRUE, TRUE, {Ann, AnnChanged, Bob}, {old}), Mode(TRUE, FALSE, {Pve, Gone}, {}),
            Mode(FALSE, FALSE, {Ann, Pve}, {}), Mode(TRUE, TRUE, {Solo}, {}), Queue}

\* Where requests compete only safety is asked. Fairness of the continuation alone, in the
\* two deployments whose jobs are followed, is less than Fairness.
Alone == Cardinality(mode.attempts) <= 1
MCSpec == /\ Init /\ [][Next]_vars
          /\ WF_vars(Alone /\ (Continue \/ Step(Cont))) /\ WF_vars(Alone /\ Child)
=============================================================================
