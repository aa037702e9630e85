--------------------------- MODULE MCInstallation ---------------------------
(***************************************************************************)
(* A behaviour is one of the deployment tools on a host, with a backup     *)
(* tool whose constants agree with a small schema, or one of the first-run *)
(* setup: credentials replaced and validated again beside other work; a    *)
(* preparation of two missing fields; two of one field; one that meets a   *)
(* validation; one of a field being deleted; one whose NetBox the          *)
(* administrator would exchange for another.  Or one of access: the local  *)
(* administrator's sessions and recovery, the directory's settings, its    *)
(* users, their confirmations, source teams and the destination policy.    *)
(***************************************************************************)
EXTENDS Deployment, Bootstrap, Auth, Migrations

MCTables == <<"schema_meta", "sources", "sync_runs">>
MCReferences == {<<"sync_runs", "sources">>}

MCFields == <<"source", "events">>
Conf(u, r, a) == [url |-> u, read |-> r, apply |-> a]
Good == Conf("n1", "reader", "writer")
Bad == {Conf("n1", "writer", "unknown"), Conf("n1", "unknown", "writer"), Conf("n1", "reader", "unknown")}
Fields(a, b) == [f \in Names |-> IF f = "source" THEN a ELSE b]
Whole == {Row(TRUE, "active")}
Both(n) == [u \in Urls |-> n]
Setup(configs, begin, revisions, attempts, runs, edits) ==
  [configs |-> configs, begin |-> begin, revisions |-> revisions, attempts |-> attempts, runs |-> runs, edits |-> edits]
MCStages ==
  [credentials |-> Setup({Good} \cup Bad, Both(Fields(Whole, Whole)), 3, 3, 0, 0),
   none |-> Setup({}, Both(Fields(Whole, Whole)), 0, 0, 0, 0),
   prepare |-> Setup({Good}, Both(Fields({}, {})), 1, 0, 1, 0),
   again |-> Setup({Good}, Both(Fields(Whole, {})), 1, 0, 2, 1),
   validate |-> Setup({Good}, Both(Fields(Whole, {})), 1, 1, 1, 0),
   deleting |-> Setup({Good}, Both(Fields(Whole, {Row(TRUE, "deleting")})), 1, 1, 1, 0),
   exchange |-> Setup({Good, Conf("n2", "reader", "writer")}, [n1 |-> Fields(Whole, {}), n2 |-> Fields(Whole, Whole)], 2, 0, 1, 0)]

MCRealms == {<<"dc1", "corp">>, <<"dc2", "corp">>}
Cfg(host, on) == [host |-> host, trust |-> "ca", base |-> "corp", on |-> on]
MCBaseline == [cidrs |-> {}, denied |-> {}, hosts |-> {}]

Local(t) == [by |-> "local", who |-> "local", issued |-> 0, seen |-> 0, checked |-> 0, confirmed |-> 0, typed |-> 0]
Enrolled(n) == [initial_state EXCEPT !.principal = "on", !.sessions = [t \in 1..n |-> Local(t)]]
Secret1 == [pw |-> "p1", home |-> <<"dc1", "ca">>]
Ldap1 == [config |-> Cfg("dc1", TRUE), secret |-> Secret1, revision |-> 1, dirid |-> 1]
Tested1 == [config |-> Cfg("dc1", TRUE), secret |-> Secret1, actor |-> <<"local", "local">>, at |-> 0]
Bare(s, c) == [st |-> s, cookies |-> c, grants |-> {}, tests |-> {}, saved |-> Void]

WithLdap(role, n, cookies) ==
  [Bare([Enrolled(n) EXCEPT !.ldap = Ldap1, !.users = ("i1" :> [role |-> role, active |-> TRUE])], cookies)
   EXCEPT !.grants = {<<<<1, <<"dc1", "corp">>>>, "i1", role>>}, !.tests = {Tested1},
          !.saved = [actor |-> <<"local", "local">>, at |-> 0]]
MCStarts ==
  [none |-> Bare(initial_state, [b1 |-> 0, b2 |-> 0]),
   local |-> Bare(initial_state, [b1 |-> 0, b2 |-> 0]),
   settings |-> WithLdap("operator", 2, [b1 |-> 1, b2 |-> 2]),
   directory |-> WithLdap("admin", 1, [b1 |-> 1, b2 |-> 0]),
   again |-> WithLdap("admin", 1, [b1 |-> 1, b2 |-> 0]),
   teams |-> Bare(Enrolled(2), [b1 |-> 1, b2 |-> 2]),
   policy |-> Bare([Enrolled(2) EXCEPT !.mode = "managed", !.ceiling = "public-ipv4", !.revision = 1], [b1 |-> 1, b2 |-> 2])]

Dir(do, c, typed) == [do |-> do, config |-> c, typed |-> typed]
Team(do, team, name) == [do |-> "teams." \o do, team |-> team, name |-> name]
MCAsks ==
  [none |-> {},
   local |-> {[do |-> "root", root |-> r, ceiling |-> "none"] : r \in {"invite", "recover", "revoke"}}
             \cup {[do |-> "enroll", by |-> "b1", invitation |-> n] : n \in 1..2}
             \cup {[do |-> "login", by |-> "b2", who |-> "local"]}
             \cup {[do |-> d] : d \in {"me", "logout", "reauthenticate"}},
   settings |-> {Dir("ldap.test", Cfg("dc1", TRUE), ""), Dir("ldap.test", Cfg("dc2", TRUE), "p2"),
                 Dir("ldap.save", Cfg("dc1", TRUE), "p2"), Dir("ldap.save", Cfg("dc2", TRUE), "p2"),
                 Dir("ldap.save", Cfg("dc2", TRUE), ""), Dir("ldap.save", Cfg("dc2", FALSE), ""), [do |-> "ldap.revoke"]},
   directory |-> {[do |-> "login", by |-> "b2", who |-> "i1"], [do |-> "me"], [do |-> "users.sync"],
                  [do |-> "root", root |-> "revoke", ceiling |-> "none"], [do |-> "users.role", ident |-> "i1", role |-> "operator"]},
   again |-> {[do |-> "login", by |-> "b2", who |-> "i1"], [do |-> "reauthenticate"], [do |-> "ldap.revoke"]},
   teams |-> {Team("create", Void, "net"), Team("rename", 1, "dc"), Team("assign", 1, ""), [do |-> "destination", host |-> "h"]},
   policy |-> {[do |-> "policy.update", key |-> "k1", op |-> "allow", host |-> "h"],
               [do |-> "policy.update", key |-> "k2", op |-> "revoke", host |-> "h"],
               [do |-> "probe", host |-> "h"], [do |-> "root", root |-> "managed", ceiling |-> "existing"]}
              \cup {[do |-> d, receipt |-> 1, host |-> "h"] : d \in {"check", "cancel", "consume"}}]
MCTime == [none |-> 0, local |-> 2, settings |-> 1, directory |-> 1, again |-> 1, teams |-> 0, policy |-> 1]
MCTokens == [none |-> 0, local |-> 2, settings |-> 2, directory |-> 2, again |-> 2, teams |-> 2, policy |-> 1]
MCRevision == [none |-> 0, local |-> 1, settings |-> 3, directory |-> 2, again |-> 1, teams |-> 3, policy |-> 3]
MCMoves == [none |-> 0, local |-> 0, settings |-> 0, directory |-> 2, again |-> 0, teams |-> 0, policy |-> 0]

MCInit == /\ Init /\ SetupInit /\ AuthInit
          /\ Cardinality({m \in 1..3 : <<scene, stage, part>>[m] # "none"}) = 1
MCNext == \/ scene # "none" /\ Next /\ UNCHANGED <<svars, avars>>
          \/ stage # "none" /\ SetupNext /\ UNCHANGED <<vars, avars>>
          \/ part # "none" /\ AuthNext /\ UNCHANGED <<vars, svars>>
MCSpec == MCInit /\ [][MCNext]_<<vars, svars, avars>>
=============================================================================
