----------------------------- MODULE MCSelectel -----------------------------
(***************************************************************************)
(* A behaviour is one of the accounts or one of the cards of an account.   *)
(* Accounts: a schedule; two accounts; a run given up and its baseline; a  *)
(* run retired with its account; a connection form across a deletion;      *)
(* detach.  Cards: two dedicated servers and a cloud VM against an empty   *)
(* NetBox; a card with the same hardware; a pfSense guest on a host;       *)
(* renamed resources; a server detached and linked again.                  *)
(***************************************************************************)
EXTENDS Accounts, ProviderCards

All == {"started", "unknown", "failed"}
Scene(accounts, commands, starts, operations, n) ==
  [accounts |-> accounts, commands |-> commands, starts |-> starts, operations |-> operations,
   runs |-> n[1], nonces |-> n[2], tries |-> n[3], edits |-> n[4]]
MCScenes ==
  [schedule |-> Scene({"a1"}, {"save", "schedule", "hour"}, All, {}, <<2, 0, 0, 0>>),
   two |-> Scene({"a1", "a2"}, {"save"}, {"started"}, {}, <<2, 0, 0, 0>>),
   baseline |-> Scene({"a1"}, {"save"}, {"unknown"}, {"baseline"}, <<2, 1, 2, 1>>),
   retire |-> Scene({"a1"}, {"save"}, {"unknown"}, {"delete", "activate"}, <<2, 2, 2, 0>>),
   connect |-> Scene({"a1"}, {"connect"}, {"started", "failed"}, {"delete", "activate"}, <<2, 2, 3, 0>>),
   none |-> Scene({}, {}, {}, {}, <<0, 0, 0, 0>>),
   detach |-> Scene({"a1"}, {"connect"}, {"started"}, {"detach", "delete"}, <<1, 2, 2, 1>>)]

MCKind == [d1 |-> "device", d2 |-> "device", v1 |-> "vm"]
Rec(name, S, ips) == [name |-> name, hw |-> observation(S), ips |-> ips, placed |-> TRUE, ready |-> TRUE, seen |-> TRUE, aged |-> FALSE]
Card(kind, name) == [kind |-> kind, name |-> <<name>>, serial |-> Nil, hw |-> observation({}), refs |-> Nil, sync |-> FALSE,
                     host |-> 0, wans |-> {}, primary |-> Nil]
S1 == <<"serial", "s1">>
S2 == <<"serial", "s2">>
T1 == <<"tag", "t1">>
Cards(cards, docs, tools) ==
  [cards |-> cards, addrs |-> <<>>, docs |-> docs, tools |-> tools, imports |-> 3, decisions |-> 2, edits |-> 2,
   names |-> {}, addresses |-> {}, hardware |-> {}, arrivals |-> {}, drops |-> FALSE, days |-> FALSE]
MCCases ==
  [none |-> [Cards(<<>>, {}, {}) EXCEPT !.edits = 0],
   empty |-> [Cards(<<>>, {[d1 |-> Rec("web", {S1}, {"g1"}), d2 |-> Rec("web", {}, {"g1", "p1"}), v1 |-> Rec("vm", {}, {"g2"})],
                           [d2 |-> Rec("db", {S1, T1}, {"g1"}), v1 |-> [Rec("vm", {}, {}) EXCEPT !.ready = FALSE]]},
                    {"link", "detach", "unlink", "delete"})
              EXCEPT !.addresses = {"g1", "g3"}, !.names = {"vm"}],
   relink |-> [Cards(<<>>, {[d1 |-> Rec("web", {S1}, {"g1"})]}, {"link", "detach", "unlink", "delete"})
               EXCEPT !.decisions = 4, !.addresses = {"g1"}, !.names = {"vm"}, !.edits = 1],
   own |-> [Cards(<<[Card("device", "old") EXCEPT !.serial = "s1"], Card("device", "db")>>,
                  {[d1 |-> Rec("db", {S1}, {"g1"}), d2 |-> Rec("old", {S2}, {"g2"})],
                   [d1 |-> Rec("web", {S1}, {"g1"}), d2 |-> [Rec("db", {S2}, {}) EXCEPT !.seen = FALSE]],
                   [d1 |-> Rec("web", {S1}, {}), d2 |-> Rec("new", {S1}, {})]},
                  {"link", "first", "unlink", "delete"})
            EXCEPT !.hardware = {observation({S1, T1}), observation({S1, S2})}, !.drops = TRUE, !.days = TRUE, !.edits = 1],
   guest |-> [Cards(<<Card("device", "host"), [Card("vm", "gate") EXCEPT !.host = 1, !.wans = {"g1"}]>>,
                    {[d1 |-> Rec("web", {}, {"g1"})], [d1 |-> Rec("web", {T1}, {"g1"}), d2 |-> Rec("two", {T1}, {"g2"})]},
                    {"link", "detach", "delete"})
              EXCEPT !.arrivals = {Card("device", "web"), [Card("vm", "web") EXCEPT !.host = 3]}, !.addresses = {"g1"}]]

MCInit == Init /\ CardsInit /\ (scene = "none") # (case = "none")
MCNext == \/ scene # "none" /\ Next /\ UNCHANGED cvars
          \/ case # "none" /\ CardsNext /\ UNCHANGED vars
MCSpec == MCInit /\ [][MCNext]_<<vars, cvars>> /\ Fairness
=============================================================================
