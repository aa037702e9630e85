--------------------------- MODULE ProviderCards ---------------------------
(***************************************************************************)
(* The NetBox cards of one Selectel account, as the Guard plugin keeps     *)
(* them: which Device or VM stands for which provider resource.  An import *)
(* projects the snapshot on the bound cards, binds or creates the missing  *)
(* ones, projects again and adds the allocated addresses, all in one       *)
(* transaction.  Operators link, create, detach, unlink and delete after a *)
(* review whose fingerprint covers the tables here, so a decision runs in  *)
(* exactly the tables it was reviewed on.  Everybody else edits NetBox     *)
(* freely, except where the write guard's trigger refuses.                 *)
(* Names are sequences (the name, then what makes it unique); an address   *)
(* has one row; a VM's own ports and disks, sites and tenants are left out.*)
(***************************************************************************)
EXTENDS Integers, FiniteSets, Sequences, SequencesExt

CONSTANTS Nil,
          Keys,     \* the provider resources, in the order of their keys
          Kind,     \* "device" (dedicated) or "vm" of each
          Uuid,     \* those whose native id is a canonical UUID
          Global,   \* the addresses that are global
          Cases    \* the cards there are, what is collected, and what others do

VARIABLES case, db, op, done
cvars == <<case, db, op, done>>

Case == Cases[case]
KeySeq == SetToSeq(Keys)
Known(d) == DOMAIN d.inv
Ids(d) == DOMAIN d.cards

CardsInit == /\ case \in DOMAIN Cases
             /\ db = [cards |-> Case.cards, addrs |-> Case.addrs, inv |-> <<>>, missing |-> {}, bindings |-> <<>>,
                      created |-> {}, receipts |-> {}, owned |-> <<>>, detached |-> {}, fence |-> FALSE, failed |-> FALSE,
                      born |-> {}, next |-> 1 + Cardinality(DOMAIN Case.cards)]
             /\ op = "none" /\ done = <<0, 0, 0>>

Without(f, S) == [x \in DOMAIN f \ S |-> f[x]]
With(f, x, v) == [y \in DOMAIN f \cup {x} |-> IF y = x THEN v ELSE f[y]]
BoundTo(d) == {d.bindings[k].card : k \in DOMAIN d.bindings}

\* ---- hardware_identity.py -------------------------------------------------
observation(values) ==
  [status |-> IF \E s, t \in values : s[1] = t[1] /\ s # t THEN "conflict" ELSE IF values = {} THEN "none" ELSE "collected",
   tokens |-> values]
tokens(hw) == IF hw.status = "collected" THEN hw.tokens ELSE {}
OfKind(left, kind) == {t \in left : t[1] = kind}
compare(left, right) ==
  IF left \cap right = {} THEN "none"
  ELSE IF \E t \in left : OfKind(right, t[1]) # {} /\ OfKind(left, t[1]) # OfKind(right, t[1]) THEN "conflict"
  ELSE "match"
host_tokens(card) == tokens(card.hw) \cup (IF card.serial = Nil THEN {} ELSE {<<"serial", card.serial>>})
Verdict(r, card) ==
  IF card.hw.status = "conflict" /\ compare(tokens(r.hw), host_tokens(card)) = "match" THEN "conflict"
  ELSE compare(tokens(r.hw), host_tokens(card))
SerialOf(r) == IF \E t \in tokens(r.hw) : t[1] = "serial" THEN (CHOOSE t \in tokens(r.hw) : t[1] = "serial")[2] ELSE Nil

\* ---- provider_reconcile.py: the evidence of each card, and the decision. ----
AddressTargets(d, a) ==
  {i \in Ids(d) : d.cards[i].primary = a} \cup (IF a \in DOMAIN d.addrs THEN {d.addrs[a].card} \ {0} ELSE {})
\* VMs whose fresh pfSense snapshot shows one of the addresses as a WAN, with a host that is a card.
observed_wans(d, ips) == {i \in Ids(d) : d.cards[i].host \in Ids(d) /\ d.cards[i].wans \cap ips # {}}
HostOf(d, i) == IF d.cards[i].kind = "device" THEN i ELSE d.cards[i].host

Evidence(d, k, r) ==
  LET same == {i \in Ids(d) : d.cards[i].kind = Kind[k]}
      hw(v) == IF Kind[k] = "device" THEN {i \in same : Verdict(r, d.cards[i]) = v} ELSE {}
      wan == IF Kind[k] = "device" THEN observed_wans(d, r.ips) ELSE {}
      public == UNION {AddressTargets(d, a) : a \in r.ips \cap Global}
      network == wan \cup {d.cards[i].host : i \in wan}
  IN [strong |-> hw("match") \cup {i \in same : d.cards[i].refs = k}, conflicts |-> hw("conflict"),
      near |-> public \cup network,
      possible |-> hw("conflict") \cup {i \in Ids(d) : d.cards[i].name[1] = r.name /\ Len(d.cards[i].name) = 1}
                     \cup public \cup network]

\* The only same-kind candidate, when the others are guests of it and it shares an address.
candidate(d, k, e) ==
  {i \in e.possible : /\ {j \in e.possible : d.cards[j].kind = Kind[k]} = {i}
                      /\ i \notin BoundTo(d) /\ e.conflicts = {}
                      /\ \A j \in e.possible \ {i} : Kind[k] = "device" /\ HostOf(d, j) = i
                      /\ i \in e.near}
StableIdentity(d, e) == Cardinality(e.strong) = 1 /\ e.possible \subseteq e.strong /\ e.strong \cap BoundTo(d) = {}
Plan(action, reason, i, e) == [action |-> action, reason |-> reason, id |-> i, strong |-> e.strong, none |-> e.strong \cup e.possible = {}]

Decide(d, k, r, e) ==
  IF StableIdentity(d, e) THEN Plan("bind", "stable", CHOOSE i \in e.strong : TRUE, e)
  ELSE IF e.strong = {} /\ candidate(d, k, e) # {} THEN Plan("bind", "network", CHOOSE i \in candidate(d, k, e) : TRUE, e)
  ELSE IF e.strong \cup e.possible # {} THEN Plan("blocked", "confirm", 0, e)
  ELSE IF Kind[k] = "device" /\ SerialOf(r) = Nil /\ k \notin Uuid THEN Plan("blocked", "hardware_missing", 0, e)
  ELSE IF ~r.placed THEN Plan("blocked", "placement_missing", 0, e)
  ELSE Plan("create", "no_candidate", 0, e)
Overridden(d, k, r, e, plan) ==
  CASE k \in d.missing \/ r.aged \/ ~r.seen -> [plan EXCEPT !.action = "blocked", !.reason = "fresh_required"]
    [] Kind[k] = "vm" /\ ~r.ready -> [plan EXCEPT !.action = "blocked", !.reason = "not_ready"]
    [] r.hw.status = "conflict" \/ e.conflicts # {} -> [plan EXCEPT !.action = "blocked", !.reason = "hardware_conflict"]
    [] OTHER -> plan
NoPlan == [strong |-> {}, possible |-> {}]
PlanOf(d, k, resume) ==
  LET r == d.inv[k]
      e == Evidence(d, k, r)
      plan == IF k \in DOMAIN d.bindings THEN Plan("unchanged", "bound", d.bindings[k].card, NoPlan)
              ELSE Overridden(d, k, r, e, Decide(d, k, r, e))
  IN IF k \in d.detached /\ k # resume THEN [plan EXCEPT !.action = "detached", !.reason = "detached"] ELSE plan
\* Two resources never adopt one card or one piece of hardware in one run.
Collides(d, plans, k) ==
  \E j \in Known(d) \ {k} : \/ plans[k].id # 0 /\ plans[j].id = plans[k].id
                            \/ Kind[j] = "device" /\ Kind[k] = "device" /\ tokens(d.inv[j].hw) \cap tokens(d.inv[k].hw) # {}
Collisions(d, plans) ==
  [k \in DOMAIN plans |-> IF plans[k].action \in {"bind", "create"} /\ Collides(d, plans, k)
                          THEN [plans[k] EXCEPT !.action = "blocked", !.reason = "multiple"] ELSE plans[k]]
prepare(d, resume) == Collisions(d, [k \in Known(d) |-> PlanOf(d, k, resume)])

\* ---- provider_service.py: a binding claims the card's Selectel fields. --------
Refused(d) == [d EXCEPT !.failed = TRUE]
Bindable(d, k, i) ==
  /\ i \in Ids(d) /\ d.cards[i].kind = Kind[k] /\ ~d.fence /\ k \notin d.detached
  /\ \A j \in DOMAIN d.bindings : (d.bindings[j].card = i) = (j = k)
proposed_claims == {"refs"}
apply_binding(d, k, i) ==
  IF ~Bindable(d, k, i) THEN Refused(d)
  ELSE [d EXCEPT !.bindings = With(d.bindings, k, [card |-> i, claims |-> proposed_claims]), !.cards[i].refs = k]

native_name(d, k) ==
  IF \E j \in Known(d) \ {k} : d.inv[j].name = d.inv[k].name THEN <<d.inv[k].name, k, "key">> ELSE <<d.inv[k].name>>
_create(d, k) ==
  [d EXCEPT !.cards = With(d.cards, d.next, [kind |-> Kind[k], name |-> native_name(d, k), refs |-> Nil, sync |-> FALSE,
                             serial |-> IF Kind[k] = "device" THEN SerialOf(d.inv[k]) ELSE Nil, host |-> 0, wans |-> {},
                             hw |-> observation({}), primary |-> Nil]),
            !.created = @ \cup {d.next}, !.born = @ \cup {d.next}, !.next = @ + 1]
ApplyPlan(d, k, plan) ==
  CASE plan.action = "bind" -> apply_binding(d, k, plan.id)
    [] plan.action = "create" -> apply_binding([_create(d, k) EXCEPT !.receipts = @ \cup {d.next}], k, d.next)
    [] OTHER -> d
ApplyPlans(d, plans) == FoldLeft(LAMBDA x, k : IF k \in DOMAIN plans THEN ApplyPlan(x, k, plans[k]) ELSE x, d, KeySeq)
\* provider_reconcile.apply, which refuses an account without any record.
reconcile(d) == IF Known(d) = {} THEN Refused(d) ELSE ApplyPlans(d, prepare(d, Nil))

\* ---- inventory_service.py: the snapshot, projected on the bound cards. ------
\* What was not reported this time keeps its last value, marked as retained.
merge_snapshot(d, k, r) == IF r.seen \/ k \notin Known(d) THEN r ELSE [d.inv[k] EXCEPT !.seen = FALSE, !.aged = FALSE]
Merged(d, doc) ==
  [d EXCEPT !.inv = [k \in Known(d) \cup DOMAIN doc |-> IF k \in DOMAIN doc THEN merge_snapshot(d, k, doc[k]) ELSE d.inv[k]],
            !.missing = Known(d) \ DOMAIN doc]
\* The name is made unique when another resource, or another card, has it.
ProjectedName(d, doc, k, i) ==
  IF \/ \E j \in DOMAIN doc \ {k} : doc[j].seen /\ doc[j].name = d.inv[k].name
     \/ \E c \in Ids(d) \ {i} : d.cards[c].kind = Kind[k] /\ d.cards[c].name = <<d.inv[k].name>>
  THEN <<d.inv[k].name, k, "identity">> ELSE <<d.inv[k].name>>
native_fields(r, k) == IF ~r.seen THEN {} ELSE {"name"} \cup (IF Kind[k] = "device" /\ SerialOf(r) # Nil THEN {"serial"} ELSE {})
_write_claims(d, doc, k) ==
  LET i == d.bindings[k].card
      fields == native_fields(d.inv[k], k)
      card == d.cards[i]
  IN [card EXCEPT !.name = IF "name" \in fields THEN ProjectedName(d, doc, k, i) ELSE card.name,
                  !.serial = IF "serial" \in fields THEN SerialOf(d.inv[k]) ELSE card.serial]
Projected(d, doc) ==
  LET theirs == {k \in DOMAIN d.bindings : k \in DOMAIN doc}
      key(i) == CHOOSE k \in theirs : d.bindings[k].card = i
  IN [d EXCEPT !.cards = [i \in Ids(d) |-> IF \E k \in theirs : d.bindings[k].card = i
                                           THEN _write_claims(d, doc, key(i)) ELSE d.cards[i]],
               !.bindings = [k \in DOMAIN d.bindings |-> IF k \in theirs
                               THEN [d.bindings[k] EXCEPT !.claims = @ \cup native_fields(d.inv[k], k)] ELSE d.bindings[k]]]
apply_inventory(d, doc) == Projected(Merged(d, doc), doc)

\* ---- provider_components.py: the addresses allocated to a dedicated server. ------
\* An address that has a row is left where it is; one that was ours and is gone stays gone.
ensure(d, k, i) ==
  LET news == IF Kind[k] = "device" THEN d.inv[k].ips \ (DOMAIN d.addrs \cup DOMAIN d.owned) ELSE {}
  IN [d EXCEPT !.addrs = [a \in DOMAIN d.addrs \cup news |-> IF a \in news THEN [card |-> i] ELSE d.addrs[a]],
               !.owned = [a \in DOMAIN d.owned \cup news |-> IF a \in news THEN [key |-> k, card |-> i] ELSE d.owned[a]]]
\* An empty primary takes one of the confirmed addresses, a global one first.
SetPrimary(d, k, i) ==
  LET on == {a \in d.inv[k].ips \cap DOMAIN d.addrs : d.addrs[a].card = i}
      best == IF on \cap Global # {} THEN on \cap Global ELSE on
  IN IF d.cards[i].primary # Nil \/ best = {} THEN d
     ELSE [d EXCEPT !.cards[i].primary = CHOOSE a \in best : TRUE, !.bindings[k].claims = @ \cup {"primary"}]
components(d, k) ==
  LET i == d.bindings[k].card IN
  IF d.inv[k].aged \/ ~d.inv[k].seen THEN d ELSE SetPrimary(ensure(d, k, i), k, i)
AllComponents(d, doc) ==
  FoldLeft(LAMBDA x, k : IF k \in DOMAIN x.bindings /\ k \in DOMAIN doc THEN components(x, k) ELSE x, d, KeySeq)

\* ---- account_import.py: one transaction, all or nothing. -------------------
import_account(d, doc) ==
  IF d.fence THEN Refused(d)
  ELSE LET first == reconcile(apply_inventory(d, doc))
       IN IF first.failed THEN Refused(d) ELSE AllComponents(apply_inventory(first, doc), doc)
Rolled(d, r) == IF r.failed THEN d ELSE r

\* ---- provider_lifecycle.py --------------------------------------------------
KeepRefs(d, k) == [d EXCEPT !.bindings = Without(@, {k})]
_release(d, k) ==
  LET b == d.bindings[k] IN
  [d EXCEPT !.bindings = Without(@, {k}), !.cards[b.card].refs = Nil,
            !.cards[b.card].primary = IF "primary" \in b.claims THEN Nil ELSE @]
ReleaseAll(d, S) == FoldLeft(LAMBDA x, k : IF k \in S THEN _release(x, k) ELSE x, d, KeySeq)
\* Faulty variant: the binding alone grants the deletion.
BoundCards(d) == {d.bindings[k].card : k \in DOMAIN d.bindings}
legacy_cards(d) == {d.bindings[k].card : k \in DOMAIN d.bindings} \cap d.receipts
PrimaryClaimed(d, S, i, a) == \E k \in S : d.bindings[k].card = i /\ "primary" \in d.bindings[k].claims /\ d.cards[i].primary = a
\* What hangs on the cards and addresses to be deleted, and is not itself among them.
Unblocked(d, S, cards, addrs) ==
  /\ \A a \in addrs : /\ d.addrs[a].card = d.owned[a].card
                      /\ \A i \in Ids(d) : d.cards[i].primary = a => PrimaryClaimed(d, S, i, a) \/ i \in cards
  /\ \A i \in cards : /\ ~d.cards[i].sync
                      /\ \A a \in DOMAIN d.addrs : d.addrs[a].card = i => a \in addrs
                      /\ \A j \in Ids(d) : d.cards[j].host = i => j \in cards
Removed(d, cards, addrs) ==
  [d EXCEPT !.cards = Without(@, cards), !.addrs = Without(@, addrs), !.owned = Without(@, addrs), !.created = @ \ cards]

detach(d, k) == [_release(d, k) EXCEPT !.detached = @ \cup {k}, !.created = @ \ {d.bindings[k].card}]
unlink(d, k) ==
  LET cards == {d.bindings[k].card} \cap d.created
      addrs == {a \in DOMAIN d.owned \cap DOMAIN d.addrs : d.owned[a].key = k}
  IN IF Unblocked(d, {k}, cards, addrs) THEN Removed(detach(d, k), cards, addrs) ELSE d
delete(d) ==
  LET cards == (d.created \cup legacy_cards(d)) \cap Ids(d)
      addrs == DOMAIN d.owned \cap DOMAIN d.addrs
      S == DOMAIN d.bindings
  IN IF ~Unblocked(d, S, cards, addrs) THEN d
     ELSE [Removed(ReleaseAll(d, S), cards, addrs) EXCEPT !.fence = TRUE, !.created = {}, !.owned = <<>>, !.detached = {},
                                                          !.inv = <<>>, !.missing = {}, !.receipts = {}]

\* ---- provider_manual_link.py and provider_first_creation.py -------------------
Linkable(d, k, i) ==
  /\ ~d.fence /\ k \in Known(d) /\ k \notin DOMAIN d.bindings /\ i \in Ids(d) /\ d.cards[i].kind = Kind[k]
  /\ LET plan == prepare(d, k)[k] IN
       /\ plan.reason \in {"confirm", "hardware_missing", "placement_missing", "no_candidate", "stable", "network"}
       /\ plan.strong \subseteq {i}
  /\ i \notin BoundTo(d) /\ d.cards[i].refs \in {Nil, k}
manual_link(d, k, i) == components(apply_binding([d EXCEPT !.detached = @ \ {k}], k, i), k)
Eligible(d, k) ==
  /\ ~d.fence /\ k \in Known(d) /\ Kind[k] = "device" /\ k \in Uuid /\ d.inv[k].placed
  /\ LET plan == prepare(d, Nil)[k] IN <<plan.action, plan.reason>> \in {<<"blocked", "hardware_missing">>, <<"create", "no_candidate">>} /\ plan.none
\* The new card keeps its name and its site as claims, and takes the allocated addresses.
first_creation(d, k) ==
  components([apply_binding(_create(d, k), k, d.next) EXCEPT !.bindings[k].claims = @ \cup {"name"}], k)

\* ---- Steps: one transaction each. -------------------------------------------
Step(name, n, d) == op' = name /\ done' = [done EXCEPT ![n] = @ + 1] /\ db' = d /\ UNCHANGED case
May(name) == name \in Case.tools /\ done[2] < Case.decisions
Import == \E doc \in Case.docs : done[1] < Case.imports /\ Step("import", 1, Rolled(db, import_account(db, doc)))
Link == May("link") /\ \E k \in Keys, i \in Ids(db) : Linkable(db, k, i) /\ Step("link", 2, Rolled(db, manual_link(db, k, i)))
FirstCreate == May("first") /\ \E k \in Keys : Eligible(db, k) /\ Step("first", 2, Rolled(db, first_creation(db, k)))
Detach == May("detach") /\ \E k \in DOMAIN db.bindings : Step("detach", 2, detach(db, k))
Unlink == May("unlink") /\ \E k \in DOMAIN db.bindings : Step("unlink", 2, unlink(db, k))
Delete == May("delete") /\ Step("delete", 2, delete(db))
Activate == May("delete") /\ db.fence /\ Step("activate", 2, [db EXCEPT !.fence = FALSE])

\* The trigger netbox_guard_provider_write: a claimed field keeps its value, a bound card stays.
Claimed(i, field) == \E k \in DOMAIN db.bindings : db.bindings[k].card = i /\ field \in db.bindings[k].claims
Deletable(i) == i \notin BoundTo(db)
Rename == \E i \in Ids(db), n \in Case.names : ~Claimed(i, "name") /\ Step("edit", 3, [db EXCEPT !.cards[i].name = <<n>>])
\* NetBox does not move an address that is somebody's primary.
Assign == \E i \in Ids(db), a \in Case.addresses :
            (\A j \in Ids(db) : db.cards[j].primary # a) /\ Step("edit", 3, [db EXCEPT !.addrs = With(@, a, [card |-> i])])
Discover == \E i \in Ids(db), hw \in Case.hardware : /\ db.cards[i].kind = "device"
                                                      /\ Step("edit", 3, [db EXCEPT !.cards[i].hw = hw, !.cards[i].sync = TRUE])
AddCard == \E c \in Case.arrivals : Step("edit", 3, [db EXCEPT !.cards = With(@, db.next, c), !.next = @ + 1])
DropCard == /\ Case.drops
            /\ \E i \in Ids(db) : /\ Deletable(i) /\ \A j \in Ids(db) : db.cards[j].host # i
                                  /\ Step("edit", 3, [db EXCEPT !.cards = Without(@, {i}),
                                                                !.addrs = Without(@, {a \in DOMAIN @ : db.addrs[a].card = i})])
Days == Case.days /\ Step("edit", 3, [db EXCEPT !.inv = [k \in Known(db) |-> [db.inv[k] EXCEPT !.aged = TRUE]]])
Others == done[3] < Case.edits /\ (Rename \/ Assign \/ Discover \/ AddCard \/ DropCard \/ Days)

CardsNext == Import \/ Link \/ FirstCreate \/ Detach \/ Unlink \/ Delete \/ Activate \/ Others

\* ---- Properties ------------------------------------------------------------
\* Collecting the same again and again settles: the import is never refused while the account is active and
\* knows a resource, what was bound stays bound to the same card, and the third import changes nothing.
ImportSettles ==
  \A doc \in Case.docs : (~db.fence /\ Known(db) \cup DOMAIN doc # {}) =>
    LET one == import_account(db, doc)
        two == import_account(one, doc)
        three == import_account(two, doc)
    IN /\ ~one.failed /\ ~two.failed /\ ~three.failed /\ three = two
       /\ \A k \in DOMAIN db.bindings : two.bindings[k].card = db.bindings[k].card

\* A card stands for at most one resource and a resource for one card: the card of a binding is there,
\* is of its kind and carries its reference, and no other card does.  A resource the operator detached
\* is bound again by nothing but a new link, and a deleted account has nothing left.
\* What is there can be collected again, and that settles.
CardsSound ==
  /\ ImportSettles
  /\ \A k \in DOMAIN db.bindings : LET i == db.bindings[k].card IN
       /\ i \in Ids(db) /\ db.cards[i].kind = Kind[k]
       /\ {c \in Ids(db) : db.cards[c].refs = k} = {i}
       /\ k \notin db.detached
  /\ \A i \in Ids(db) : db.cards[i].refs # Nil => i \in BoundTo(db)
  /\ db.fence => db.bindings = <<>> /\ db.created = {} /\ db.owned = <<>>

\* "Never cascades into unowned infrastructure": what Guard deletes it created, for this account, nobody
\* else manages it, and nothing of anybody else hangs on it; a card the operator detached goes only with
\* the account, if it is bound again and the receipt of an import says it was created; a card that stays
\* keeps every address Guard did not put on it.
Provable(i) == i \in db.created \/ (op' = "delete" /\ i \in db.receipts \cap BoundTo(db))
OnlyOwnDeleted ==
  [][op' # "edit" =>
       /\ \A i \in Ids(db) \ Ids(db') : /\ i \in db.born /\ Provable(i) /\ ~db.cards[i].sync
                                        /\ \A j \in Ids(db') : db'.cards[j].host # i
       /\ \A a \in DOMAIN db.addrs \ DOMAIN db'.addrs : a \in DOMAIN db.owned /\ db.addrs[a].card = db.owned[a].card
       /\ \A a \in DOMAIN db'.addrs : db'.addrs[a].card \in Ids(db') \cup {0}
       /\ \A i \in Ids(db') : db'.cards[i].primary \in DOMAIN db'.addrs \cup {Nil}]_cvars

\* "Reviewed association with an existing native object, without adopting ownership": a detached card
\* that the operator links by hand is not Guard's to delete.
LinkAdoptsNothing == [][op' # "edit" => Ids(db) \ Ids(db') \subseteq db.created]_cvars
=============================================================================
