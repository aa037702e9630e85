-------------------------------- MODULE Auth --------------------------------
(***************************************************************************)
(* Local and directory identities, their sessions, the destination policy  *)
(* and probe receipts.  Every auth call runs under the row lock of         *)
(* auth_state and its state is saved even when the call refuses, so a call *)
(* is one step; an HTTP request makes several of them (authorize in the    *)
(* middleware, then the handler's own), and anything may happen between.   *)
(* Times are ticks; the spans the code writes in seconds are constants.    *)
(***************************************************************************)
EXTENDS Integers, Sequences, FiniteSets, FiniteSetsExt, TLC

CONSTANTS Void, Browsers, Idents, Realms, Roles, Answers, Baseline,
          Asks, Starts,
          CHECK, GUESS, TEST, RECENT, IDLE, LIFE, RECEIPT, INVITE, SYNC,
          MaxGuess, MaxLdapGuess, MaxSessions, MaxLdapSessions, MaxReceipts, MaxChanges,
          MaxTime, MaxTokens, MaxRevision, MaxMoves

ASSUME SpansAssumption == /\ {CHECK, GUESS, TEST, RECENT, IDLE, LIFE, RECEIPT, INVITE, SYNC} \subseteq Nat \ {0}
                          /\ {MaxGuess, MaxLdapGuess, MaxSessions, MaxLdapSessions, MaxReceipts, MaxChanges} \subseteq Nat \ {0}

VARIABLES part,   \* which requests the browsers of this behaviour make
          st,      \* the auth_state document
          now,
          dir,     \* the LDAP servers: what each realm says of each identity
          req,     \* the HTTP request of each browser, and its cookie
          tokens,  \* session tokens, invitations and receipts handed out
          hist,    \* what happened, for the properties
          last     \* what the last step let happen, for the properties

avars == <<part, st, now, dir, req, tokens, hist, last>>

READ == {"source.read", "run.read", "diagnostics.read"}
OPERATE == READ \cup {"source.plan", "source.apply", "source.probe", "source.register", "source.schedule"}
ADMIN == OPERATE \cup {"catalog.create", "policy.read", "policy.write", "source.configure", "source.remove",
                       "bootstrap.manage", "identity.manage"}
permissions(role) == CASE role = "viewer" -> READ [] role = "operator" -> OPERATE [] role = "admin" -> ADMIN [] OTHER -> {}

\* The permission of a request's route, asked by the middleware before its handler runs.
RoutePermission(do) ==
  CASE do \in {"me", "logout", "reauthenticate"} -> "source.read"
    [] do \in {"ldap.test", "ldap.save", "ldap.revoke", "users.sync", "users.role"} -> "identity.manage"
    [] do \in {"teams.create", "teams.rename", "teams.assign"} -> "source.configure"
    [] do = "policy.update" -> "policy.write"
    [] do \in {"destination", "probe"} -> "source.probe"
    [] OTHER -> "source.register"

Without(f, S) == [k \in DOMAIN f \ S |-> f[k]]
Quiet == [is |-> "quiet"]

\* What a call leaves: the saved state, whether it was refused, what it let happen.
Refused(s) == [st |-> s, ok |-> FALSE, last |-> Quiet]
Done(s, l) == [st |-> s, ok |-> TRUE, last |-> l]

\* ---- The directory. --------------------------------------------------------
\* host, port, bind DN and CA; host, port, user base and identity attribute.
Endpoint(c) == <<c.host, c.trust>>
Realm(c) == <<c.host, c.base>>
Enabled(s) == s.ldap # Void /\ s.ldap.config.on
\* execute(), in a child bounded in time: a test binds and finds the bases and the group;
\* a sync lists every direct member or nothing; login and refresh answer only for one
\* enabled account that is a direct member.  An unreachable server and a refusal both raise.
Passes(c, up) == up /\ Realm(c) \in Realms
Lists(c) == {i \in Idents : dir[Realm(c)][i] # "out"}
Confirms(c, i, up) == up /\ dir[Realm(c)][i] = "member"

\* directory_user: an identity keeps the role it was given before.
directory_user(s, i, active) ==
  [role |-> IF i \in DOMAIN s.users THEN s.users[i].role ELSE "viewer", active |-> active]

ActorOf(s, v) == IF v.by = "local" THEN <<"local", "local">> ELSE <<s.ldap.dirid, v.who>>

\* ---- Sessions. -------------------------------------------------------------
Live(v) == v.issued + LIFE > now /\ v.seen + IDLE > now

MustAskAged(v, perm) == v.checked + CHECK <= now
MustAsk(v, perm) == v.checked + CHECK <= now \/ (perm # "" /\ perm \notin READ)

\* A write, or a cached answer that has aged, asks the directory again; a directory
\* that does not confirm ends the session.
ldap_session(s, t, perm, up) ==
  LET v == s.sessions[t]
      stale == MustAsk(v, perm)
      s1 == IF stale THEN [s EXCEPT !.users = (v.who :> directory_user(s, v.who, TRUE)) @@ s.users,
                                    !.sessions[t].checked = now] ELSE s
  IN IF ~Live(v) \/ ~Enabled(s) THEN Refused(s)
     ELSE IF stale /\ ~Confirms(s.ldap.config, v.who, up) THEN Refused([s EXCEPT !.sessions = Without(s.sessions, {t})])
     ELSE IF ~(v.who \in DOMAIN s1.users /\ s1.users[v.who].active) THEN Refused(s1)
     ELSE IF perm # "" /\ perm \notin permissions(s1.users[v.who].role) THEN Refused(s1)
     ELSE Done([s1 EXCEPT !.sessions[t].seen = now], Quiet)

session(s, t, perm, up) ==
  IF t \notin DOMAIN s.sessions THEN Refused(s)
  ELSE IF s.sessions[t].by = "ldap" THEN ldap_session(s, t, perm, up)
  ELSE IF s.principal = "on" /\ Live(s.sessions[t]) /\ (perm = "" \/ perm \in ADMIN)
       THEN Done([s EXCEPT !.sessions[t].seen = now], Quiet)
  ELSE Refused(s)

recent(s, t) == s.sessions[t].confirmed + RECENT > now

\* Every authenticated call checks the session, then again with the permission it needs.
Permitted(s, t, perm, up, Then(_)) ==
  LET a == session(s, t, "", up)
      b == session(a.st, t, perm, up)
  IN IF ~a.ok THEN Refused(a.st) ELSE IF ~b.ok THEN Refused(b.st) ELSE Then(b.st)

\* issue_session and the end of ldap_login: expired sessions go, then the one seen longest ago.
Issue(s, by, who, limit, t) ==
  LET mine == {k \in DOMAIN s.sessions : s.sessions[k].by = by}
      live == {k \in mine : Live(s.sessions[k])}
      oldest == CHOOSE k \in live : \A j \in live : s.sessions[k].seen <= s.sessions[j].seen
      gone == (mine \ live) \cup (IF Cardinality(live) >= limit THEN {oldest} ELSE {})
  IN [s EXCEPT !.sessions = (t :> [by |-> by, who |-> who, issued |-> now, seen |-> now, checked |-> now,
                                   confirmed |-> now, typed |-> now]) @@ Without(s.sessions, gone)]

\* ---- Attempts. -------------------------------------------------------------
Within(attempts) == SelectSeq(attempts, LAMBDA at : at > now - GUESS)
Exhausted(attempts, limit) == Len(Within(attempts)) >= limit
Charge(attempts) == Append(Within(attempts), now)

\* throttle: the attempt is charged before the password is looked at.
Throttled(s, Then(_)) ==
  IF Exhausted(s.attempts, MaxGuess) THEN Refused([s EXCEPT !.attempts = Within(@)])
  ELSE Then([s EXCEPT !.attempts = Charge(@)])

\* ---- What a call let happen, and to whom. -----------------------------------
Effect(s, t, perm, is) ==
  LET v == s.sessions[t] IN
  [is |-> is, tok |-> t, by |-> v.by, who |-> v.who, write |-> perm \notin READ, typed |-> v.typed, actor |-> ActorOf(s, v),
   realm |-> IF v.by = "ldap" THEN Realm(s.ldap.config) ELSE Void]

\* ---- Enrolment, login, reauthentication. --------------------------------------
LocalOnly(f) == Without(f, {k \in DOMAIN f : f[k].by = "ldap"})
LdapOnly(f) == Without(f, {k \in DOMAIN f : f[k].by = "local"})

enroll(s, n, t) ==
  Throttled(s, LAMBDA c :
    IF c.invite = Void THEN Refused(c)
    ELSE IF c.invite.expires <= now \/ c.invite.n # n THEN Refused(c)
    ELSE Done(Issue([c EXCEPT !.principal = "on", !.invite = Void, !.sessions = LdapOnly(@), !.attempts = <<>>],
                    "local", "local", MaxSessions, t), [is |-> "out", toks |-> DOMAIN LocalOnly(c.sessions)]))

\* A directory login pops its own charge, so only failures count.
ldap_login(s, i, right, up, t) ==
  LET charged == [s EXCEPT !.lattempts = Charge(@)]
      known == [s EXCEPT !.lattempts = Within(@), !.users = (i :> directory_user(s, i, TRUE)) @@ s.users]
  IN IF Exhausted(s.lattempts, MaxLdapGuess) THEN Refused(s)
     ELSE IF ~Confirms(s.ldap.config, i, up) \/ ~right THEN Refused(charged)
     ELSE Done(Issue(known, "ldap", i, MaxLdapSessions, t),
               [is |-> "login", tok |-> t, by |-> "ldap", who |-> i, write |-> TRUE, typed |-> now,
                actor |-> <<s.ldap.dirid, i>>, realm |-> Realm(s.ldap.config)])

\* The local name is reserved; any other name goes to the directory, if there is one.
login(s, who, right, up, t) ==
  IF who # "local"
  THEN IF Enabled(s) THEN ldap_login(s, who, right, up, t) ELSE Throttled(s, Refused)
  ELSE Throttled(s, LAMBDA c :
         IF c.principal # "on" THEN Refused(c)
         ELSE IF ~right THEN Refused(c)
         ELSE Done(Issue([c EXCEPT !.attempts = <<>>], "local", "local", MaxSessions, t), Quiet))

reauthenticate(s, t, right, up) ==
  LET a == session(s, t, "", up)
      confirmed(c) == [c EXCEPT !.sessions[t].confirmed = now, !.sessions[t].typed = now]
  IN IF ~a.ok THEN a
     ELSE IF s.sessions[t].by = "ldap"
     THEN IF Exhausted(a.st.lattempts, MaxLdapGuess) THEN Refused(a.st)
          ELSE IF ~right \/ ~Confirms(s.ldap.config, s.sessions[t].who, up) THEN Refused([a.st EXCEPT !.lattempts = Charge(@)])
          ELSE Done(confirmed([a.st EXCEPT !.lattempts = Within(@)]), Quiet)
     ELSE Throttled(a.st, LAMBDA c :
            IF right THEN Done(confirmed([c EXCEPT !.attempts = <<>>]), Quiet)
            ELSE Refused(c))

\* ---- Directory users. ----------------------------------------------------------
\* A complete listing replaces the membership: who is not listed, or listed as
\* disabled, becomes inactive and loses every session.
sync_directory(s, up, due) ==
  LET c == s.ldap.config
      users == [i \in Lists(c) \cup DOMAIN s.users |->
                  directory_user(s, i, dir[Realm(c)][i] = "member")]
      out == {k \in DOMAIN s.sessions : s.sessions[k].by = "ldap" /\ ~users[s.sessions[k].who].active}
  IN IF ~Enabled(s) \/ (due /\ s.synced + SYNC > now) THEN Done(s, Quiet)
     ELSE IF ~up THEN Refused([s EXCEPT !.synced = now])
     ELSE Done([s EXCEPT !.synced = now, !.users = users, !.userrev = @ + 1, !.sessions = Without(@, out)],
               [is |-> "out", toks |-> out])

SessionsOf(s, i) == {k \in DOMAIN s.sessions : s.sessions[k].by = "ldap" /\ s.sessions[k].who = i}

ChangeRole(s, t, a, rev) ==
  IF ~recent(s, t) \/ s.principal # "on" \/ rev # s.userrev \/ a.ident \notin DOMAIN s.users THEN Refused(s)
  ELSE Done([s EXCEPT !.users[a.ident].role = a.role, !.userrev = @ + 1, !.sessions = Without(@, SessionsOf(s, a.ident))],
            Effect(s, t, "identity.manage", "role")
              @@ [admin |-> TRUE, ident |-> a.ident, role |-> a.role, directory |-> <<s.ldap.dirid, Realm(s.ldap.config)>>, toks |-> SessionsOf(s, a.ident)])

users_action(s, t, a, rev, up) ==
  Permitted(s, t, "identity.manage", up, LAMBDA c :
    IF a.do = "users.role" THEN ChangeRole(c, t, a, rev)
    ELSE IF ~recent(c, t) THEN Refused(c) ELSE sync_directory(c, up, FALSE))

\* ---- Directory settings. --------------------------------------------------------
LdapRevision(s) == IF s.ldap = Void THEN 0 ELSE s.ldap.revision

\* A stored bind secret is reused only for the endpoint and trust it was saved with.
_bind_password(s, a) ==
  IF a.typed # "" THEN [pw |-> a.typed, home |-> Endpoint(a.config)]
  ELSE IF s.ldap = Void THEN Void
  ELSE IF Endpoint(a.config) # Endpoint(s.ldap.config) THEN Void
  ELSE s.ldap.secret

\* Turning the directory off keeps every other saved setting, whatever the form holds.
Disabled(s, a) == [s.ldap EXCEPT !.config.on = FALSE, !.revision = @ + 1]

TestOfConfig(s, a, secret, actor) ==
  s.test # Void /\ s.test.config = a.config /\ s.test.actor = actor /\ s.test.expires > now
TestMatches(s, a, secret, actor) ==
  s.test # Void /\ s.test.config = a.config /\ s.test.secret = secret /\ s.test.actor = actor /\ s.test.expires > now

SaveDirectory(s, t, a, secret, up) ==
  LET actor == ActorOf(s, s.sessions[t])
      revision == LdapRevision(s) + 1
      moved == s.ldap # Void /\ Realm(s.ldap.config) # Realm(a.config)
      ldap == [config |-> a.config, secret |-> secret, revision |-> revision,
               dirid |-> IF s.ldap = Void \/ moved THEN revision ELSE s.ldap.dirid]
  IN IF (a.config.on /\ ~TestMatches(s, a, secret, actor)) \/ ~up THEN Refused(s)
     ELSE Done([s EXCEPT !.ldap = ldap, !.users = IF moved THEN <<>> ELSE @, !.synced = -SYNC, !.userrev = @ + 1,
                         !.sessions = LocalOnly(@), !.test = Void],
               Effect(s, t, "identity.manage", "saved")
                 @@ [admin |-> TRUE, config |-> a.config, secret |-> secret, toks |-> DOMAIN LdapOnly(s.sessions)])

directory_action(s, t, a, rev, up) ==
  Permitted(s, t, "identity.manage", up, LAMBDA c :
    LET secret == _bind_password(c, a)
        gone == [admin |-> TRUE, toks |-> DOMAIN LdapOnly(c.sessions)]
    IN IF ~recent(c, t) THEN Refused(c)
       ELSE IF a.do = "ldap.revoke"
       THEN Done([c EXCEPT !.sessions = LocalOnly(@)], Effect(c, t, "identity.manage", "revoked") @@ gone)
       ELSE IF c.principal # "on" \/ rev # LdapRevision(c) THEN Refused(c)
       ELSE IF a.do = "ldap.save" /\ ~a.config.on /\ c.ldap # Void
       THEN Done([c EXCEPT !.ldap = Disabled(c, a), !.sessions = LocalOnly(@), !.test = Void],
                 Effect(c, t, "identity.manage", "revoked") @@ gone)
       ELSE IF secret = Void THEN Refused(c)
       ELSE IF a.do = "ldap.save" THEN SaveDirectory(c, t, a, secret, up)
       ELSE IF ~Passes(a.config, up) THEN Refused(c)
       ELSE Done([c EXCEPT !.test = [config |-> a.config, secret |-> secret, actor |-> ActorOf(c, c.sessions[t]),
                                     expires |-> now + TEST]],
                 Effect(c, t, "identity.manage", "tested") @@ [admin |-> TRUE, config |-> a.config, secret |-> secret]))

\* ---- Destination policy. ----------------------------------------------------------
\* An address is named by its class; a named host is admitted whatever it resolves to,
\* short of an unsafe or a denied address.  A host name is looked up once.
effective(s) ==
  IF s.mode = "legacy" \/ s.ceiling = "existing" THEN Baseline
  ELSE [Baseline EXCEPT !.cidrs = IF @ = {} THEN {"private"} ELSE @, !.hosts = @ \cup s.hosts]

resolve(policy, host, answers) ==
  LET named == host \in policy.hosts
      restricted == policy.cidrs # {} \/ policy.hosts # {}
  IN \A a \in answers : /\ a # "unsafe" /\ a \notin policy.denied
                        /\ restricted => (named \/ a \in policy.cidrs)
                        /\ a = "private" \/ named \/ a \in policy.cidrs

\* A disposable child resolves once and stays with the address it chose; whatever else
\* goes wrong in it, or its deadline, is a failed test.
run_connection_test(policy, host, answers, works) == works /\ resolve(policy, host, answers)

_update_policy(s, t, a, rev, up) ==
  Permitted(s, t, "policy.write", up, LAMBDA c :
    LET actor == ActorOf(c, c.sessions[t])
        request == <<a.host, rev, a.op>>
        oldest == CHOOSE k \in DOMAIN c.changes : \A j \in DOMAIN c.changes : c.changes[k].revision <= c.changes[j].revision
        kept == IF Cardinality(DOMAIN c.changes) >= MaxChanges THEN Without(c.changes, {oldest}) ELSE c.changes
    IN IF ~recent(c, t) \/ c.mode # "managed" \/ c.ceiling # "public-ipv4" THEN Refused(c)
       ELSE IF a.key \in DOMAIN c.changes
       THEN IF c.changes[a.key].actor = actor /\ c.changes[a.key].request = request THEN Done(c, Quiet) ELSE Refused(c)
       ELSE IF rev # c.revision THEN Refused(c)
       ELSE Done([c EXCEPT !.hosts = IF a.op = "allow" THEN @ \cup {a.host} ELSE @ \ {a.host},
                           !.revision = @ + 1, !.receipts = <<>>,
                           !.changes = (a.key :> [actor |-> actor, request |-> request, revision |-> c.revision + 1]) @@ kept],
                 Effect(c, t, "policy.write", "policy") @@ [admin |-> TRUE, key |-> <<a.key, rev>>]))

AnyRevision(s, rev) == TRUE
SameRevision(s, rev) == rev = s.revision

_issue_receipt(s, t, a, rev, r, answers, up) ==
  Permitted(s, t, "source.probe", up, LAMBDA c :
    LET live == Without(c.receipts, {k \in DOMAIN c.receipts : c.receipts[k].expires <= now})
    IN IF ~SameRevision(c, rev) \/ Cardinality(DOMAIN live) >= MaxReceipts THEN Refused(c)
       ELSE Done([c EXCEPT !.receipts = (r :> [actor |-> ActorOf(c, c.sessions[t]), revision |-> c.revision, host |-> a.host,
                                              expires |-> now + RECEIPT, used |-> FALSE, answers |-> answers]) @@ live],
                 Effect(c, t, "source.probe", "issued")))

ReceiptValid(c, v, actor) == v.actor = actor /\ v.expires > now /\ v.revision = c.revision

\* receipt.check asks nothing of the destination and changes nothing; cancel marks any receipt of its owner.
_use_receipt(s, t, a, up) ==
  Permitted(s, t, "source.register", up, LAMBDA c :
    LET actor == ActorOf(c, c.sessions[t])
        v == c.receipts[a.receipt]
    IN IF a.do = "cancel"
       THEN IF a.receipt \notin DOMAIN c.receipts THEN Done(c, Quiet)
            ELSE IF v.actor # actor THEN Refused(c)
            ELSE Done([c EXCEPT !.receipts[a.receipt].used = TRUE], [Quiet EXCEPT !.is = "cancelled"] @@ [receipt |-> a.receipt])
       ELSE IF a.receipt \notin DOMAIN c.receipts THEN Refused(c)
       ELSE IF ~ReceiptValid(c, v, actor) \/ v.used THEN Refused(c)
       ELSE IF a.do = "check" THEN Done(c, Effect(c, t, "source.register", "checked"))
       ELSE IF v.host # a.host THEN Refused(c)
       ELSE Done([c EXCEPT !.receipts[a.receipt].used = TRUE],
                 Effect(c, t, "source.register", "consumed") @@ [receipt |-> a.receipt, value |-> v, policy |-> effective(c)]))

\* ---- Source teams: metadata with a revision of its own. ------------------------------
teams_action(s, t, a, rev, up) ==
  Permitted(s, t, "source.configure", up, LAMBDA c :
    LET team == IF a.do = "teams.create" THEN c.teams.revision + 1 ELSE a.team
        teams == c.teams.names
        named == /\ a.do = "teams.rename" => team \in DOMAIN teams
                 /\ \A k \in DOMAIN teams : k # team => teams[k] # a.name
    IN IF rev # c.teams.revision THEN Refused(c)
       ELSE IF a.do # "teams.assign"
       THEN IF ~named THEN Refused(c)
            ELSE Done([c EXCEPT !.teams.revision = @ + 1, !.teams.names = (team :> a.name) @@ @],
                      Effect(c, t, "source.configure", "team"))
       ELSE IF team # Void /\ team \notin DOMAIN teams THEN Refused(c)
       ELSE Done([c EXCEPT !.teams.revision = @ + 1, !.teams.owner = team], Effect(c, t, "source.configure", "team")))

\* ---- Requests. ---------------------------------------------------------------------
Revision(s, do) ==
  CASE do \in {"ldap.test", "ldap.save"} -> LdapRevision(s)
    [] do = "users.role" -> s.userrev
    [] do \in {"teams.create", "teams.rename", "teams.assign"} -> s.teams.revision
    [] OTHER -> s.revision

Handler(s, t, a, rev, up, right) ==
  CASE a.do = "reauthenticate" -> reauthenticate(s, t, right, up)
    [] a.do = "logout" -> LET o == session(s, t, "", up) IN
                          IF o.ok THEN Done([o.st EXCEPT !.sessions = Without(@, {t})], [is |-> "out", toks |-> {t}]) ELSE o
    [] a.do \in {"ldap.test", "ldap.save", "ldap.revoke"} -> directory_action(s, t, a, rev, up)
    [] a.do \in {"users.sync", "users.role"} -> users_action(s, t, a, rev, up)
    [] a.do \in {"teams.create", "teams.rename", "teams.assign"} -> teams_action(s, t, a, rev, up)
    [] a.do = "policy.update" -> _update_policy(s, t, a, rev, up)
    [] OTHER -> _use_receipt(s, t, a, up)

Idle(cookie) == [cookie |-> cookie, stage |-> "idle", ask |-> Void, rev |-> 0, answers |-> {}]

\* History: roles granted, tests passed, tokens revoked, policy requests that took
\* effect, receipts consumed and cancelled, and when each identity last left a realm.
Record(l) ==
  [hist EXCEPT !.grants = IF l.is = "role" THEN @ \cup {<<l.directory, l.ident, l.role>>} ELSE @,
               !.tests = IF l.is = "tested" THEN @ \cup {[config |-> l.config, secret |-> l.secret, actor |-> l.actor, at |-> now]} ELSE @,
               !.saved = IF l.is = "saved" THEN [actor |-> l.actor, at |-> now] ELSE @,
               !.dead = IF "toks" \in DOMAIN l THEN @ \cup l.toks ELSE @,
               !.applied = IF l.is = "policy" THEN Append(@, l.key) ELSE @,
               !.spent = IF l.is = "consumed" THEN Append(@, l.receipt) ELSE @,
               !.shut = IF l.is = "cancelled" THEN @ \cup {l.receipt} ELSE @]
Call(o) == st' = o.st /\ last' = o.last /\ hist' = Record(o.last)

\* The bound on every revision counter.
Room ==
  st.revision + st.userrev + LdapRevision(st) + st.teams.revision < MaxRevision[part]

\* The middleware: authorize with the permission of the route.
_authorize_request(b) ==
  \E a \in Asks[part], up \in BOOLEAN :
    LET o == session(st, req[b].cookie, RoutePermission(a.do), up) IN
    /\ req[b].stage \in {"idle", "lost"} /\ req[b].cookie # 0 /\ a.do \notin {"login", "enroll", "root"}
    /\ a.do \in {"ldap.save", "users.sync", "users.role", "teams.create", "teams.rename", "teams.assign", "policy.update"} => Room
    /\ req[b].stage = "lost" => a = req[b].ask
    /\ Call([o EXCEPT !.last = IF o.ok THEN Effect(o.st, req[b].cookie, RoutePermission(a.do), "admit") ELSE Quiet])
    /\ req' = [req EXCEPT ![b] =
         IF ~o.ok THEN Idle(@.cookie)
         ELSE IF a.do = "me" THEN Idle(@.cookie)
         ELSE [@ EXCEPT !.stage = IF a.do \in {"probe", "destination"} THEN "policy" ELSE "handle", !.ask = a,
                        !.rev = IF req[b].stage = "lost" THEN @ ELSE Revision(st, a.do)]]
    /\ UNCHANGED <<part, now, dir, tokens>>

\* The handler's own call; its answer may be lost, and the client then repeats the request.
Handle(b) ==
  \E up, right, lost \in BOOLEAN :
    LET a == req[b].ask
        o == Handler(st, req[b].cookie, a, req[b].rev, up, right)
    IN /\ req[b].stage = "handle"
       /\ lost => a.do = "policy.update"
       /\ Call(o)
       /\ req' = [req EXCEPT ![b] = IF lost THEN [@ EXCEPT !.stage = "lost"] ELSE Idle(@.cookie)]
       /\ UNCHANGED <<part, now, dir, tokens>>

\* connection_test: the revision first, the probe under the policy of that revision, the receipt last.
ProbePolicy(b) ==
  \E up \in BOOLEAN :
    LET o == Permitted(st, req[b].cookie, "source.probe", up, LAMBDA c : Done(c, Effect(c, req[b].cookie, "source.probe", "admit"))) IN
    /\ req[b].stage = "policy" /\ Call(o)
    /\ req' = [req EXCEPT ![b] = IF o.ok THEN [@ EXCEPT !.stage = "probe", !.rev = st.revision] ELSE Idle(@.cookie)]
    /\ UNCHANGED <<part, now, dir, tokens>>
ProbeRun(b) ==
  \E up, works \in BOOLEAN, answers \in Answers :
    LET o == Permitted(st, req[b].cookie, "source.probe", up, LAMBDA c :
               IF ~SameRevision(c, req[b].rev) THEN Refused(c) ELSE Done(c, Effect(c, req[b].cookie, "source.probe", "admit")))
        reached == o.ok /\ run_connection_test(effective(st), req[b].ask.host, answers, works)
    IN /\ req[b].stage = "probe" /\ Call(o)
       /\ req' = [req EXCEPT ![b] = IF reached /\ req[b].ask.do = "probe"
                                    THEN [@ EXCEPT !.stage = "issue", !.answers = answers] ELSE Idle(@.cookie)]
       /\ UNCHANGED <<part, now, dir, tokens>>
ProbeReceipt(b) ==
  \E up \in BOOLEAN :
    LET o == _issue_receipt(st, req[b].cookie, req[b].ask, req[b].rev, tokens.receipts + 1, req[b].answers, up) IN
    /\ req[b].stage = "issue" /\ tokens.receipts < MaxTokens[part]
    /\ Call(o)
    /\ tokens' = IF o.ok THEN [tokens EXCEPT !.receipts = @ + 1] ELSE tokens
    /\ req' = [req EXCEPT ![b] = Idle(@.cookie)]
    /\ UNCHANGED <<part, now, dir>>

\* Login and enrolment are public; a success sets the cookie.
SignIn(b) ==
  \E a \in Asks[part], up, right \in BOOLEAN :
    LET o == IF a.do = "enroll" THEN enroll(st, a.invitation, tokens.sessions + 1)
             ELSE login(st, a.who, right, up, tokens.sessions + 1)
    IN /\ req[b].stage = "idle" /\ a.do \in {"login", "enroll"} /\ a.by = b /\ tokens.sessions < MaxTokens[part]
       /\ a.do = "enroll" => right /\ up
       /\ Call(o)
       /\ tokens' = IF o.ok THEN [tokens EXCEPT !.sessions = @ + 1] ELSE tokens
       /\ req' = IF o.ok THEN [req EXCEPT ![b] = Idle(tokens.sessions + 1)] ELSE req
       /\ UNCHANGED <<part, now, dir>>

\* The root socket and the directory daemon: no session, the same row lock.
NoSessions(f) == <<>>

root(action, ceiling, n) ==
  LET s == st
      out == [is |-> "out", toks |-> DOMAIN s.sessions]
      invitation == [n |-> n, expires |-> now + INVITE]
  IN CASE action = "invite" -> IF s.principal = "none" THEN Done([s EXCEPT !.invite = invitation], Quiet) ELSE Refused(s)
       [] action = "recover" ->
            IF s.principal = "none" THEN Refused(s)
            ELSE Done([s EXCEPT !.invite = invitation, !.attempts = <<>>, !.sessions = NoSessions(@), !.receipts = <<>>,
                                !.principal = "disabled"], out)
       [] action = "managed" -> Done([s EXCEPT !.mode = "managed", !.ceiling = ceiling, !.revision = @ + 1, !.receipts = <<>>], Quiet)
       [] action = "revoke" -> Done([s EXCEPT !.sessions = NoSessions(@), !.receipts = <<>>], out)

Root ==
  \E a \in Asks[part] :
    LET o == root(a.root, a.ceiling, tokens.invites + 1) IN
    /\ a.do = "root" /\ Room /\ tokens.invites < MaxTokens[part]
    /\ o.ok /\ o.st # st
    /\ Call(o)
    /\ tokens' = IF a.root \in {"invite", "recover"} THEN [tokens EXCEPT !.invites = @ + 1] ELSE tokens
    /\ UNCHANGED <<part, now, dir, req>>

directory_sync ==
  /\ Room
  /\ \E up \in BOOLEAN : Call(sync_directory(st, up, TRUE))
  /\ st' # st
  /\ UNCHANGED <<part, now, dir, req, tokens>>

Tick == /\ now < MaxTime[part]
        /\ now' = now + 1 /\ last' = Quiet
        /\ UNCHANGED <<part, st, dir, req, tokens, hist>>

\* The directory's administrators add, disable and remove accounts.
DirectoryMoves ==
  \E realm \in Realms, i \in Idents, is \in {"member", "disabled", "out"} :
    /\ hist.moves < MaxMoves[part] /\ dir[realm][i] # is
    /\ dir' = [dir EXCEPT ![realm][i] = is]
    /\ hist' = [hist EXCEPT !.moves = @ + 1, !.left[realm][i] = IF dir[realm][i] = "member" THEN now ELSE @]
    /\ last' = Quiet
    /\ UNCHANGED <<part, st, now, req, tokens>>

initial_state ==
  [principal |-> "none", invite |-> Void, sessions |-> <<>>, attempts |-> <<>>, lattempts |-> <<>>,
   ldap |-> Void, test |-> Void, users |-> <<>>, userrev |-> 0, synced |-> -SYNC,
   teams |-> [revision |-> 0, names |-> <<>>, owner |-> Void],
   revision |-> 0, mode |-> "legacy", ceiling |-> "none", hosts |-> {}, changes |-> <<>>, receipts |-> <<>>]

\* A part starts from a state the calls above reach, with what led to it in the history.
AuthInit ==
  /\ part \in DOMAIN Starts
  /\ st = Starts[part].st
  /\ now = 0
  /\ dir = [realm \in Realms |-> [i \in Idents |-> "member"]]
  /\ req = [b \in Browsers |-> Idle(Starts[part].cookies[b])]
  /\ tokens = [sessions |-> Cardinality(DOMAIN st.sessions), invites |-> 0, receipts |-> 0]
  /\ hist = [grants |-> Starts[part].grants, tests |-> Starts[part].tests, saved |-> Starts[part].saved, dead |-> {},
             applied |-> <<>>, spent |-> <<>>, shut |-> {},
             moves |-> 0, left |-> [realm \in Realms |-> [i \in Idents |-> -CHECK]]]
  /\ last = Quiet

AuthNext == \/ \E b \in Browsers : \/ _authorize_request(b) \/ Handle(b) \/ SignIn(b)
                                   \/ ProbePolicy(b) \/ ProbeRun(b) \/ ProbeReceipt(b)
            \/ Root \/ directory_sync \/ Tick \/ DirectoryMoves

\* ---- Properties. -----------------------------------------------------------------
\* Whatever a directory user is let do that writes, the directory confirmed at that very
\* moment; what they are let read, it confirmed less than CHECK ago.  Leaving the group in
\* the middle of a request ends the request (ldap_session).
DirectoryConfirms ==
  (last.is \notin {"quiet", "out", "cancelled"} /\ last.by = "ldap") =>
     \/ dir[last.realm][last.who] = "member"
     \/ ~last.write /\ now - hist.left[last.realm][last.who] < CHECK

\* A role above viewer was given to that identity, by an administrator, in the directory
\* it belongs to now: a new directory, a re-enabled one, a sync or a login grants nothing
\* (directory_user, _save_directory).
RolesGranted ==
  \A i \in DOMAIN st.users : st.users[i].role # "viewer" => <<<<st.ldap.dirid, Realm(st.ldap.config)>>, i, st.users[i].role>> \in hist.grants

\* The bind secret goes only where it was typed for, and an enabled directory is the one
\* that the saving administrator tested, with the same secret, less than TEST before
\* (_bind_password, _save_directory).
DirectoryTested ==
  /\ st.ldap # Void => st.ldap.secret.home = Endpoint(st.ldap.config)
  /\ st.test # Void => st.test.secret.home = Endpoint(st.test.config)
  /\ Enabled(st) => \E t \in hist.tests : /\ t.config = st.ldap.config /\ t.secret = st.ldap.secret
                                          /\ t.actor = hist.saved.actor /\ hist.saved.at - t.at < TEST

\* A token revoked by logout, a role change, a directory change, a sync, a revocation or a
\* recovery admits nothing again, not even the rest of a request it had begun; and an
\* administrator's change follows a password typed less than RECENT ago (session, recent, root).
RevokedStaysOut ==
  (last.is \notin {"quiet", "out", "cancelled"}) =>
     /\ last.tok \notin hist.dead \/ last.tok \in (IF "toks" \in DOMAIN last THEN last.toks ELSE {})
     /\ "admin" \in DOMAIN last => last.typed + RECENT > now

\* Whoever a step lets through is entitled at that moment, not only when the request began: the
\* directory stands by them and their token is alive (_authorize_request, ldap_session, session).
AdmittedNow == DirectoryConfirms /\ RevokedStaysOut

\* What the directory in force gives was approved: an administrator tested and saved it, and gave
\* every role above viewer (_save_directory, directory_user).
DirectoryApproved == DirectoryTested /\ RolesGranted

\* A receipt is consumed once, never after it was cancelled, by who probed; and what the
\* probe saw is still allowed by the policy in force.  A policy request takes effect once,
\* however often it is repeated, also when its record has been evicted
\* (_issue_receipt, _use_receipt, _update_policy).
PolicyHeld ==
  /\ \A i, j \in DOMAIN hist.spent : hist.spent[i] = hist.spent[j] => i = j
  /\ \A i, j \in DOMAIN hist.applied : hist.applied[i] = hist.applied[j] => i = j
  /\ last.is = "consumed" => /\ last.receipt \notin hist.shut /\ last.value.actor = last.actor
                             /\ resolve(last.policy, last.value.host, last.value.answers)
=============================================================================
