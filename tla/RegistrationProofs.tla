------------------------- MODULE RegistrationProofs -------------------------
(***************************************************************************)
(* Theorems about Registration, for every set of attempts, hosts and       *)
(* sources: a hardware identity is claimed once and before anything is     *)
(* done for it, registered credentials are whole, and a registry row is    *)
(* the outcome of one approved request.  First what the moves of a thread  *)
(* change, what a thread knows and what the tables keep while others move; *)
(* then the reservation, the job and the broker's files; then the cluster, *)
(* the steps one by one and the theorems.                                  *)
(***************************************************************************)
EXTENDS Registration, TLAPS
USE ZenonT(30)

-----------------------------------------------------------------------------
(* The constants, and the keys of the broker's files.                       *)

\* The fields of an attempt.
LEMMA AttemptFields == ASSUME NEW a \in Attempts
                       PROVE  /\ a.source \in Sources /\ a.name \in Names /\ a.host \in Hosts /\ a.create \in BOOLEAN
                              /\ Id(a) \in Ids /\ Id(a)[1] = a.source
                              /\ a # None
  BY RegistrationAssumption DEF Sources, Names, Ids, Id

\* An operation belongs to one source.
LEMMA SameId == ASSUME NEW a \in Attempts, NEW b \in Attempts, Id(a) = Id(b) PROVE a.source = b.source
  BY DEF Id

\* The fields of the mode.
LEMMA ModeFields == ASSUME mode \in Modes
                    PROVE  /\ mode.durable \in BOOLEAN /\ mode.guarded \in BOOLEAN
                           /\ mode.attempts \subseteq Attempts
                           /\ mode.legacy \subseteq Legacy /\ mode.legacy \subseteq Esxi /\ mode.legacy \subseteq Sources
  BY RegistrationAssumption

\* The jobs a mode starts with.
LEMMA StagedFields == ASSUME mode \in Modes
                      PROVE  /\ \A a \in mode.staged : a \in Attempts /\ a.source \notin Esxi
                             /\ mode.staged # {} => mode.durable /\ Values # {}
  BY RegistrationAssumption

\* The bounds are numbers.
LEMMA Bounds == MaxFresh \in Nat /\ MaxFaults \in Nat
  BY RegistrationAssumption

\* Which sources are ESXi, and legacy.
LEMMA EsxiSources == Esxi \subseteq Sources /\ Legacy \subseteq Esxi
  BY RegistrationAssumption

\* None is no attempt, host or refusal.
LEMMA NoneIs == /\ None \notin Attempts /\ None \notin Hosts /\ None \notin Refusals
                /\ None \notin JobRow /\ None \notin Entry /\ None \notin Claiming
                /\ None \notin Handoff /\ None \notin Running
  BY RegistrationAssumption

\* The random names used so far.
LEMMA FreshFact == ASSUME TypeOK PROVE fresh \in Nat /\ MaxFresh \in Nat /\ fresh <= MaxFresh
<1>1. fresh \in 0..MaxFresh
  BY DEF TypeOK
<1> QED
  BY <1>1, Bounds, SMTT(30)

\* Derived keys and random ones never meet, and neither do the random keys of two numbers.
LEMMA KeysApart == /\ \A i \in Ids : \A n : <<n>> # i
                   /\ \A n, m : <<n>> = <<m>> => n = m
<1>1. ASSUME NEW a \in Attempts, NEW n PROVE <<n>> # Id(a)
  BY DEF Id
<1> QED
  BY <1>1 DEF Ids

\* The files of an attempt.
LEMMA ReferenceKeys == ASSUME NEW i \in Ids
                       PROVE  /\ references(i) \subseteq Keys
                              /\ <<i, "secret">> \in references(i)
                              /\ i[1] \notin Esxi => <<i, "token">> \in references(i)
                              /\ \A k \in references(i) : k[1] = i /\ k[2] \in {"secret", "token"}
                                                         /\ k = <<k[1], k[2]>>
  BY SMTT(30) DEF references, Keys

\* The files of a random name.
LEMMA RandomKeysAre == ASSUME NEW n \in 1..MaxFresh
                       PROVE  /\ RandomKeys(n) \subseteq Keys
                              /\ <<<<n>>, "secret">> \in RandomKeys(n) /\ <<<<n>>, "token">> \in RandomKeys(n)
                              /\ \A k \in RandomKeys(n) : k[1] = <<n>> /\ k[1] \notin Ids
<1>1. /\ RandomKeys(n) \subseteq Keys
      /\ <<<<n>>, "secret">> \in RandomKeys(n) /\ <<<<n>>, "token">> \in RandomKeys(n)
      /\ \A k \in RandomKeys(n) : k[1] = <<n>>
  BY SMTT(30) DEF RandomKeys, Keys
<1> QED
  BY <1>1, KeysApart

-----------------------------------------------------------------------------
(* What the moves of a thread change.                                       *)

LocalTyped == /\ at' \in [Procs -> Places]
              /\ held' \in [Procs -> SUBSET {"job", "admission", "host"}]
              /\ req' \in [Procs -> Attempts \cup {None}]
              /\ tok' \in [Procs -> Tokens \cup Values \cup ((0..MaxFresh) \X Values) \cup {None}]
              /\ own' \in [Procs -> BOOLEAN]
Alone(p) == \A q \in Procs \ {p} : at'[q] = at[q] /\ req'[q] = req[q] /\ tok'[q] = tok[q] /\ own'[q] = own[q]
\* The row of the source's job is in the registry.
Outcome(s) == Registered(s) /\ registry[s].refs = references(Id(jobs[s].attempt))
\* Jobs keep their attempts, and only one whose row is there becomes COMPLETED.
JobsMoved == /\ jobs' \in [Sources -> JobRow \cup {None}]
             /\ \A s \in Sources : jobs[s] = None => jobs'[s] = None
             /\ \A s \in Sources : jobs[s] # None => /\ jobs'[s] # None /\ jobs'[s].attempt = jobs[s].attempt
                                                     /\ jobs'[s].state = "COMPLETED" => jobs[s].state = "COMPLETED" \/ Outcome(s)'

\* A request or worker that leaves.
LEMMA LeaveEffect == ASSUME TypeOK, NEW p \in Procs, Leave(p)
                     PROVE  LocalTyped /\ Alone(p) /\ at'[p] = "idle"
  BY DEF TypeOK, Leave, LocalTyped, Alone, Places

\* One that goes on.
LEMMA GoEffect == ASSUME TypeOK, NEW p \in Procs, NEW l \in Places, Go(p, l)
                  PROVE  LocalTyped /\ Alone(p) /\ at'[p] = l /\ UNCHANGED <<req, tok, own>>
  BY DEF TypeOK, Go, Goto, LocalTyped, Alone

\* One that takes its job's guard.
LEMMA TakeGuardEffect == ASSUME TypeOK, NEW p \in Procs, NEW l \in Places, TakeGuard(p, l)
                         PROVE  LocalTyped /\ Alone(p) /\ at'[p] = l /\ UNCHANGED <<req, tok, own>>
  BY DEF TypeOK, TakeGuard, Goto, LocalTyped, Alone

\* A job that is marked keeps its attempt.
LEMMA MarkEffect == ASSUME TypeOK, NEW s \in Sources, jobs[s] # None,
                           NEW st \in {"STAGING", "READY", "BLOCKED", "COMPLETED"}, mark(s, st)
                    PROVE  /\ jobs' \in [Sources -> JobRow \cup {None}]
                           /\ jobs'[s] # None /\ jobs'[s].attempt = jobs[s].attempt /\ jobs'[s].state = st
                           /\ \A r \in Sources \ {s} : jobs'[r] = jobs[r]
<1>1. jobs[s] \in JobRow
  BY DEF TypeOK
<1>2. [jobs[s] EXCEPT !.state = st] \in JobRow
  BY <1>1 DEF JobRow
<1>3. [jobs[s] EXCEPT !.state = st].attempt = jobs[s].attempt /\ [jobs[s] EXCEPT !.state = st].state = st
  BY <1>1 DEF JobRow
<1> QED
  BY <1>2, <1>3, NoneIs DEF TypeOK, mark

\* To mark is to move.
LEMMA MarkMoves == ASSUME TypeOK, NEW s \in Sources, jobs[s] # None,
                          NEW st \in {"STAGING", "READY", "BLOCKED"}, mark(s, st)
                   PROVE  JobsMoved
<1>1. /\ jobs' \in [Sources -> JobRow \cup {None}]
      /\ jobs'[s] # None /\ jobs'[s].attempt = jobs[s].attempt /\ jobs'[s].state = st
      /\ \A r \in Sources \ {s} : jobs'[r] = jobs[r]
  BY MarkEffect
<1> QED
  BY <1>1 DEF JobsMoved

\* Unchanged jobs have moved.
LEMMA JobsSame == ASSUME TypeOK, UNCHANGED jobs PROVE JobsMoved
  BY DEF TypeOK, JobsMoved

\* A failure marks the job and leaves.
LEMMA FailEffect == ASSUME TypeOK, NEW p \in Procs, NEW code, Fail(p, code), mode.durable => req[p] \in Attempts
                                                                        /\ jobs[req[p].source] # None
                    PROVE  LocalTyped /\ Alone(p) /\ at'[p] = "idle" /\ JobsMoved
<1>1. LocalTyped /\ Alone(p) /\ at'[p] = "idle"
  BY LeaveEffect DEF Fail
<1>2. CASE mode.durable
  <2>1. PICK st \in {"STAGING", "READY", "BLOCKED"} : mark(req[p].source, st)
    BY <1>2 DEF Fail
  <2>2. req[p].source \in Sources
    BY <1>2, AttemptFields
  <2> QED
    BY <1>1, <1>2, <2>1, <2>2, MarkMoves
<1>3. CASE ~mode.durable
  BY <1>1, <1>3, JobsSame DEF Fail
<1> QED
  BY <1>2, <1>3

-----------------------------------------------------------------------------
(* What a thread knows survives the steps of the others, and the tables     *)
(* survive the steps that leave them alone.                                 *)

\* Nothing a thread relies on is taken back.
Grows == /\ mode' = mode
         /\ \A s \in Sources : intents[s] # None => intents'[s] = intents[s]
         /\ \A s \in Sources : jobs[s] # None => jobs'[s] # None /\ jobs'[s].attempt = jobs[s].attempt
         /\ \A i \in Ids : made[i] > 0 => made'[i] > 0
         /\ fresh' \in Nat /\ fresh <= fresh'
Keeps(q) == \A k \in Keys : Whole(k) /\ (k[1] \in Ids \/ (Holds(q) /\ k \in RandomKeys(tok[q][1]))) => Whole(k)'

\* The files that a request without a durable job writes.
LEMMA WrittenKeys == ASSUME TypeOK, Apart, NEW q \in Procs, Knows(q), at[q] \in Direct
                     PROVE  /\ req[q].source \in Esxi => DirectId(q) \in Ids /\ DirectKeys(q) = references(DirectId(q))
                            /\ req[q].source \notin Esxi => /\ Holds(q) /\ tok[q][1] \in 1..fresh /\ tok[q][1] \in 1..MaxFresh
                                                            /\ DirectId(q) = <<tok[q][1]>>
                                                            /\ DirectKeys(q) = RandomKeys(tok[q][1])
                            /\ DirectKeys(q) \subseteq Keys
                            /\ <<DirectId(q), "secret">> \in DirectKeys(q)
                            /\ req[q].source \notin Esxi => <<DirectId(q), "token">> \in DirectKeys(q)
                            /\ \A k \in DirectKeys(q) : k[1] = DirectId(q)
<1>1. req[q] \in Attempts /\ tok[q] \in (0..fresh) \X Values /\ fresh \in 0..MaxFresh
  BY DEF Knows, Requested, Handed, TypeOK, Direct
<1>2. tok[q][1] \in 0..fresh
  BY <1>1
<1>3. CASE req[q].source \in Esxi
  BY <1>1, <1>3, AttemptFields, ReferenceKeys DEF DirectId, DirectKeys
<1>4. CASE req[q].source \notin Esxi
  <2>1. Holds(q)
    BY <1>4 DEF Holds
  <2>2. tok[q][1] \in 1..fresh /\ tok[q][1] \in 1..MaxFresh
    BY <1>1, <1>2, <2>1, FreshFact, SMTT(30) DEF Apart
  <2> QED
    BY <1>4, <2>1, <2>2, RandomKeysAre DEF DirectId, DirectKeys
<1> QED
  BY <1>3, <1>4

\* What a worker knows stays true while others do not touch its files.
LEMMA KnowsKept == ASSUME TypeOK, Apart, NEW q \in Procs, Knows(q), Grows, Keeps(q),
                          at'[q] = at[q], req'[q] = req[q], tok'[q] = tok[q], own'[q] = own[q]
                   PROVE  Knows(q)'
<1>a. mode.durable \in BOOLEAN
  BY ModeFields DEF TypeOK
<1>0. at[q] # "idle" => /\ req[q] \in Attempts /\ req[q].source \in Sources /\ req[q] # None
                        /\ Id(req[q]) \in Ids
  BY AttemptFields DEF Knows, Requested
<1>1. Requested(q)'
  BY DEF Knows, Requested, Grows
<1>2. Cleared(q)'
  BY <1>0 DEF Knows, Cleared, Grows
<1>3. Bound(q)'
  <2>1. Staged(q)' <=> Staged(q)
    BY DEF Staged, Grows
  <2>2. Staged(q) => at[q] # "idle"
    BY DEF Staged, Placing
  <2>3. ASSUME Staged(q), NEW k \in references(Id(req[q])) PROVE Whole(k)'
    BY <1>0, <2>2, <2>3, ReferenceKeys DEF Keeps, Knows, Bound
  <2>4. Staged(q)' \/ at'[q] \in {"token", "secret", "ready", "attest"} =>
            jobs'[req[q].source] # None /\ jobs'[req[q].source].attempt = req[q]
    BY <1>0, <2>1, <2>2 DEF Knows, Bound, Grows
  <2> QED
    BY <2>1, <2>3, <2>4 DEF Bound
<1>4. Creator(q)'
  BY <1>0 DEF Knows, Creator, Grows, Direct
<1>5. Handed(q)'
  <2>1. fresh \in Nat /\ 0..fresh \subseteq 0..fresh'
    BY FreshFact, SMTT(30) DEF Grows
  <2>2. at[q] \in Direct => tok[q] \in (0..fresh') \X Values
    BY <2>1 DEF Knows, Handed
  <2> QED
    BY <2>2 DEF Knows, Handed, Grows
<1>6. Written(q)'
  <2>1. DirectId(q)' = DirectId(q) /\ DirectKeys(q)' = DirectKeys(q)
    BY DEF DirectId, DirectKeys
  <2>2. ASSUME at[q] \in Direct, NEW k \in DirectKeys(q), Whole(k) PROVE Whole(k)'
    BY <2>2, WrittenKeys DEF Keeps
  <2>3. CASE at[q] = "dsecret"
    BY <2>1, <2>2, <2>3, WrittenKeys DEF Knows, Written, Direct
  <2>4. CASE at[q] = "dinsert"
    BY <2>1, <2>2, <2>4 DEF Knows, Written, Direct
  <2>5. CASE at[q] \notin {"dsecret", "dinsert"}
    BY <2>5 DEF Knows, Written
  <2> QED
    BY <2>3, <2>4, <2>5
<1> QED
  BY <1>1, <1>2, <1>3, <1>4, <1>5, <1>6 DEF Knows

\* An idle worker knows nothing and holds no token.
LEMMA IdleKnows == ASSUME NEW p \in Procs, at'[p] = "idle" PROVE Knows(p)' /\ ~Holds(p)'
  BY DEF Knows, Requested, Cleared, Bound, Staged, Creator, Handed, Written, Placing, Direct, Holds

\* A thread that does not come to hold random keys leaves them apart.
LEMMA ApartKept == ASSUME TypeOK, Apart, NEW p \in Procs, Alone(p), fresh' = fresh,
                          Holds(p)' => Holds(p) /\ tok'[p] = tok[p]
                   PROVE  Apart' /\ \A k : Spent(k) => Spent(k)'
<1>1. ASSUME NEW q \in Procs, Holds(q)' PROVE Holds(q) /\ tok'[q] = tok[q]
  BY <1>1 DEF Alone, Holds
<1> QED
  BY <1>1 DEF Apart, Spent

\* A step of one worker keeps what all of them know.
LEMMA ThreadsKept == ASSUME TypeOK, Threads, NEW p \in Procs, Alone(p), Grows, fresh' = fresh,
                            \A q \in Procs \ {p} : Keeps(q),
                            Knows(p)', Holds(p)' => Holds(p) /\ tok'[p] = tok[p]
                     PROVE  Threads' /\ \A k : Spent(k) => Spent(k)'
<1>1. Apart' /\ \A k : Spent(k) => Spent(k)'
  BY ApartKept DEF Threads
<1>2. ASSUME NEW q \in Procs \ {p} PROVE Knows(q)'
  BY <1>2, KnowsKept DEF Threads, Alone
<1> QED
  BY <1>1, <1>2 DEF Threads

\* The tables without the job's states.
RowsKept == UNCHANGED <<mode, reserved, intents, registry, files, journal, catalog, made, wire>>

\* A step that moves jobs only keeps the tables.
LEMMA TablesKept == ASSUME TypeOK, Tables, JobsMoved, RowsKept, \A k : Spent(k) => Spent(k)'
                    PROVE  Tables'
<1>1. ASSUME NEW s \in Sources PROVE (Claim(s) /\ JobIs(s) /\ RowIs(s))'
  <2>1. Claim(s)'
    BY DEF Tables, RowsKept, Claim
  <2>2. JobIs(s)'
    BY DEF Tables, RowsKept, JobsMoved, JobIs
  <2>3. RowIs(s)'
    <3>1. RowIs(s)
      BY DEF Tables
    <3>2. CASE s \in mode.legacy
      BY <3>1, <3>2 DEF RowsKept, RowIs
    <3>3. CASE s \notin mode.legacy
      BY <3>1, <3>3 DEF RowsKept, JobsMoved, RowIs
    <3> QED
      BY <3>2, <3>3
  <2> QED
    BY <2>1, <2>2, <2>3
<1>2. RowsWhole'
  BY DEF Tables, RowsKept, RowsWhole, Whole
<1>3. NetIs'
  BY DEF Tables, RowsKept, NetIs
<1>4. CompletedIsRegistered'
  <2>1. ASSUME NEW s \in Sources, jobs'[s] # None, jobs'[s].state = "COMPLETED"
        PROVE  Outcome(s)'
    <3>1. /\ jobs[s] # None /\ jobs'[s].attempt = jobs[s].attempt
          /\ jobs[s].state = "COMPLETED" \/ Outcome(s)'
      BY <2>1 DEF JobsMoved
    <3> QED
      BY <3>1 DEF Tables, RowsKept, CompletedIsRegistered, Registered, Outcome
  <2> QED
    BY <2>1 DEF CompletedIsRegistered, Outcome
<1>5. ClusterOnce'
  BY DEF Tables, RowsKept, ClusterOnce
<1>6. ClaimedFirst'
  BY SMTT(30) DEF Tables, RowsKept, ClaimedFirst, OneClaim, EffectsClaimed, Claimants, existing, Registered, registration_anchor
<1> QED
  BY <1>1, <1>2, <1>3, <1>4, <1>5, <1>6 DEF Tables

\* It also keeps every file and name.
LEMMA GrowsKept == ASSUME TypeOK, JobsMoved, RowsKept, fresh' = fresh
                   PROVE  Grows /\ \A q \in Procs : Keeps(q)
  BY FreshFact, SMTT(30) DEF JobsMoved, RowsKept, Grows, Keeps, Whole

\* What else a quiet step may change.
RestTyped == /\ tokens' \in [Tokens -> Handoff \cup {None}]
             /\ foreign' \in [Names -> {"none", "empty", "occupied"}]
             /\ cursor' \in {a.op : a \in Attempts} \cup {None}
             /\ faults' \in 0..MaxFaults

\* Unchanged tokens, catalogue and cursor are typed.
LEMMA RestSame == ASSUME TypeOK, UNCHANGED <<tokens, foreign, cursor>>, faults' = faults \/ Fault
                  PROVE  RestTyped
<1>1. faults \in 0..MaxFaults
  BY DEF TypeOK
<1>2. faults' \in 0..MaxFaults
  BY <1>1, Bounds, SMTT(30) DEF Fault
<1> QED
  BY <1>2 DEF TypeOK, RestTyped

\* A step of one thread that changes no table but the states of jobs.
LEMMA LocalStep == ASSUME IInv, NEW p \in Procs, LocalTyped, Alone(p), JobsMoved, RowsKept, RestTyped, fresh' = fresh,
                          Knows(p)', Holds(p)' => Holds(p) /\ tok'[p] = tok[p]
                   PROVE  IInv'
<1>1. TypeOK'
  BY DEF IInv, TypeOK, LocalTyped, JobsMoved, RowsKept, RestTyped
<1>2. Threads' /\ \A k : Spent(k) => Spent(k)'
  BY ThreadsKept, GrowsKept DEF IInv
<1>3. Tables'
  BY <1>2, TablesKept DEF IInv
<1> QED
  BY <1>1, <1>2, <1>3 DEF IInv

\* A request that ends without an effect: every refusal and failure.
LEMMA EndStep == ASSUME IInv, NEW p \in Procs, LocalTyped, Alone(p), at'[p] = "idle", JobsMoved, RowsKept, RestTyped,
                        fresh' = fresh
                 PROVE  IInv'
  BY IdleKnows, LocalStep

\* What the invariant says of a worker at work.
LEMMA AtStep == ASSUME IInv, NEW p \in Procs
                PROVE  /\ TypeOK /\ Knows(p) /\ mode.durable \in BOOLEAN
                       /\ at[p] # "idle" => /\ req[p] \in Attempts /\ req[p].source \in Sources /\ Id(req[p]) \in Ids
                                            /\ Id(req[p])[1] = req[p].source
                       /\ mode.durable /\ at[p] \in Placing \cup {"token", "secret", "ready", "attest", "lookup",
                                                                 "reguard", "insert"}
                             => jobs[req[p].source] # None /\ jobs[req[p].source].attempt = req[p]
<1>1. TypeOK /\ Knows(p) /\ mode.durable \in BOOLEAN
  BY ModeFields DEF IInv, Threads, TypeOK
<1> QED
  BY <1>1, AttemptFields DEF Knows, Requested, Bound, Staged

-----------------------------------------------------------------------------
(* Steps that change no table but the states of jobs.                       *)

\* The connection test, its hand-offs and other users of NetBox touch nothing a
\* thread or a table relies on.
LEMMA QuietStep == ASSUME IInv, RestTyped,
                          UNCHANGED <<mode, held, reserved, intents, registry, jobs, files, journal, catalog, made, wire,
                                      at, req, tok, own, fresh>>
                   PROVE  IInv'
<1>1. LocalTyped /\ Alone(Cont) /\ JobsMoved /\ RowsKept /\ Cont \in Procs
  BY JobsSame DEF IInv, TypeOK, LocalTyped, Alone, RowsKept, Procs
<1>2. Knows(Cont)'
  BY <1>1, GrowsKept, KnowsKept DEF IInv, Threads
<1>3. Holds(Cont)' => Holds(Cont) /\ tok'[Cont] = tok[Cont]
  BY DEF Holds
<1> QED
  BY <1>1, <1>2, <1>3, LocalStep

\* The test of a connection issues a token.
LEMMA ConnectionTestStep == ASSUME IInv, NEW a \in mode.attempts, NEW v \in Values, NEW t \in Tokens,
                                   ConnectionTest(a, v, t)
                            PROVE  IInv'
<1>1. a \in Attempts
  BY ModeFields DEF IInv, TypeOK
<1>2. PICK b \in Ids \cup {None} : tokens' = [tokens EXCEPT ![t] = [actor |-> a.actor, host |-> a.host, value |-> v,
                                                             esxi |-> a.source \in Esxi, bound |-> b]]
  BY <1>1, AttemptFields DEF ConnectionTest
<1>3. [actor |-> a.actor, host |-> a.host, value |-> v, esxi |-> a.source \in Esxi, bound |-> b] \in Handoff
  BY <1>1, AttemptFields, SMTT(30) DEF Handoff
<1>4. RestTyped
  BY <1>2, <1>3 DEF RestTyped, IInv, TypeOK, ConnectionTest, netbox
<1> QED
  BY <1>4, QuietStep DEF ConnectionTest, netbox, store

\* A token is discarded.
LEMMA DiscardStep == ASSUME IInv, NEW t \in Tokens, Discard(t) PROVE IInv'
<1>1. RestTyped
  BY DEF RestTyped, IInv, TypeOK, Discard, netbox
<1> QED
  BY <1>1, QuietStep DEF Discard, netbox, store

\* Somebody else's cluster changes.
LEMMA ForeignClusterStep == ASSUME IInv, NEW n \in Names, ForeignCluster(n) PROVE IInv'
<1>1. RestTyped
  BY DEF RestTyped, IInv, TypeOK, ForeignCluster
<1> QED
  BY <1>1, QuietStep DEF ForeignCluster, store

\* A registration is submitted.
LEMMA SubmitStep == ASSUME IInv, NEW w \in Procs, NEW a \in mode.attempts, NEW t \in Tokens, Submit(w, a, t)
                    PROVE  IInv'
<1>0. TypeOK /\ a \in Attempts /\ a.source \in Sources /\ mode.durable \in BOOLEAN
  BY ModeFields, AttemptFields DEF IInv, TypeOK
<1>1. PICK l \in {"admit", "attest"} : /\ Goto(w, l)
                                       /\ l = "attest" => jobs[a.source] # None
  BY DEF Submit
<1>2. LocalTyped /\ Alone(w)
  BY <1>0, <1>1 DEF Submit, Goto, LocalTyped, Alone, TypeOK, Places
<1>3. at'[w] = l /\ req'[w] = a /\ tok'[w] = t
  BY <1>0, <1>1 DEF Submit, Goto, TypeOK
<1>4. l = "attest" => mode.durable /\ jobs[a.source].attempt = a
  BY <1>0, <1>1 DEF Submit, IInv, Tables, JobIs
<1>5. JobsMoved /\ RowsKept /\ RestTyped /\ fresh' = fresh
  BY <1>0, JobsSame, RestSame DEF Submit, RowsKept, store, netbox
<1>6. Knows(w)' /\ ~Holds(w)'
  BY <1>0, <1>1, <1>3, <1>4, <1>5 DEF Knows, Requested, Cleared, Bound, Staged, Creator, Handed, Written, Holds,
     Placing, Direct, RowsKept, Submit
<1> QED
  BY <1>2, <1>5, <1>6, LocalStep

\* What a guard that does not refuse has read.
LEMMA GuardCleared == ASSUME NEW p \in Procs, req[p].source \in Esxi, GuardRefusal(p) = None
                      PROVE  Claims(req[p].source, req[p]) /\ existing(req[p].host) = {} /\ intents[req[p].source] = req[p]
  BY NoneIs DEF GuardRefusal, Refusals

\* The guard of the namespace.
LEMMA GuardStep == ASSUME IInv, NEW w \in Procs, Guard(w) PROVE IInv'
<1>0. TypeOK /\ JobsMoved /\ RowsKept /\ RestTyped /\ fresh' = fresh
  BY JobsSame, RestSame DEF IInv, Guard, RowsKept, store, netbox
<1>1. CASE Leave(w)
  BY <1>0, <1>1, LeaveEffect, EndStep
<1>2. CASE TakeGuard(w, IF mode.durable THEN "begin" ELSE "resolve")
  <2>1. PICK l \in {"begin", "resolve"} : TakeGuard(w, l) /\ (l = "begin" <=> mode.durable)
    BY <1>2
  <2>2. LocalTyped /\ Alone(w) /\ at'[w] = l /\ UNCHANGED <<req, tok, own>>
    BY <1>0, <2>1, TakeGuardEffect DEF Places
  <2>3. Knows(w)' /\ ~Holds(w)'
    BY <1>0, <2>1, <2>2, AtStep DEF Knows, Requested, Cleared, Bound, Staged, Creator, Handed, Written, Holds,
       Placing, Direct, RowsKept, Guard
  <2> QED
    BY <1>0, <2>2, <2>3, LocalStep
<1> QED
  BY <1>1, <1>2 DEF Guard

\* The staged job becomes READY.
LEMMA ReadyStep == ASSUME IInv, NEW w \in Procs, Ready(w) PROVE IInv'
<1>0. /\ at[w] = "ready" /\ TypeOK /\ Knows(w) /\ mode.durable
      /\ req[w] \in Attempts /\ req[w].source \in Sources
      /\ jobs[req[w].source] # None /\ jobs[req[w].source].attempt = req[w]
  BY AtStep DEF Ready, Knows, Requested
<1>1. JobsMoved /\ RowsKept /\ RestTyped /\ fresh' = fresh
  BY <1>0, MarkMoves, RestSame DEF Ready, RowsKept, store, netbox
<1>2. LocalTyped /\ Alone(w) /\ at'[w] = "attest" /\ req' = req
  BY <1>0 DEF Ready, Goto, LocalTyped, Alone, TypeOK, Places
<1>3. jobs'[req[w].source] # None /\ jobs'[req[w].source].attempt = req[w]
  BY <1>0, <1>1 DEF JobsMoved
<1>4. Knows(w)' /\ ~Holds(w)'
  BY <1>0, <1>1, <1>2, <1>3 DEF Knows, Requested, Cleared, Bound, Staged, Creator, Handed, Written, Holds,
     Placing, Direct, RowsKept
<1> QED
  BY <1>1, <1>2, <1>4, LocalStep

\* The continuation attests its host.
LEMMA AttestStep == ASSUME IInv, NEW p \in Procs, Attest(p) PROVE IInv'
<1>0. /\ at[p] = "attest" /\ TypeOK /\ Knows(p) /\ mode.durable
      /\ req[p] \in Attempts /\ req[p].source \in Sources /\ Id(req[p]) \in Ids
      /\ jobs[req[p].source] # None /\ jobs[req[p].source].attempt = req[p]
  BY AtStep DEF Attest, Knows, Requested
<1>1. RowsKept /\ RestTyped /\ fresh' = fresh
  BY <1>0, RestSame DEF Attest, RowsKept, store, netbox
<1>2. CASE verify_staged(Id(req[p]))
  <2>1. LocalTyped /\ Alone(p) /\ at'[p] = "lookup" /\ UNCHANGED <<req, tok, own>> /\ JobsMoved
    BY <1>0, <1>2, GoEffect, JobsSame DEF Attest, Places
  <2>2. \A k \in references(Id(req[p])) : Whole(k)
    BY <1>0, <1>2, ReferenceKeys DEF verify_staged, Whole
  <2>3. Knows(p)' /\ ~Holds(p)'
    BY <1>0, <1>1, <1>2, <2>1, <2>2 DEF Knows, Requested, Cleared, Bound, Staged, Creator, Handed, Written, Holds,
       Placing, Direct, RowsKept, Attest, Whole
  <2> QED
    BY <1>1, <2>1, <2>3, LocalStep
<1>3. CASE ~verify_staged(Id(req[p]))
  BY <1>0, <1>1, <1>3, MarkMoves, LeaveEffect, EndStep DEF Attest
<1> QED
  BY <1>2, <1>3

\* The continuation looks up the row.
LEMMA LookupStep == ASSUME IInv, NEW p \in Procs, Lookup(p) PROVE IInv'
<1>0. /\ at[p] = "lookup" /\ TypeOK /\ Knows(p) /\ mode.durable
      /\ req[p] \in Attempts /\ req[p].source \in Sources
      /\ jobs[req[p].source] # None /\ jobs[req[p].source].attempt = req[p]
  BY AtStep DEF Lookup, Knows, Requested
<1>1. RowsKept /\ RestTyped /\ fresh' = fresh
  BY <1>0, RestSame DEF Lookup, RowsKept, store, netbox
<1>2. CASE ~Registered(req[p].source)
  <2>1. LocalTyped /\ Alone(p) /\ at'[p] = "reguard" /\ UNCHANGED <<req, tok, own, jobs>> /\ JobsMoved
    BY <1>0, <1>2, GoEffect, JobsSame DEF Lookup, Places
  <2>2. Knows(p)' /\ ~Holds(p)'
    BY <1>0, <1>1, <2>1 DEF Knows, Requested, Cleared, Bound, Staged, Creator, Handed, Written, Holds,
       Placing, Direct, RowsKept, Whole
  <2> QED
    BY <1>1, <2>1, <2>2, LocalStep
<1>3. CASE Registered(req[p].source)
  <2>1. LocalTyped /\ Alone(p) /\ at'[p] = "idle"
    BY <1>0, <1>3, LeaveEffect DEF Lookup
  <2>2. PICK st \in {"COMPLETED", "BLOCKED"} :
            /\ mark(req[p].source, st)
            /\ st = "COMPLETED" => registry[req[p].source].refs = references(Id(req[p]))
    BY <1>3 DEF Lookup
  <2>3. JobsMoved
    <3>0. PICK s \in Sources : s = req[p].source
      BY <1>0
    <3>1. /\ jobs' \in [Sources -> JobRow \cup {None}]
          /\ jobs'[s] # None /\ jobs'[s].attempt = req[p] /\ jobs'[s].state = st
          /\ \A r \in Sources \ {s} : jobs'[r] = jobs[r]
      BY <1>0, <2>2, <3>0, MarkEffect
    <3>2. st = "COMPLETED" => Outcome(s)'
      BY <1>1, <1>3, <2>2, <3>0, <3>1 DEF Outcome, Registered, RowsKept
    <3> QED
      BY <1>0, <3>0, <3>1, <3>2 DEF JobsMoved
  <2> QED
    BY <1>1, <2>1, <2>3, EndStep
<1> QED
  BY <1>2, <1>3

\* The staged job passes the guard again.
LEMMA ReguardStep == ASSUME IInv, NEW p \in Procs, Reguard(p) PROVE IInv'
<1>0. /\ at[p] = "reguard" /\ TypeOK /\ Knows(p) /\ mode.durable
      /\ req[p] \in Attempts /\ req[p].source \in Sources
      /\ jobs[req[p].source] # None /\ jobs[req[p].source].attempt = req[p]
  BY AtStep DEF Reguard, Knows, Requested
<1>1. RowsKept /\ RestTyped /\ fresh' = fresh
  BY <1>0, RestSame DEF Reguard, RowsKept, store, netbox
<1>2. CASE req[p].source \notin Closed /\ GuardRefusal(p) = None
  <2>1. LocalTyped /\ Alone(p) /\ at'[p] = "resolve" /\ UNCHANGED <<req, tok, own, jobs>> /\ JobsMoved
    BY <1>0, <1>2, TakeGuardEffect, JobsSame DEF Reguard, Places
  <2>2. Knows(p)' /\ ~Holds(p)'
    BY <1>0, <1>1, <1>2, <2>1, GuardCleared DEF Knows, Requested, Cleared, Bound, Staged, Creator, Handed, Written, Holds,
       Placing, Direct, RowsKept, Whole
  <2> QED
    BY <1>1, <2>1, <2>2, LocalStep
<1>3. CASE ~(req[p].source \notin Closed /\ GuardRefusal(p) = None)
  <2>1. PICK code : Fail(p, code)
    BY <1>3 DEF Reguard
  <2> QED
    BY <1>0, <1>1, <2>1, FailEffect, EndStep
<1> QED
  BY <1>2, <1>3

\* The call of the child is given up.
LEMMA GiveUpStep == ASSUME IInv, NEW p \in Procs, GiveUp(p) PROVE IInv'
<1>0. at[p] = "child" /\ TypeOK /\ Fail(p, "UNCERTAIN") /\ (mode.durable => req[p] \in Attempts /\ jobs[req[p].source] # None)
  BY AtStep DEF GiveUp, Placing
<1>1. RowsKept /\ RestTyped /\ fresh' = fresh
  BY <1>0, RestSame DEF GiveUp, RowsKept, store, netbox
<1> QED
  BY <1>0, <1>1, FailEffect, EndStep

\* The catalogue is validated.
LEMMA ValidateStep == ASSUME IInv, NEW p \in Procs, Validate(p) PROVE IInv'
<1>0. /\ at[p] = "validate" /\ TypeOK /\ Knows(p) /\ mode.durable \in BOOLEAN
      /\ req[p] \in Attempts /\ req[p].source \in Sources
      /\ mode.durable => jobs[req[p].source] # None /\ jobs[req[p].source].attempt = req[p]
  BY AtStep DEF Validate, Placing
<1>1. RowsKept /\ RestTyped /\ fresh' = fresh
  BY <1>0, RestSame DEF Validate, RowsKept, store, netbox
<1>2. CASE Fail(p, "CLUSTER_REVIEW_REQUIRED")
  BY <1>0, <1>1, <1>2, FailEffect, EndStep
<1>3. CASE Go(p, IF mode.durable THEN "insert" ELSE "consume") /\ UNCHANGED jobs
  <2>1. PICK l \in {"insert", "consume"} : Go(p, l) /\ (l = "insert" <=> mode.durable)
    BY <1>3
  <2>2. LocalTyped /\ Alone(p) /\ at'[p] = l /\ UNCHANGED <<req, tok, own>> /\ JobsMoved
    BY <1>0, <1>3, <2>1, GoEffect, JobsSame DEF Places
  <2>3. Knows(p)' /\ ~Holds(p)'
    BY <1>0, <1>1, <1>3, <2>1, <2>2 DEF Knows, Requested, Cleared, Bound, Staged, Creator, Handed, Written, Holds,
       Placing, Direct, RowsKept, Whole
  <2> QED
    BY <1>1, <2>2, <2>3, LocalStep
<1> QED
  BY <1>2, <1>3 DEF Validate

\* The timer continues a job.
LEMMA ContinueStep == ASSUME IInv, Continue PROVE IInv'
<1>0. TypeOK /\ Cont \in Procs /\ at[Cont] = "idle" /\ mode.durable
  BY DEF IInv, Continue, Procs
<1>1. PICK s \in Sources : /\ pending(s) /\ cursor' = Opn(s)
                           /\ \/ /\ Goto(Cont, "attest")
                                 /\ held' = [held EXCEPT ![Cont] = {"job"}]
                                 /\ req' = [req EXCEPT ![Cont] = jobs[s].attempt]
                                 /\ UNCHANGED tok
                              \/ UNCHANGED <<at, held, req, tok>>
  BY DEF Continue
<1>2. jobs[s] \in JobRow /\ jobs[s].attempt \in Attempts /\ jobs[s].attempt.source = s /\ jobs[s] # None
  BY <1>0, <1>1 DEF pending, PendingJobs, TypeOK, JobRow, IInv, Tables, JobIs
<1>3. JobsMoved /\ RowsKept /\ RestTyped /\ fresh' = fresh
  BY <1>0, <1>1, <1>2, JobsSame DEF Continue, RowsKept, store, netbox, RestTyped, TypeOK, Opn
<1>4. CASE UNCHANGED <<at, held, req, tok>>
  BY <1>3, <1>4, QuietStep DEF Continue, store, netbox
<1>5. CASE Goto(Cont, "attest") /\ req' = [req EXCEPT ![Cont] = jobs[s].attempt] /\ UNCHANGED tok
           /\ held' = [held EXCEPT ![Cont] = {"job"}]
  <2>1. LocalTyped /\ Alone(Cont) /\ at'[Cont] = "attest" /\ req'[Cont] = jobs[s].attempt
    BY <1>0, <1>2, <1>5 DEF Continue, Goto, LocalTyped, Alone, TypeOK, Places
  <2>2. Knows(Cont)' /\ ~Holds(Cont)'
    BY <1>0, <1>2, <1>3, <2>1 DEF Knows, Requested, Cleared, Bound, Staged, Creator, Handed, Written, Holds,
       Placing, Direct, RowsKept, Continue
  <2> QED
    BY <1>0, <1>3, <2>1, <2>2, LocalStep
<1> QED
  BY <1>1, <1>4, <1>5

\* The death of the API and a failover of the database.
LEMMA CrashStep == ASSUME IInv, Crash PROVE IInv'
<1>0. TypeOK /\ faults' \in 0..MaxFaults
  <2>1. TypeOK /\ faults \in 0..MaxFaults
    BY DEF IInv, TypeOK
  <2> QED
    BY <2>1, Bounds, SMTT(30) DEF Crash, Fault
<1>1. TypeOK'
  BY <1>0 DEF TypeOK, Crash, Places, store, netbox
<1>2. \A p \in Procs : at'[p] = "idle"
  BY DEF Crash
<1>3. Threads' /\ \A k : Spent(k) => Spent(k)'
  BY <1>2, IdleKnows DEF Threads, Apart, Spent, Crash
<1>4. JobsMoved /\ RowsKept
  BY JobsSame DEF IInv, Crash, RowsKept, store, netbox
<1> QED
  BY <1>1, <1>3, <1>4, TablesKept DEF IInv

\* The database drops its sessions.
LEMMA DropSessionsStep == ASSUME IInv, DropSessions PROVE IInv'
<1>0. TypeOK /\ Cont \in Procs
  BY DEF IInv, Procs
<1>1. LocalTyped /\ Alone(Cont) /\ JobsMoved /\ RowsKept /\ RestTyped /\ fresh' = fresh
  BY <1>0, JobsSame, RestSame DEF DropSessions, TypeOK, LocalTyped, Alone, RowsKept, store, netbox
<1>2. UNCHANGED <<at, req, tok, own>>
  BY DEF DropSessions
<1>3. Knows(Cont)' /\ (Holds(Cont)' => Holds(Cont) /\ tok'[Cont] = tok[Cont])
  BY <1>0, <1>1, <1>2, GrowsKept, KnowsKept DEF IInv, Threads, Holds
<1> QED
  BY <1>0, <1>1, <1>3, LocalStep

-----------------------------------------------------------------------------
(* The reservation with its intent, and the job.                            *)

\* The reservation and the intent keep the tables.
LEMMA AdmitTables == ASSUME IInv, NEW a \in Attempts, a.source \in Esxi, ~Registered(a.source),
                            existing(a.host) = {}, ~ClaimedByOther(a),
                            reserved[a.source] = None \/ Claims(a.source, a), intents[a.source] \in {None, a},
                            reserved' = [reserved EXCEPT ![a.source] = [host |-> a.host, id |-> Id(a)]],
                            intents' = [intents EXCEPT ![a.source] = a],
                            UNCHANGED <<mode, registry, jobs, files, journal, catalog, made, wire>>,
                            \A k : Spent(k) => Spent(k)'
                     PROVE  Tables' /\ intents'[a.source] = a
<1>0. TypeOK /\ a.source \in Sources /\ Id(a) \in Ids /\ Id(a)[1] = a.source /\ a # None /\ a.host \in Hosts
  BY AttemptFields DEF IInv
<1>1. /\ \A s \in Sources : reserved'[s] = IF s = a.source THEN [host |-> a.host, id |-> Id(a)] ELSE reserved[s]
      /\ \A s \in Sources : intents'[s] = IF s = a.source THEN a ELSE intents[s]
  BY <1>0 DEF TypeOK
<1>2. [host |-> a.host, id |-> Id(a)] # None
  BY <1>0, NoneIs, SMTT(30) DEF Claiming
<1>3. ASSUME NEW s \in Sources PROVE (Claim(s) /\ JobIs(s) /\ RowIs(s))'
  <2>1. Claim(s) /\ JobIs(s) /\ RowIs(s)
    BY DEF IInv, Tables
  <2>2. Claim(s)'
    BY <1>0, <1>1, <2>1, SMTT(30) DEF Claim
  <2>3. RowIs(s)'
    <3>1. CASE s = a.source
      BY <2>1, <3>1 DEF RowIs, Registered
    <3>2. CASE s # a.source
      BY <1>1, <2>1, <3>2 DEF RowIs
    <3> QED
      BY <3>1, <3>2
  <2> QED
    BY <2>1, <2>2, <2>3 DEF JobIs
<1>4. RowsWhole' /\ NetIs' /\ CompletedIsRegistered' /\ ClusterOnce'
  BY DEF IInv, Tables, RowsWhole, Whole, NetIs, CompletedIsRegistered, Registered, ClusterOnce
<1>5. EffectsClaimed'
  <2>1. SUFFICES ASSUME NEW i \in Ids, i[1] \in Esxi, files[<<i, "secret">>] # NoFile \/ journal[i] # None \/ made[i] > 0
                 PROVE  /\ reserved'[i[1]] # None /\ reserved'[i[1]].id = i
                        /\ intents'[i[1]] # None /\ Id(intents'[i[1]]) = i
    BY DEF EffectsClaimed
  <2>2. /\ reserved[i[1]] # None /\ reserved[i[1]].id = i
        /\ intents[i[1]] # None /\ Id(intents[i[1]]) = i
    BY <2>1 DEF IInv, Tables, ClaimedFirst, EffectsClaimed
  <2>3. i[1] \in Sources
    BY <2>1, EsxiSources
  <2>4. CASE i[1] = a.source
    BY <1>0, <1>1, <1>2, <2>2, <2>3, <2>4, SMTT(30) DEF Claims
  <2>5. CASE i[1] # a.source
    BY <1>1, <2>2, <2>3, <2>5
  <2> QED
    BY <2>4, <2>5
<1>6. OneClaim'
  <2>1. SUFFICES ASSUME NEW h \in Hosts, NEW s \in Claimants(h)', NEW t \in Claimants(h)' PROVE s = t
    BY DEF OneClaim
  <2>2. existing(h)' = existing(h)
    BY DEF existing, Registered, registration_anchor
  <2>3. CASE h = a.host
    <3>1. ASSUME NEW r \in Claimants(h)' PROVE r = a.source
      <4>1. r \in Sources /\ reserved'[r] # None /\ reserved'[r].host = h
        BY <2>2, <2>3, <3>1 DEF Claimants
      <4>2. CASE r # a.source
        <5>1. reserved[r] # None /\ reserved[r].host = a.host /\ reserved[r].id = Id(a)
          BY <1>1, <2>3, <4>1, <4>2 DEF ClaimedByOther
        <5>2. intents[r] # None /\ intents[r].source = r /\ reserved[r].id = Id(intents[r]) /\ intents[r] \in Attempts
          <6>1. Claim(r) /\ intents[r] \in Attempts \cup {None}
            BY <1>0, <4>1 DEF IInv, Tables, TypeOK
          <6>2. intents[r] # None
            BY <5>1, <6>1 DEF Claim
          <6> QED
            BY <6>1, <6>2, SMTT(30) DEF Claim
        <5> QED
          BY <4>2, <5>1, <5>2, SameId
      <4> QED
        BY <4>2
    <3> QED
      BY <3>1
  <2>4. CASE h # a.host
    <3>1. ASSUME NEW r \in Claimants(h)' PROVE r \in Claimants(h)
      BY <1>1, <2>2, <2>4, <3>1, SMTT(30) DEF Claimants
    <3> QED
      BY <2>1, <3>1 DEF IInv, Tables, ClaimedFirst, OneClaim
  <2> QED
    BY <2>3, <2>4
<1> QED
  BY <1>0, <1>1, <1>3, <1>4, <1>5, <1>6 DEF Tables, ClaimedFirst

\* The admission of an attempt.
LEMMA AdmitStep == ASSUME IInv, NEW w \in Procs, Admit(w) PROVE IInv'
<1>0. /\ at[w] = "admit" /\ TypeOK /\ Knows(w) /\ req[w] \in Attempts /\ req[w].source \in Sources
      /\ RestTyped /\ fresh' = fresh /\ JobsMoved /\ UNCHANGED <<mode, jobs, registry, files, journal, catalog, made, wire>>
  BY AtStep, RestSame, JobsSame DEF Admit, netbox
<1>1. CASE Leave(w) /\ UNCHANGED <<reserved, intents>>
  BY <1>0, <1>1, LeaveEffect, EndStep DEF RowsKept
<1>2. CASE /\ check_registration(w) /\ req[w].source \notin Closed /\ reserve(w) /\ Goto(w, "guard")
           /\ held' = [held EXCEPT ![w] = @ \cup {"admission"}] /\ UNCHANGED <<req, tok, own>>
           /\ IF req[w].source \in Esxi
              THEN /\ reserved' = [reserved EXCEPT ![req[w].source] = [host |-> req[w].host, id |-> Id(req[w])]]
                   /\ intents' = [intents EXCEPT ![req[w].source] = req[w]]
              ELSE UNCHANGED <<reserved, intents>>
  <2>1. LocalTyped /\ Alone(w) /\ at'[w] = "guard"
    BY <1>0, <1>2 DEF Goto, LocalTyped, Alone, TypeOK, Places
  <2>2. tok[w] \in Tokens
    BY <1>0 DEF Knows, Handed
  <2>3. ~Holds(w)'
    BY <2>1 DEF Holds, Direct
  <2>4. ASSUME req[w].source \in Esxi => intents'[req[w].source] = req[w] PROVE Knows(w)'
    BY <1>0, <1>2, <2>1, <2>2, <2>4 DEF Knows, Requested, Cleared, Bound, Staged, Creator, Handed, Written, Placing, Direct
  <2>5. CASE req[w].source \notin Esxi
    <3>1. RowsKept
      BY <1>0, <1>2, <2>5 DEF RowsKept
    <3> QED
      BY <1>0, <2>1, <2>3, <2>4, <2>5, <3>1, LocalStep
  <2>6. CASE req[w].source \in Esxi
    <3>1. /\ reserved' = [reserved EXCEPT ![req[w].source] = [host |-> req[w].host, id |-> Id(req[w])]]
          /\ intents' = [intents EXCEPT ![req[w].source] = req[w]]
          /\ existing(req[w].host) = {} /\ ~ClaimedByOther(req[w])
          /\ reserved[req[w].source] = None \/ Claims(req[w].source, req[w])
          /\ intents[req[w].source] \in {None, req[w]}
          /\ ~Registered(req[w].source)
      BY <1>2, <2>6 DEF reserve, check_registration
    <3>2. \A k : Spent(k) => Spent(k)'
      BY <1>0, <2>1, <2>3, ApartKept DEF IInv, Threads
    <3>3. Tables' /\ intents'[req[w].source] = req[w]
      BY <1>0, <2>6, <3>1, <3>2, AdmitTables
    <3>4. Grows
      BY <1>0, <3>1, FreshFact, SMTT(30) DEF Grows
    <3>5. \A q \in Procs : Keeps(q)
      BY <1>0 DEF Keeps, Whole
    <3>6. Threads'
      BY <1>0, <2>1, <2>3, <2>4, <3>3, <3>4, <3>5, ThreadsKept DEF IInv
    <3>7. [host |-> req[w].host, id |-> Id(req[w])] \in Claiming
      BY <1>0, AttemptFields DEF Claiming
    <3>8. reserved' \in [Sources -> Claiming \cup {None}] /\ intents' \in [Sources -> Attempts \cup {None}]
      BY <1>0, <3>1, <3>7 DEF TypeOK
    <3>9. TypeOK'
      BY <1>0, <2>1, <3>8 DEF TypeOK, LocalTyped, RestTyped
    <3> QED
      BY <3>3, <3>6, <3>9 DEF IInv
  <2> QED
    BY <2>5, <2>6
<1> QED
  BY <1>1, <1>2 DEF Admit

\* The job begins.
LEMMA BeginStep == ASSUME IInv, NEW w \in Procs, Begin(w) PROVE IInv'
<1>0. /\ at[w] = "begin" /\ TypeOK /\ Knows(w) /\ mode.durable /\ req[w] \in Attempts /\ req[w].source \in Sources
      /\ tok[w] \in Tokens /\ UNCHANGED <<mode, reserved, intents, registry, files, journal, catalog, made, wire>>
      /\ UNCHANGED <<foreign, cursor, fresh, faults>>
  BY AtStep DEF Begin, netbox, store, Knows, Requested, Handed
<1>1. CASE tokens[tok[w]] = None
  <2>1. RestTyped /\ JobsMoved /\ RowsKept /\ Leave(w)
    BY <1>0, <1>1, RestSame, JobsSame DEF Begin, RowsKept
  <2> QED
    BY <1>0, <2>1, LeaveEffect, EndStep
<1>2. CASE tokens[tok[w]] # None
  <2>0. tokens[tok[w]] \in Handoff /\ tokens[tok[w]].value \in Values
    BY <1>0, <1>2 DEF TypeOK, Handoff
  <2>1. RestTyped
    BY <1>0, <1>2 DEF Begin, RestTyped, TypeOK
  <2>2. \/ UNCHANGED jobs
        \/ /\ jobs[req[w].source] = None
           /\ jobs' = [jobs EXCEPT ![req[w].source] = [attempt |-> req[w], state |-> "STAGING"]]
    BY <1>2 DEF Begin
  <2>3. /\ LocalTyped /\ Alone(w) /\ ~Holds(w)' /\ at'[w] \in {"idle", "secret", "token"}
        /\ at'[w] # "idle" => /\ UNCHANGED <<req, own>> /\ tok'[w] \in Values
                              /\ at'[w] = "token" => req[w].source \notin Esxi
                              /\ jobs'[req[w].source] # None /\ jobs'[req[w].source].attempt = req[w]
    <3>1. CASE Leave(w)
      BY <1>0, <3>1, LeaveEffect DEF Holds, Direct
    <3>2. CASE ~Leave(w)
      <4>1. PICK l \in {"secret", "token"} : /\ Goto(w, l) /\ (l = "token" => req[w].source \notin Esxi)
                                             /\ tok' = [tok EXCEPT ![w] = tokens[tok[w]].value]
                                             /\ UNCHANGED <<held, req, own>>
                                             /\ jobs'[req[w].source] # None /\ jobs'[req[w].source].attempt = req[w]
        BY <1>2, <3>2 DEF Begin
      <4> QED
        BY <1>0, <2>0, <4>1 DEF Goto, LocalTyped, Alone, TypeOK, Places, Holds, Direct
    <3> QED
      BY <3>1, <3>2
  <2>4. Knows(w)'
    <3>1. CASE at'[w] = "idle"
      BY <3>1, IdleKnows
    <3>2. CASE at'[w] # "idle"
      BY <1>0, <2>3, <3>2 DEF Knows, Requested, Cleared, Bound, Staged, Creator, Handed, Written, Placing, Direct
    <3> QED
      BY <3>1, <3>2
  <2>5. CASE UNCHANGED jobs
    BY <1>0, <2>1, <2>3, <2>4, <2>5, JobsSame, LocalStep DEF RowsKept
  <2>6. CASE /\ jobs[req[w].source] = None
             /\ jobs' = [jobs EXCEPT ![req[w].source] = [attempt |-> req[w], state |-> "STAGING"]]
    <3>0. PICK s \in Sources, a \in Attempts : s = req[w].source /\ a = req[w]
      BY <1>0
    <3>1. [attempt |-> a, state |-> "STAGING"] \in JobRow
      BY DEF JobRow
    <3>2. /\ jobs' \in [Sources -> JobRow \cup {None}]
          /\ jobs'[s] = [attempt |-> a, state |-> "STAGING"]
          /\ \A r \in Sources \ {s} : jobs'[r] = jobs[r]
      BY <1>0, <2>6, <3>0, <3>1 DEF TypeOK
    <3>3. Grows
      BY <1>0, <2>6, <3>0, <3>2, FreshFact, SMTT(30) DEF Grows
    <3>4. Threads' /\ \A k : Spent(k) => Spent(k)'
      BY <1>0, <2>3, <2>4, <3>3, ThreadsKept DEF IInv, Keeps, Whole
    <3>5. ASSUME NEW r \in Sources PROVE (Claim(r) /\ JobIs(r) /\ RowIs(r))'
      <4>1. Claim(r) /\ JobIs(r) /\ RowIs(r)
        BY DEF IInv, Tables
      <4>2. CASE r = s
        BY <1>0, <2>6, <3>0, <3>2, <4>1, <4>2 DEF Claim, JobIs, RowIs
      <4>3. CASE r # s
        BY <1>0, <3>2, <4>1, <4>3 DEF Claim, JobIs, RowIs
      <4> QED
        BY <4>2, <4>3
    <3>6. CompletedIsRegistered'
      <4>1. ASSUME NEW r \in Sources, jobs'[r].state = "COMPLETED" PROVE jobs'[r] = jobs[r]
        BY <3>2, <4>1, SMTT(30)
      <4>2. CompletedIsRegistered
        BY DEF IInv, Tables
      <4> QED
        BY <1>0, <4>1, <4>2 DEF CompletedIsRegistered, Registered
    <3>7. RowsWhole' /\ NetIs' /\ ClusterOnce' /\ ClaimedFirst'
      <4>1. RowsWhole'
        BY <1>0, <3>4 DEF IInv, Tables, RowsWhole, Whole
      <4>2. NetIs' /\ ClusterOnce'
        BY <1>0 DEF IInv, Tables, NetIs, ClusterOnce
      <4>3. ClaimedFirst'
        BY <1>0, SMTT(30) DEF IInv, Tables, ClaimedFirst, OneClaim, EffectsClaimed, Claimants, existing, Registered,
           registration_anchor
      <4> QED
        BY <4>1, <4>2, <4>3
    <3>8. TypeOK'
      BY <1>0, <2>1, <2>3, <3>2 DEF TypeOK, LocalTyped, RestTyped
    <3> QED
      BY <3>4, <3>5, <3>6, <3>7, <3>8 DEF IInv, Tables
  <2> QED
    BY <2>2, <2>5, <2>6
<1> QED
  BY <1>1, <1>2

-----------------------------------------------------------------------------
(* The broker's files.                                                      *)

\* A file may come for a claimed operation, and none goes that a row refers to.
LEMMA FilesTables == ASSUME IInv, UNCHANGED <<mode, reserved, intents, jobs, registry, journal, catalog, made, wire>>,
                            \A k : Spent(k) => Spent(k)',
                            \A k \in Keys : Whole(k) /\ Spent(k) => Whole(k)',
                            \A i \in Ids : i[1] \in Esxi /\ files[<<i, "secret">>] = NoFile /\ files'[<<i, "secret">>] # NoFile
                                              => intents[i[1]] # None /\ Id(intents[i[1]]) = i
                     PROVE  Tables'
<1>0. TypeOK
  BY DEF IInv
<1>1. ASSUME NEW s \in Sources PROVE (Claim(s) /\ JobIs(s) /\ RowIs(s))'
  <2>1. Claim(s) /\ JobIs(s) /\ RowIs(s)
    BY DEF IInv, Tables
  <2>2. (Claim(s) /\ JobIs(s))'
    BY <2>1 DEF Claim, JobIs
  <2>3. RowIs(s)'
    BY <2>1 DEF RowIs
  <2> QED
    BY <2>2, <2>3
<1>2. RowsWhole'
  <2>1. ASSUME NEW s \in Sources PROVE registry[s].refs \subseteq Keys
    BY <1>0 DEF TypeOK, Row
  <2> QED
    BY <2>1 DEF IInv, Tables, RowsWhole
<1>3. NetIs' /\ CompletedIsRegistered' /\ ClusterOnce'
  BY DEF IInv, Tables, NetIs, CompletedIsRegistered, Registered, ClusterOnce
<1>4. OneClaim'
  BY DEF IInv, Tables, ClaimedFirst, OneClaim, Claimants, existing, Registered, registration_anchor
<1>5. EffectsClaimed'
  <2>1. SUFFICES ASSUME NEW i \in Ids, i[1] \in Esxi, files'[<<i, "secret">>] # NoFile \/ journal[i] # None \/ made[i] > 0
                 PROVE  /\ reserved[i[1]] # None /\ reserved[i[1]].id = i
                        /\ intents[i[1]] # None /\ Id(intents[i[1]]) = i
    BY DEF EffectsClaimed
  <2>2. CASE files[<<i, "secret">>] # NoFile \/ journal[i] # None \/ made[i] > 0
    BY <2>1, <2>2 DEF IInv, Tables, ClaimedFirst, EffectsClaimed
  <2>3. CASE files[<<i, "secret">>] = NoFile /\ files'[<<i, "secret">>] # NoFile
    <3>1. intents[i[1]] # None /\ Id(intents[i[1]]) = i /\ i[1] \in Sources
      BY <2>1, <2>3, EsxiSources
    <3>2. intents[i[1]] \in Attempts /\ Claim(i[1])
      BY <1>0, <3>1 DEF IInv, Tables, TypeOK
    <3>3. reserved[i[1]] = [host |-> intents[i[1]].host, id |-> i]
      BY <3>1, <3>2 DEF Claim
    <3>4. [host |-> intents[i[1]].host, id |-> i] \in Claiming
      BY <3>2, AttemptFields DEF Claiming
    <3> QED
      BY <3>1, <3>3, <3>4, NoneIs, SMTT(30)
  <2> QED
    BY <2>1, <2>2, <2>3
<1> QED
  BY <1>1, <1>2, <1>3, <1>4, <1>5 DEF Tables, ClaimedFirst

\* create() makes whole or leaves torn a file that was not there.
LEMMA CreateEffect == ASSUME TypeOK, NEW k \in Keys, NEW op \in Ids \cup {<<n>> : n \in 1..MaxFresh}, k[1] = op,
                             NEW v \in Values,
                             \/ /\ files[k] \in {NoFile, Created(k, op, v)[k]} /\ files' = Created(k, op, v)
                             \/ /\ files[k] = NoFile
                                /\ files' \in {files, Created(k, op, v), [Created(k, op, v) EXCEPT ![k].complete = FALSE]}
                             \/ UNCHANGED files
                      PROVE  /\ files' \in [Keys -> File]
                             /\ \A j \in Keys : Whole(j) => Whole(j)'
                             /\ \A j \in Keys \ {k} : files'[j] = files[j]
                             /\ files' = Created(k, op, v) => Whole(k)'
<1>1. /\ [op |-> op, value |-> v, complete |-> TRUE] \in File
      /\ [op |-> op, value |-> v, complete |-> FALSE] \in File
  BY DEF File
<1>2. Created(k, op, v) \in [Keys -> File] /\ Created(k, op, v)[k] = [op |-> op, value |-> v, complete |-> TRUE]
  BY <1>1 DEF Created, TypeOK
<1>3. [Created(k, op, v) EXCEPT ![k].complete = FALSE]
        = [files EXCEPT ![k] = [op |-> op, value |-> v, complete |-> FALSE]]
  BY <1>1, SMTT(30) DEF Created, TypeOK
<1>4. files[k] = NoFile => ~Whole(k)
  BY SMTT(30) DEF NoFile, Whole
<1>5. CASE files' = Created(k, op, v)
  <2>1. \A j \in Keys \ {k} : files'[j] = files[j]
    BY <1>5 DEF Created, TypeOK
  <2>2. Whole(k)'
    BY <1>2, <1>5, SMTT(30) DEF Whole
  <2> QED
    BY <1>2, <1>5, <2>1, <2>2 DEF Whole
<1>6. CASE UNCHANGED files
  BY <1>2, <1>6, SMTT(30) DEF Whole, TypeOK
<1>7. CASE files[k] = NoFile /\ files' = [files EXCEPT ![k] = [op |-> op, value |-> v, complete |-> FALSE]]
  <2>1. files' \in [Keys -> File] /\ files'[k].complete = FALSE /\ \A j \in Keys \ {k} : files'[j] = files[j]
    BY <1>1, <1>7 DEF TypeOK
  <2>2. files' # Created(k, op, v)
    BY <1>2, <2>1, SMTT(30)
  <2> QED
    BY <1>4, <1>7, <2>1, <2>2 DEF Whole
<1> QED
  BY <1>3, <1>5, <1>6, <1>7

\* A step that writes files.
LEMMA FilesStep == ASSUME IInv, NEW p \in Procs, LocalTyped, Alone(p), RestTyped, fresh' = fresh,
                          UNCHANGED <<mode, reserved, intents, jobs, registry, journal, catalog, made, wire>>,
                          files' \in [Keys -> File],
                          \A q \in Procs \ {p} : Keeps(q),
                          \A k \in Keys : Whole(k) /\ Spent(k) => Whole(k)',
                          \A i \in Ids : i[1] \in Esxi /\ files[<<i, "secret">>] = NoFile /\ files'[<<i, "secret">>] # NoFile
                                            => intents[i[1]] # None /\ Id(intents[i[1]]) = i,
                          Knows(p)', Holds(p)' => Holds(p) /\ tok'[p] = tok[p]
                   PROVE  IInv'
<1>1. Grows
  BY FreshFact, SMTT(30) DEF IInv, Grows
<1>2. Threads' /\ \A k : Spent(k) => Spent(k)'
  BY <1>1, ThreadsKept DEF IInv
<1>3. Tables'
  BY <1>2, FilesTables
<1>4. TypeOK'
  BY DEF IInv, TypeOK, LocalTyped, RestTyped
<1> QED
  BY <1>2, <1>3, <1>4 DEF IInv

\* The operation of an esxi request whose files are written is the claimed one.
LEMMA OwnFile == ASSUME IInv, NEW p \in Procs, at[p] \in {"token", "secret", "dtoken", "dsecret"},
                        NEW l \in {"token", "secret"}, NEW k \in Keys,
                        k = <<Id(req[p]), l>> \/ k[1] \notin Ids,
                        \A j \in Keys \ {k} : files'[j] = files[j]
                 PROVE  \A i \in Ids : i[1] \in Esxi /\ files[<<i, "secret">>] = NoFile /\ files'[<<i, "secret">>] # NoFile
                                          => intents[i[1]] # None /\ Id(intents[i[1]]) = i
<1>1. SUFFICES ASSUME NEW i \in Ids, i[1] \in Esxi, files[<<i, "secret">>] = NoFile, files'[<<i, "secret">>] # NoFile
               PROVE  intents[i[1]] # None /\ Id(intents[i[1]]) = i
  OBVIOUS
<1>2. <<i, "secret">> \in Keys
  BY ReferenceKeys
<1>3. k = <<i, "secret">>
  BY <1>1, <1>2
<1>4. i = Id(req[p])
  BY <1>3
<1>5. /\ req[p] \in Attempts /\ req[p].source = i[1]
      /\ req[p].source \in Esxi => intents[req[p].source] = req[p]
  BY <1>4, AtStep DEF Knows, Cleared
<1> QED
  BY <1>1, <1>4, <1>5, AttemptFields

\* The files of a durable job are staged.
LEMMA StageStep == ASSUME IInv, NEW w \in Procs, Stage(w) PROVE IInv'
<1>0. /\ at[w] \in {"token", "secret"} /\ TypeOK /\ Knows(w) /\ mode.durable
      /\ req[w] \in Attempts /\ req[w].source \in Sources /\ Id(req[w]) \in Ids /\ Id(req[w])[1] = req[w].source
      /\ jobs[req[w].source] # None /\ jobs[req[w].source].attempt = req[w]
      /\ tok[w] \in Values
      /\ UNCHANGED <<mode, reserved, intents, jobs, registry, journal, catalog, made, wire>>
      /\ UNCHANGED <<tokens, foreign, cursor, fresh>>
  BY AtStep DEF Stage, Knows, Requested, Handed, store, netbox
<1> DEFINE k == <<Id(req[w]), at[w]>>
<1>1. k \in Keys /\ k[1] = Id(req[w])
  BY <1>0, ReferenceKeys DEF Knows, Written
<1>2. /\ \/ Go(w, IF at[w] = "token" THEN "secret" ELSE "ready")
         \/ Leave(w)
      /\ faults' = faults \/ Fault
      /\ \/ files[k] \in {NoFile, Created(k, Id(req[w]), tok[w])[k]} /\ files' = Created(k, Id(req[w]), tok[w])
         \/ /\ files[k] = NoFile
            /\ files' \in {files, Created(k, Id(req[w]), tok[w]), [Created(k, Id(req[w]), tok[w]) EXCEPT ![k].complete = FALSE]}
         \/ UNCHANGED files
  BY DEF Stage, CreateSecret
<1>3. RestTyped
  BY <1>0, <1>2, RestSame
<1>4. /\ files' \in [Keys -> File]
      /\ \A j \in Keys : Whole(j) => Whole(j)'
      /\ \A j \in Keys \ {k} : files'[j] = files[j]
  <2> HIDE DEF k
  <2> QED
    BY <1>0, <1>1, <1>2, CreateEffect, SMTT(30)
<1>5. \A i \in Ids : i[1] \in Esxi /\ files[<<i, "secret">>] = NoFile /\ files'[<<i, "secret">>] # NoFile
                        => intents[i[1]] # None /\ Id(intents[i[1]]) = i
  BY <1>0, <1>1, <1>4, OwnFile
<1>6. LocalTyped /\ Alone(w) /\ Knows(w)' /\ ~Holds(w)'
  <2>1. CASE Leave(w)
    BY <1>0, <2>1, LeaveEffect, IdleKnows
  <2>2. CASE Go(w, IF at[w] = "token" THEN "secret" ELSE "ready")
    <3>1. PICK l \in {"secret", "ready"} : Go(w, l)
      BY <2>2
    <3>2. LocalTyped /\ Alone(w) /\ at'[w] = l /\ UNCHANGED <<req, tok, own>>
      BY <1>0, <3>1, GoEffect DEF Places
    <3>3. Knows(w)' /\ ~Holds(w)'
      BY <1>0, <3>2 DEF Knows, Requested, Cleared, Bound, Staged, Creator, Handed, Written, Holds, Placing, Direct
    <3> QED
      BY <3>2, <3>3
  <2> QED
    BY <1>2, <2>1, <2>2
<1>7. \A q \in Procs : Keeps(q)
  BY <1>4 DEF Keeps
<1> QED
  BY <1>0, <1>3, <1>4, <1>5, <1>6, <1>7, FilesStep

\* _rollback takes only the files of the thread's own number.
LEMMA RollbackEffect == ASSUME IInv, NEW w \in Procs, at[w] \in Direct, req[w].source \notin Esxi, _rollback(w)
                        PROVE  /\ files' \in [Keys -> File]
                               /\ \A q \in Procs \ {w} : Keeps(q)
                               /\ \A k \in Keys : Whole(k) /\ Spent(k) => Whole(k)'
                               /\ \A i \in Ids : files'[<<i, "secret">>] = files[<<i, "secret">>]
<1>0. TypeOK /\ Apart /\ Knows(w)
  BY AtStep DEF IInv, Threads
<1>1. /\ Holds(w) /\ tok[w][1] \in 1..MaxFresh /\ DirectKeys(w) = RandomKeys(tok[w][1])
      /\ \A k \in DirectKeys(w) : k[1] = <<tok[w][1]>>
  BY <1>0, WrittenKeys
<1>2. NoFile \in File
  BY DEF NoFile, File
<1>3. files' \in [Keys -> File] /\ \A k \in Keys : k \notin DirectKeys(w) => files'[k] = files[k]
  BY <1>0, <1>2 DEF _rollback, TypeOK
<1>4. ASSUME NEW k \in Keys, k[1] \in Ids PROVE files'[k] = files[k]
  BY <1>1, <1>3, <1>4, KeysApart
<1>5. ASSUME NEW q \in Procs \ {w} PROVE Keeps(q)
  <2>1. ASSUME NEW k \in Keys, Holds(q), k \in RandomKeys(tok[q][1]) PROVE files'[k] = files[k]
    <3>1. tok[q][1] # tok[w][1]
      BY <1>0, <1>1, <1>5, <2>1 DEF Apart
    <3>2. k[1] = <<tok[q][1]>>
      BY <2>1, SMTT(30) DEF RandomKeys
    <3>3. <<tok[q][1]>> # <<tok[w][1]>>
      BY <3>1, KeysApart
    <3> QED
      BY <1>1, <1>3, <3>2, <3>3
  <2> QED
    BY <1>4, <2>1 DEF Keeps, Whole
<1>6. ASSUME NEW k \in Keys, Spent(k) PROVE files'[k] = files[k]
  BY <1>1, <1>3, <1>6 DEF Spent
<1>7. ASSUME NEW i \in Ids PROVE files'[<<i, "secret">>] = files[<<i, "secret">>]
  BY <1>4, ReferenceKeys
<1> QED
  BY <1>3, <1>5, <1>6, <1>7 DEF Whole

\* Which files a request without a durable job writes.
LEMMA DirectAll == ASSUME TypeOK, NEW w \in Procs, req[w] \in Attempts,
                          NEW k \in DirectKeys(w)
                   PROVE  \/ k = <<DirectId(w), "secret">>
                          \/ req[w].source \notin Esxi /\ k = <<DirectId(w), "token">>
  BY AttemptFields DEF DirectKeys, DirectId, references, RandomKeys

\* The files of a request without a durable job.
LEMMA CreateSecretsStep == ASSUME IInv, NEW w \in Procs, CreateSecrets(w) PROVE IInv'
<1>0. /\ at[w] \in {"dtoken", "dsecret"} /\ at[w] \in Direct /\ TypeOK /\ Apart /\ Knows(w) /\ ~mode.durable
      /\ req[w] \in Attempts /\ req[w].source \in Sources
      /\ tok[w] \in (0..fresh) \X Values
      /\ UNCHANGED <<mode, reserved, intents, jobs, registry, journal, catalog, made, wire>>
      /\ UNCHANGED <<tokens, foreign, cursor, fresh>>
  BY AtStep DEF CreateSecrets, Knows, Requested, Handed, store, netbox, Direct, IInv, Threads
<1>1. tok[w][2] \in Values
  BY <1>0
<1>2. CASE req[w].source \notin Esxi /\ Fault /\ Leave(w) /\ _rollback(w)
  <2>1. RestTyped
    BY <1>0, <1>2, RestSame
  <2>2. LocalTyped /\ Alone(w) /\ Knows(w)' /\ ~Holds(w)'
    BY <1>0, <1>2, LeaveEffect, IdleKnows
  <2>3. /\ files' \in [Keys -> File]
        /\ \A q \in Procs \ {w} : Keeps(q)
        /\ \A k \in Keys : Whole(k) /\ Spent(k) => Whole(k)'
        /\ \A i \in Ids : files'[<<i, "secret">>] = files[<<i, "secret">>]
    BY <1>0, <1>2, RollbackEffect
  <2> QED
    BY <1>0, <2>1, <2>2, <2>3, FilesStep
<1>3. ASSUME NEW l \in {"token", "secret"}, l = (IF at[w] = "dtoken" THEN "token" ELSE "secret"),
             CreateSecret(<<DirectId(w), l>>, DirectId(w), tok[w][2],
                          Go(w, IF l = "token" THEN "dsecret" ELSE "dinsert"), Leave(w), Leave(w))
      PROVE  IInv'
  <2> DEFINE k == <<DirectId(w), l>>
             op == DirectId(w)
             v == tok[w][2]
  <2>1. /\ k \in Keys /\ k[1] = op /\ op \in Ids \cup {<<n>> : n \in 1..MaxFresh}
        /\ k = <<Id(req[w]), l>> \/ k[1] \notin Ids
    <3>1. k \in Keys /\ k[1] = op
      BY <1>0, <1>3, WrittenKeys DEF Knows, Written
    <3>2. CASE req[w].source \in Esxi
      BY <1>0, <3>1, <3>2, WrittenKeys DEF DirectId
    <3>3. CASE req[w].source \notin Esxi
      BY <1>0, <3>1, <3>3, WrittenKeys, KeysApart
    <3> QED
      BY <3>1, <3>2, <3>3
  <2>2. /\ \/ Go(w, IF l = "token" THEN "dsecret" ELSE "dinsert") /\ files' = Created(k, op, v)
           \/ Leave(w)
        /\ faults' = faults \/ Fault
        /\ \/ files[k] \in {NoFile, Created(k, op, v)[k]} /\ files' = Created(k, op, v)
           \/ /\ files[k] = NoFile
              /\ files' \in {files, Created(k, op, v), [Created(k, op, v) EXCEPT ![k].complete = FALSE]}
           \/ UNCHANGED files
    BY <1>3 DEF CreateSecret
  <2>3. RestTyped
    BY <1>0, <2>2, RestSame
  <2>4. /\ files' \in [Keys -> File]
        /\ \A j \in Keys : Whole(j) => Whole(j)'
        /\ \A j \in Keys \ {k} : files'[j] = files[j]
        /\ files' = Created(k, op, v) => \A j \in {k} : Whole(j)'
    <3> HIDE DEF k, op, v
    <3>1. v \in Values
      BY <1>1 DEF v
    <3>2. ASSUME NEW j \in Keys, j = k
          PROVE  /\ files' \in [Keys -> File]
                 /\ \A i \in Keys : Whole(i) => Whole(i)'
                 /\ \A i \in Keys \ {j} : files'[i] = files[i]
                 /\ files' = Created(j, op, v) => Whole(j)'
      <4>1. \/ /\ files[j] \in {NoFile, Created(j, op, v)[j]} /\ files' = Created(j, op, v)
            \/ /\ files[j] = NoFile
               /\ files' \in {files, Created(j, op, v), [Created(j, op, v) EXCEPT ![j].complete = FALSE]}
            \/ UNCHANGED files
        BY <2>2, <3>2
      <4> QED
        BY <1>0, <2>1, <3>1, <3>2, <4>1, CreateEffect, SMTT(30)
    <3> QED
      BY <2>1, <3>2
  <2>5. \A i \in Ids : i[1] \in Esxi /\ files[<<i, "secret">>] = NoFile /\ files'[<<i, "secret">>] # NoFile
                          => intents[i[1]] # None /\ Id(intents[i[1]]) = i
    <3> HIDE DEF k
    <3> QED
      BY <1>0, <2>1, <2>4, OwnFile DEF k
  <2>6. LocalTyped /\ Alone(w) /\ Knows(w)' /\ (Holds(w)' => Holds(w) /\ tok'[w] = tok[w])
    <3>1. CASE Leave(w)
      BY <1>0, <3>1, LeaveEffect, IdleKnows
    <3>2. CASE Go(w, IF l = "token" THEN "dsecret" ELSE "dinsert") /\ files' = Created(k, op, v)
      <4>1. PICK m \in {"dsecret", "dinsert"} : Go(w, m) /\ (m = "dsecret" <=> l = "token")
        BY <3>2
      <4>2. LocalTyped /\ Alone(w) /\ at'[w] = m /\ UNCHANGED <<req, tok, own>>
        BY <1>0, <4>1, GoEffect DEF Places
      <4>3. DirectId(w)' = DirectId(w) /\ DirectKeys(w)' = DirectKeys(w)
        BY <4>2 DEF DirectId, DirectKeys
      <4>4. \A j \in Keys : j = <<DirectId(w), l>> \/ Whole(j) => Whole(j)'
        BY <2>4, <3>2
      <4>5. Written(w)'
        <5>1. CASE l = "token"
          <6>1. req[w].source \notin Esxi
            BY <1>0, <1>3, <5>1 DEF Knows, Written
          <6>2. \A j \in Keys : j = <<DirectId(w), "token">> => Whole(j)'
            BY <4>4, <5>1
          <6>3. <<DirectId(w), "token">> \in Keys
            BY <2>1, <5>1
          <6>4. ASSUME NEW j \in Keys, j = <<DirectId(w), "token">>' PROVE Whole(j)'
            BY <4>3, <6>2, <6>4
          <6> QED
            BY <4>1, <4>2, <4>3, <5>1, <6>1, <6>3, <6>4 DEF Written, Whole
        <5>2. CASE l = "secret"
          <6>1. ASSUME NEW j \in DirectKeys(w) PROVE Whole(j)'
            <7>1. j \in Keys
              BY <1>0, <6>1, WrittenKeys
            <7>2. CASE j = <<DirectId(w), "secret">>
              BY <4>4, <5>2, <7>1, <7>2
            <7>3. CASE req[w].source \notin Esxi /\ j = <<DirectId(w), "token">>
              BY <1>0, <1>3, <4>4, <5>2, <7>1, <7>3 DEF Knows, Written
            <7> QED
              BY <1>0, <6>1, <7>2, <7>3, DirectAll
          <6> QED
            BY <4>1, <4>2, <4>3, <5>2, <6>1 DEF Written
        <5> QED
          BY <5>1, <5>2
      <4>6. Requested(w)' /\ Cleared(w)' /\ Bound(w)' /\ Creator(w)' /\ Handed(w)'
        BY <1>0, <4>2 DEF Knows, Requested, Cleared, Bound, Staged, Creator, Handed, Placing, Direct
      <4> QED
        BY <1>0, <4>2, <4>5, <4>6 DEF Knows, Holds
    <3> QED
      BY <2>2, <3>1, <3>2
  <2>7. \A q \in Procs : Keeps(q)
    BY <2>4 DEF Keeps
  <2> QED
    BY <1>0, <2>3, <2>4, <2>5, <2>6, <2>7, FilesStep
<1>4. \/ req[w].source \notin Esxi /\ Fault /\ Leave(w) /\ _rollback(w)
      \/ \E l \in {"token", "secret"} :
           /\ l = (IF at[w] = "dtoken" THEN "token" ELSE "secret")
           /\ CreateSecret(<<DirectId(w), l>>, DirectId(w), tok[w][2],
                           Go(w, IF l = "token" THEN "dsecret" ELSE "dinsert"), Leave(w), Leave(w))
  BY DEF CreateSecrets, CreateSecret
<1> QED
  BY <1>2, <1>3, <1>4


\* The token is consumed.
LEMMA ConsumeStep == ASSUME IInv, NEW w \in Procs, Consume(w) PROVE IInv'
<1>0. /\ at[w] = "consume" /\ TypeOK /\ Apart /\ Knows(w) /\ ~mode.durable
      /\ req[w] \in Attempts /\ req[w].source \in Sources /\ tok[w] \in Tokens
      /\ \A q \in Procs : Knows(q)
      /\ JobsMoved /\ RowsKept /\ RestTyped
  <2>1. at[w] = "consume" /\ TypeOK /\ Apart /\ Knows(w) /\ \A q \in Procs : Knows(q)
    BY DEF Consume, IInv, Threads
  <2>2. ~mode.durable /\ req[w] \in Attempts /\ req[w].source \in Sources /\ tok[w] \in Tokens
    BY <2>1, AtStep DEF Knows, Requested, Handed
  <2>3. JobsMoved /\ RowsKept
    BY <2>1, JobsSame DEF Consume, RowsKept, store, netbox
  <2>4. RestTyped
    BY <2>1, <2>2 DEF Consume, TypeOK, RestTyped, netbox
  <2> QED
    BY <2>1, <2>2, <2>3, <2>4
<1>1. CASE ~check_registration(w)
  <2>1. LocalTyped /\ Alone(w) /\ at'[w] = "idle" /\ fresh' = fresh
    BY <1>0, <1>1, LeaveEffect DEF Consume
  <2> QED
    BY <1>0, <2>1, EndStep
<1>2. CASE check_registration(w)
  <2>0. PICK v \in Values : /\ tok' = [tok EXCEPT ![w] = <<fresh', v>>]
                            /\ UNCHANGED <<held, req, own>>
                            /\ IF req[w].source \in Esxi THEN Goto(w, "dsecret") /\ UNCHANGED fresh
                               ELSE fresh < MaxFresh /\ fresh' = fresh + 1 /\ Goto(w, "dtoken")
    <3>1. tokens[tok[w]] \in Handoff
      BY <1>0, <1>2 DEF check_registration, TypeOK
    <3> QED
      BY <1>2, <3>1 DEF Consume, Handoff
  <2>1. /\ Alone(w) /\ tok'[w] = <<fresh', v>> /\ req'[w] = req[w] /\ own'[w] = own[w]
        /\ fresh' \in 0..MaxFresh /\ LocalTyped
        /\ at'[w] = (IF req[w].source \in Esxi THEN "dsecret" ELSE "dtoken")
    <3>0. fresh \in Nat /\ MaxFresh \in Nat /\ fresh <= MaxFresh
      BY <1>0, FreshFact
    <3>1. fresh' \in 0..MaxFresh
      BY <2>0, <3>0, SMTT(30)
    <3> QED
      BY <1>0, <2>0, <3>1 DEF TypeOK, LocalTyped, Alone, Goto, Places
  <2>2. Knows(w)'
    <3>1. Requested(w)' /\ Cleared(w)' /\ Bound(w)' /\ Creator(w)'
      BY <1>0, <2>1 DEF Knows, Requested, Cleared, Bound, Staged, Creator, Placing, Direct, RowsKept
    <3>2. fresh' \in 0..fresh' /\ at'[w] \in {"dsecret", "dtoken"}
      BY <2>1, Bounds, SMTT(30)
    <3>3. Handed(w)'
      BY <2>1, <3>2, SMTT(30) DEF Handed, Placing, Direct
    <3>4. Written(w)'
      BY <2>1 DEF Written
    <3> QED
      BY <3>1, <3>3, <3>4 DEF Knows
  <2>3. CASE req[w].source \in Esxi
    BY <1>0, <2>0, <2>1, <2>2, <2>3, LocalStep DEF Holds
  <2>4. CASE req[w].source \notin Esxi
    <3>0. fresh' = fresh + 1 /\ fresh \in Nat /\ MaxFresh \in Nat /\ fresh' <= MaxFresh
      <4>1. fresh \in Nat /\ MaxFresh \in Nat
        BY <1>0, FreshFact
      <4>2. fresh' = fresh + 1 /\ fresh < MaxFresh
        BY <2>0, <2>4
      <4> QED
        BY <4>1, <4>2, SMTT(30)
    <3>1. Grows /\ \A q \in Procs : Keeps(q)
      <4>1. \A q \in Procs : Keeps(q)
        BY <1>0 DEF RowsKept, Keeps, Whole
      <4> QED
        BY <1>0, <3>0, <4>1, SMTT(30) DEF JobsMoved, RowsKept, Grows
    <3>2. \A q \in Procs : Knows(q)'
      BY <1>0, <2>1, <2>2, <3>1, KnowsKept DEF Alone
    <3>3. \A q \in Procs \ {w} : Holds(q)' => Holds(q) /\ tok'[q] = tok[q] /\ tok[q][1] \in 0..fresh
      BY <1>0, <2>1 DEF Alone, Holds, Knows, Handed
    <3>4. Apart'
      BY <1>0, <2>1, <3>0, <3>3, SMTT(30) DEF Apart
    <3>5. \A k : Spent(k) => Spent(k)'
      BY <2>1, <3>0, <3>3, SMTT(30) DEF Spent
    <3>6. Tables'
      BY <1>0, <3>5, TablesKept DEF IInv
    <3>7. TypeOK'
      BY <1>0, <2>1 DEF TypeOK, LocalTyped, JobsMoved, RowsKept, RestTyped
    <3> QED
      BY <3>2, <3>4, <3>6, <3>7 DEF IInv, Threads
  <2> QED
    BY <2>3, <2>4
<1> QED
  BY <1>1, <1>2

-----------------------------------------------------------------------------
(* The cluster: the journal, the child and NetBox.                          *)

\* What a step of the catalog may do to NetBox and its journal.
NetMoved == /\ journal' \in [Ids -> Entry \cup {None}]
            /\ catalog' \in Running \cup {None}
            /\ made' \in [Ids -> Nat]
            /\ wire' \subseteq Ids
            /\ \A i \in Ids : made[i] > 0 => made'[i] > 0
            /\ \A i \in Ids : journal'[i] # None /\ i[1] \in Esxi
                                 => journal[i] # None \/ (intents[i[1]] # None /\ Id(intents[i[1]]) = i)
            /\ NetIs' /\ ClusterOnce'

\* What happens in NetBox keeps the tables.
LEMMA NetTables == ASSUME IInv, JobsMoved, NetMoved, UNCHANGED <<mode, reserved, intents, registry, files>>,
                          \A k : Spent(k) => Spent(k)'
                   PROVE  Tables'
<1>0. TypeOK
  BY DEF IInv
<1>1. ASSUME NEW s \in Sources PROVE (Claim(s) /\ JobIs(s) /\ RowIs(s))'
  <2>1. Claim(s) /\ JobIs(s) /\ RowIs(s)
    BY DEF IInv, Tables
  <2>2. (Claim(s) /\ JobIs(s))'
    BY <2>1 DEF Claim, JobIs, JobsMoved
  <2>3. RowIs(s)'
    <3>1. CASE s \in mode.legacy
      BY <2>1, <3>1 DEF RowIs
    <3>2. CASE s \notin mode.legacy
      BY <2>1, <3>2, AttemptFields DEF RowIs, JobsMoved, NetMoved
    <3> QED
      BY <3>1, <3>2
  <2> QED
    BY <2>2, <2>3
<1>2. RowsWhole'
  BY DEF IInv, Tables, RowsWhole, Whole
<1>3. CompletedIsRegistered'
  <2>1. ASSUME NEW s \in Sources, jobs'[s] # None, jobs'[s].state = "COMPLETED"
        PROVE  Outcome(s)'
    <3>1. /\ jobs[s] # None /\ jobs'[s].attempt = jobs[s].attempt
          /\ jobs[s].state = "COMPLETED" \/ Outcome(s)'
      BY <2>1 DEF JobsMoved
    <3> QED
      BY <3>1 DEF IInv, Tables, CompletedIsRegistered, Registered, Outcome
  <2> QED
    BY <2>1 DEF CompletedIsRegistered, Outcome
<1>4. OneClaim'
  BY SMTT(30) DEF IInv, Tables, ClaimedFirst, OneClaim, Claimants, existing, Registered, registration_anchor
<1>5. EffectsClaimed'
  <2>1. SUFFICES ASSUME NEW i \in Ids, i[1] \in Esxi, files[<<i, "secret">>] # NoFile \/ journal'[i] # None \/ made'[i] > 0
                 PROVE  /\ reserved[i[1]] # None /\ reserved[i[1]].id = i
                        /\ intents[i[1]] # None /\ Id(intents[i[1]]) = i
    BY DEF EffectsClaimed
  <2>2. CASE files[<<i, "secret">>] # NoFile \/ journal[i] # None
    BY <2>1, <2>2 DEF IInv, Tables, ClaimedFirst, EffectsClaimed
  <2>3. CASE intents[i[1]] # None /\ Id(intents[i[1]]) = i
    <3>1. intents[i[1]] # None /\ Id(intents[i[1]]) = i /\ i[1] \in Sources
      BY <2>1, <2>3, EsxiSources
    <3>2. intents[i[1]] \in Attempts /\ Claim(i[1])
      BY <1>0, <3>1 DEF IInv, Tables, TypeOK
    <3>3. reserved[i[1]] = [host |-> intents[i[1]].host, id |-> i]
      BY <3>1, <3>2 DEF Claim
    <3>4. [host |-> intents[i[1]].host, id |-> i] \in Claiming
      BY <3>2, AttemptFields DEF Claiming
    <3> QED
      BY <3>1, <3>3, <3>4, NoneIs, SMTT(30)
  <2>4. files[<<i, "secret">>] # NoFile \/ journal'[i] # None
    BY <2>1 DEF NetMoved, NetIs
  <2> QED
    BY <2>1, <2>2, <2>3, <2>4 DEF NetMoved
<1> QED
  BY <1>1, <1>2, <1>3, <1>4, <1>5 DEF Tables, ClaimedFirst, NetMoved

\* A step in NetBox keeps the invariant.
LEMMA NetStep == ASSUME IInv, NEW p \in Procs, LocalTyped, Alone(p), JobsMoved, NetMoved, RestTyped,
                        UNCHANGED <<mode, reserved, intents, registry, files, fresh>>,
                        Knows(p)', Holds(p)' => Holds(p) /\ tok'[p] = tok[p]
                 PROVE  IInv'
<1>1. TypeOK'
  BY DEF IInv, TypeOK, LocalTyped, JobsMoved, NetMoved, RestTyped
<1>2. Grows /\ \A q \in Procs : Keeps(q)
  <2>1. fresh' \in Nat /\ fresh <= fresh'
    BY FreshFact, SMTT(30) DEF IInv
  <2>2. \A q \in Procs : Keeps(q)
    BY DEF Keeps, Whole
  <2> QED
    BY <2>1, <2>2 DEF JobsMoved, NetMoved, Grows
<1>3. Threads' /\ \A k : Spent(k) => Spent(k)'
  BY <1>2, ThreadsKept DEF IInv
<1>4. Tables'
  BY <1>3, NetTables DEF IInv
<1> QED
  BY <1>1, <1>3, <1>4 DEF IInv


\* Where NetBox lists nothing, no one else has made a cluster either.
LEMMA ListedNone == ASSUME NEW n, Listed(n) = {} PROVE ~Several(Listed(n)) /\ foreign[n] # "occupied"
BY DEF Listed, Several

\* A new status of an entry that is there.
LEMMA EntryEffect == ASSUME TypeOK, NEW i \in Ids, journal[i] # None,
                            NEW st \in {"UNCERTAIN", "CREATED", "REFUSED", "EXISTS_REVIEW_REQUIRED"},
                            journal' = [journal EXCEPT ![i].status = st]
                     PROVE  /\ journal' \in [Ids -> Entry \cup {None}]
                            /\ journal'[i] # None /\ journal'[i].status = st
                            /\ \A j \in Ids \ {i} : journal'[j] = journal[j]
<1>1. journal[i] \in Entry
  BY DEF TypeOK
<1>2. [journal[i] EXCEPT !.status = st] \in Entry
  BY <1>1 DEF Entry
<1> QED
  BY <1>2, NoneIs, SMTT(30) DEF TypeOK

\* The journal's entry moves.
LEMMA JournalMoves == ASSUME IInv, NEW i \in Ids, journal[i] # None,
                             NEW st \in {"UNCERTAIN", "CREATED", "REFUSED", "EXISTS_REVIEW_REQUIRED"},
                             journal' = [journal EXCEPT ![i].status = st],
                             st = "CREATED" => made'[i] > 0,
                             catalog' \in {catalog, None}, wire' \subseteq wire \cup {i},
                             made' \in [Ids -> Nat],
                             \A j \in Ids \ {i} : made'[j] = made[j],
                             made[i] > 0 => made'[i] > 0,
                             mode' = mode, mode.guarded /\ made[i] <= 1 => made'[i] <= 1
                      PROVE  NetMoved
<1>0. TypeOK /\ NetIs /\ ClusterOnce
  BY DEF IInv, Tables
<1>1. /\ journal' \in [Ids -> Entry \cup {None}]
      /\ journal'[i] # None /\ journal'[i].status = st
      /\ \A j \in Ids \ {i} : journal'[j] = journal[j]
  BY <1>0, EntryEffect
<1>2. NetIs'
  <2>1. catalog # None => catalog.id \in Ids
    BY <1>0 DEF TypeOK, Running
  <2>2. \A j \in Ids : journal[j] # None => journal'[j] # None
    BY <1>1
  <2>3. \A j \in Ids : j \in wire' \/ made'[j] > 0 => journal'[j] # None
    BY <1>0, <1>1 DEF NetIs
  <2>4. \A j \in Ids : journal'[j] # None /\ journal'[j].status = "CREATED" => made'[j] > 0
    BY <1>0, <1>1 DEF NetIs
  <2>5. catalog' # None => journal'[catalog'.id] # None
    BY <1>0, <2>1, <2>2 DEF NetIs
  <2> QED
    BY <2>3, <2>4, <2>5 DEF NetIs
<1>3. ClusterOnce'
  BY <1>0 DEF ClusterOnce
<1>4. \A j \in Ids : made[j] > 0 => made'[j] > 0
  OBVIOUS
<1>5. wire' \subseteq Ids /\ catalog' \in Running \cup {None}
  BY <1>0 DEF TypeOK
<1>6. \A j \in Ids : journal'[j] # None => journal[j] # None
  BY <1>1
<1> QED
  BY <1>1, <1>2, <1>3, <1>4, <1>5, <1>6 DEF NetMoved

\* NetBox unchanged has moved.
LEMMA NetSame == ASSUME IInv, UNCHANGED <<mode, journal, catalog, made, wire>> PROVE NetMoved
  BY DEF IInv, TypeOK, Tables, NetIs, ClusterOnce, NetMoved

\* A POST makes a cluster, and a guarded one at most one.
LEMMA PostEffect == ASSUME IInv, NEW i \in Ids, Post(i), mode' = mode
                    PROVE  /\ made' \in [Ids -> Nat] /\ made'[i] > 0
                           /\ \A j \in Ids \ {i} : made'[j] = made[j]
                           /\ mode.guarded /\ made[i] <= 1 => made'[i] <= 1
<1>1. made \in [Ids -> Nat]
  BY DEF IInv, TypeOK
<1> QED
  BY <1>1, SMTT(30) DEF Post

\* NetBox and the child move while no thread looks.
LEMMA UnseenStep == ASSUME IInv, NetMoved, RestTyped, UNCHANGED <<mode, reserved, intents, registry, files, fresh>>,
                           UNCHANGED <<at, held, req, tok, own, jobs>>
                    PROVE  IInv'
<1>0. TypeOK /\ Threads
  BY DEF IInv
<1>1. LocalTyped /\ Alone(Cont) /\ Cont \in Procs
  BY <1>0 DEF TypeOK, LocalTyped, Alone, Procs
<1>2. JobsMoved
  BY <1>0, JobsSame
<1>3. Grows /\ Keeps(Cont)
  <2>1. fresh' \in Nat /\ fresh <= fresh'
    BY <1>0, FreshFact, SMTT(30)
  <2>2. Keeps(Cont)
    BY DEF Keeps, Whole
  <2> QED
    BY <1>2, <2>1, <2>2 DEF JobsMoved, NetMoved, Grows
<1>4. Knows(Cont)'
  BY <1>0, <1>1, <1>3, KnowsKept DEF Threads
<1>5. Holds(Cont)' => Holds(Cont) /\ tok'[Cont] = tok[Cont]
  BY DEF Holds
<1> QED
  BY <1>1, <1>2, <1>4, <1>5, NetStep

\* A POST that outlived its child arrives.
LEMMA LatePostStep == ASSUME IInv, NEW i \in Ids, LatePost(i) PROVE IInv'
<1>0. TypeOK /\ NetIs /\ ClusterOnce
  BY DEF IInv, Tables
<1>1. /\ made' \in [Ids -> Nat] /\ made'[i] > 0
      /\ \A j \in Ids \ {i} : made'[j] = made[j]
      /\ mode.guarded /\ made[i] <= 1 => made'[i] <= 1
  BY PostEffect DEF LatePost
<1>2. NetMoved
  BY <1>0, <1>1 DEF LatePost, NetMoved, NetIs, ClusterOnce, TypeOK
<1>3. RestTyped
  BY <1>0, RestSame DEF LatePost
<1> QED
  BY <1>2, <1>3, UnseenStep DEF LatePost, store

\* A thread whose cluster is there goes on to validate it.
LEMMA PlacedEffect == ASSUME IInv, NEW p \in Procs, at[p] \in {"resolve", "cluster", "child"}, NEW b \in BOOLEAN,
                             Goto(p, "validate"), own' = [own EXCEPT ![p] = b], UNCHANGED <<held, req, tok, jobs>>,
                             UNCHANGED <<mode, intents, files>>, req[p].create => b /\ made'[Id(req[p])] > 0
                      PROVE  LocalTyped /\ Alone(p) /\ JobsMoved /\ Knows(p)' /\ ~Holds(p)'
<1>0. TypeOK /\ Knows(p)
  BY DEF IInv, Threads
<1>1. /\ LocalTyped /\ Alone(p) /\ at'[p] = "validate" /\ own'[p] = b
  BY <1>0 DEF TypeOK, LocalTyped, Alone, Goto, Places
<1>2. JobsMoved
  BY <1>0, JobsSame
<1>3. Knows(p)' /\ ~Holds(p)'
  BY <1>0, <1>1 DEF Knows, Requested, Cleared, Bound, Staged, Creator, Handed, Written, Holds, Placing, Direct, Whole
<1> QED
  BY <1>1, <1>2, <1>3

\* A thread whose cluster is not there gives up.
LEMMA UnplacedEffect == ASSUME IInv, NEW p \in Procs, at[p] \in Placing, NEW code, Fail(p, code)
                        PROVE  LocalTyped /\ Alone(p) /\ JobsMoved /\ Knows(p)' /\ ~Holds(p)'
<1>1. TypeOK /\ (mode.durable => req[p] \in Attempts /\ jobs[req[p].source] # None)
  BY AtStep DEF Placing
<1>2. LocalTyped /\ Alone(p) /\ at'[p] = "idle" /\ JobsMoved
  BY <1>1, FailEffect
<1> QED
  BY <1>2, IdleKnows

\* The child's answer.
LEMMA AnswerEffect == ASSUME IInv, NEW p \in Procs, at[p] \in {"cluster", "child"}, NEW st, Answer(p, st),
                             UNCHANGED <<mode, intents, files>>, st = "CREATED" => made'[Id(req[p])] > 0
                      PROVE  LocalTyped /\ Alone(p) /\ JobsMoved /\ Knows(p)' /\ ~Holds(p)'
<1>1. CASE st = "CREATED"
  BY <1>1, PlacedEffect DEF Answer
<1>2. CASE st # "CREATED"
  <2>1. PICK code : Fail(p, code)
    BY <1>2 DEF Answer
  <2> QED
    BY <2>1, UnplacedEffect DEF Placing
<1> QED
  BY <1>1, <1>2

\* A thread that waits for its cluster goes on waiting.
LEMMA PlacingEffect == ASSUME IInv, NEW p \in Procs, at[p] \in {"resolve", "cluster"}, NEW l \in {"cluster", "child"},
                              Go(p, l), UNCHANGED <<mode, intents, files, jobs>>
                       PROVE  LocalTyped /\ Alone(p) /\ JobsMoved /\ Knows(p)' /\ ~Holds(p)'
<1>0. TypeOK /\ Knows(p)
  BY DEF IInv, Threads
<1>1. LocalTyped /\ Alone(p) /\ at'[p] = l /\ UNCHANGED <<req, tok, own>>
  BY <1>0, GoEffect DEF Places
<1>2. JobsMoved
  BY <1>0, JobsSame
<1>3. Knows(p)' /\ ~Holds(p)'
  BY <1>0, <1>1 DEF Knows, Requested, Cleared, Bound, Staged, Creator, Handed, Written, Holds, Placing, Direct, Whole
<1> QED
  BY <1>1, <1>2, <1>3

\* The placement is resolved.
LEMMA ResolveStep == ASSUME IInv, NEW p \in Procs, Resolve(p) PROVE IInv'
<1> DEFINE Moved == LocalTyped /\ Alone(p) /\ JobsMoved /\ Knows(p)' /\ ~Holds(p)'
           i == Id(req[p])
<1>0. /\ at[p] = "resolve" /\ at[p] \in Placing /\ TypeOK /\ NetIs /\ i \in Ids /\ req[p].create \in BOOLEAN
      /\ UNCHANGED <<mode, reserved, intents, registry, files, catalog, made, wire, fresh>>
      /\ RestTyped
  <2>1. at[p] = "resolve" /\ at[p] \in Placing /\ TypeOK /\ NetIs
    BY DEF Resolve, Placing, IInv, Tables
  <2>2. i \in Ids /\ req[p].create \in BOOLEAN
    BY <2>1, AtStep, AttemptFields
  <2> QED
    BY <2>1, <2>2, RestSame DEF Resolve, store
<1>1. SUFFICES Moved /\ NetMoved
  BY <1>0, NetStep
<1>2. made[i] \in Nat
  BY <1>0 DEF TypeOK
<1>3. CASE Listed(req[p].name) = {}
  <2>1. Go(p, "cluster") /\ UNCHANGED <<jobs, journal>>
    <3>1. ~Several(Listed(req[p].name)) /\ foreign[req[p].name] # "occupied"
      BY <1>3, ListedNone
    <3> QED
      BY <1>3, <3>1 DEF Resolve
  <2> QED
    BY <1>0, <2>1, PlacingEffect, NetSame
<1>4. CASE Fail(p, "CLUSTER_REVIEW_REQUIRED") /\ UNCHANGED journal
  BY <1>0, <1>4, UnplacedEffect, NetSame
<1>5. CASE /\ ~req[p].create
           /\ Goto(p, "validate") /\ own' = [own EXCEPT ![p] = (made[i] > 0 /\ Mine(req[p].name) = {i})]
           /\ UNCHANGED <<held, req, tok, jobs, journal>>
  <2>1. PICK b \in BOOLEAN : b = (made[i] > 0 /\ Mine(req[p].name) = {i})
    OBVIOUS
  <2>2. own' = [own EXCEPT ![p] = b]
    BY <1>5, <2>1
  <2> QED
    BY <1>0, <1>5, <2>2, PlacedEffect, NetSame
<1>6. CASE (IF journal[i] = None THEN Fail(p, "SELECTION_REQUIRED") /\ UNCHANGED journal
            ELSE IF catalog # None THEN Fail(p, "BUSY") /\ UNCHANGED journal
            ELSE IF Receipt(i)
            THEN /\ journal' = [journal EXCEPT ![i].status = "CREATED"]
                 /\ IF made[i] > 0 /\ Mine(req[p].name) = {i}
                    THEN /\ Goto(p, "validate") /\ own' = [own EXCEPT ![p] = TRUE]
                         /\ UNCHANGED <<held, req, tok, jobs>>
                    ELSE Fail(p, "UNCERTAIN")
            ELSE /\ Fail(p, "UNCERTAIN")
                 /\ journal' = [journal EXCEPT ![i].status =
                        IF @ = "REFUSED" \/ mode.guarded THEN @ ELSE "EXISTS_REVIEW_REQUIRED"])
  <2>1. CASE journal[i] = None \/ catalog # None
    <3>1. PICK code : Fail(p, code) /\ UNCHANGED journal
      BY <1>6, <2>1
    <3> QED
      BY <1>0, <3>1, UnplacedEffect, NetSame
  <2>2. CASE journal[i] # None /\ catalog = None /\ Receipt(i)
    <3>1. /\ journal' = [journal EXCEPT ![i].status = "CREATED"]
          /\ \/ /\ Goto(p, "validate") /\ own' = [own EXCEPT ![p] = TRUE]
                /\ UNCHANGED <<held, req, tok, jobs>>
             \/ Fail(p, "UNCERTAIN")
      BY <1>6, <2>2
    <3>2. made[i] > 0
      BY <1>0, <2>2 DEF Receipt, NetIs
    <3>3. NetMoved
      <4> HIDE DEF i
      <4> QED
        BY <1>0, <1>2, <2>2, <3>1, <3>2, JournalMoves DEF TypeOK
    <3> QED
      BY <1>0, <3>1, <3>2, <3>3, PlacedEffect, UnplacedEffect
  <2>3. CASE journal[i] # None /\ catalog = None /\ ~Receipt(i)
    <3>1. PICK st : /\ st = (IF journal[i].status = "REFUSED" \/ mode.guarded THEN journal[i].status
                             ELSE "EXISTS_REVIEW_REQUIRED")
                    /\ journal' = [journal EXCEPT ![i].status = st]
                    /\ Fail(p, "UNCERTAIN")
      BY <1>0, <1>6, <2>3 DEF TypeOK
    <3>2. st \in {"UNCERTAIN", "CREATED", "REFUSED", "EXISTS_REVIEW_REQUIRED"} /\ (st = "CREATED" => made[i] > 0)
      <4>1. journal[i] \in Entry
        BY <1>0, <2>3 DEF TypeOK
      <4> QED
        BY <1>0, <2>3, <3>1, <4>1 DEF Entry, NetIs
    <3>3. NetMoved
      <4> HIDE DEF i
      <4> QED
        BY <1>0, <1>2, <2>3, <3>1, <3>2, JournalMoves DEF TypeOK
    <3> QED
      BY <1>0, <3>1, <3>3, UnplacedEffect
  <2> QED
    BY <2>1, <2>2, <2>3
<1>7. CASE Listed(req[p].name) # {}
  <2>2. CASE Several(Listed(req[p].name)) \/ foreign[req[p].name] = "occupied"
    BY <1>4, <1>7, <2>2 DEF Resolve
  <2>3. CASE ~(Several(Listed(req[p].name)) \/ foreign[req[p].name] = "occupied")
    <3>1. ~Several(Listed(req[p].name)) /\ foreign[req[p].name] # "occupied"
      BY <2>3
    <3>2. CASE req[p].create
      BY <1>6, <1>7, <2>3, <3>1, <3>2 DEF Resolve
    <3>3. CASE ~req[p].create
      BY <1>5, <1>7, <2>3, <3>1, <3>3 DEF Resolve
    <3> QED
      BY <3>2, <3>3
  <2> QED
    BY <2>2, <2>3
<1> QED
  BY <1>3, <1>7


\* The child's run begins; its entry is there, or is made for a claimed operation.
LEMMA RunMoves == ASSUME IInv, NEW i \in Ids, NEW b \in BOOLEAN, catalog' = [id |-> i, resume |-> b],
                         UNCHANGED <<mode, made, wire>>,
                         \/ journal[i] # None /\ UNCHANGED journal
                         \/ /\ journal[i] # None \/ (i[1] \in Esxi => intents[i[1]] # None /\ Id(intents[i[1]]) = i)
                            /\ \E n \in Names : journal' = [journal EXCEPT ![i] = [name |-> n, status |-> "UNCERTAIN"]]
                  PROVE  NetMoved
<1>0. TypeOK /\ NetIs /\ ClusterOnce
  BY DEF IInv, Tables
<1>1. /\ journal' \in [Ids -> Entry \cup {None}] /\ journal'[i] # None
      /\ \A j \in Ids \ {i} : journal'[j] = journal[j]
      /\ journal'[i] = journal[i] \/ journal'[i].status = "UNCERTAIN"
      /\ journal[i] # None \/ (i[1] \in Esxi => intents[i[1]] # None /\ Id(intents[i[1]]) = i)
  <2>1. CASE journal[i] # None /\ UNCHANGED journal
    BY <1>0, <2>1 DEF TypeOK
  <2>2. ASSUME NEW n \in Names, journal' = [journal EXCEPT ![i] = [name |-> n, status |-> "UNCERTAIN"]]
        PROVE  /\ journal' \in [Ids -> Entry \cup {None}] /\ journal'[i] # None
               /\ \A j \in Ids \ {i} : journal'[j] = journal[j]
               /\ journal'[i].status = "UNCERTAIN"
    <3>1. [name |-> n, status |-> "UNCERTAIN"] \in Entry
      BY DEF Entry
    <3>2. journal \in [Ids -> Entry \cup {None}]
      BY <1>0 DEF TypeOK
    <3> QED
      BY <2>2, <3>1, <3>2, NoneIs
  <2> QED
    BY <2>1, <2>2
<1>2. NetIs'
  BY <1>0, <1>1 DEF NetIs
<1>3. ClusterOnce' /\ made' \in [Ids -> Nat] /\ wire' \subseteq Ids
  BY <1>0 DEF ClusterOnce, TypeOK
<1>4. catalog' \in Running
  BY DEF Running
<1>5. \A j \in Ids : journal'[j] # None /\ j[1] \in Esxi
                       => journal[j] # None \/ (intents[j[1]] # None /\ Id(intents[j[1]]) = j)
  BY <1>1
<1> QED
  BY <1>1, <1>2, <1>3, <1>4, <1>5 DEF NetMoved

\* UNCERTAIN is written, and the POST may be sent.
LEMMA ClusterStep == ASSUME IInv, NEW p \in Procs, Cluster(p) PROVE IInv'
<1> DEFINE Moved == LocalTyped /\ Alone(p) /\ JobsMoved /\ Knows(p)' /\ ~Holds(p)'
           i == Id(req[p])
           open == journal[i] = None \/ journal[i].status = "REFUSED"
           prior == ~mode.guarded /\ \E k \in Ids \ {i} : journal[k] # None
                       /\ journal[k].name = req[p].name /\ journal[k].status # "REFUSED"
<1>0. /\ at[p] = "cluster" /\ at[p] \in Placing /\ TypeOK /\ NetIs /\ i \in Ids /\ req[p].name \in Names
      /\ i[1] \in Esxi => intents[i[1]] # None /\ Id(intents[i[1]]) = i
      /\ UNCHANGED <<mode, reserved, intents, registry, files, made, wire, fresh>>
      /\ RestTyped
  <2>1. at[p] = "cluster" /\ at[p] \in Placing /\ TypeOK /\ NetIs /\ Knows(p)
    BY DEF Cluster, Placing, IInv, Tables, Threads
  <2>2. req[p] \in Attempts /\ i \in Ids /\ i[1] = req[p].source /\ req[p].name \in Names /\ req[p] # None
    BY <2>1, AtStep, AttemptFields
  <2>3. i[1] \in Esxi => intents[i[1]] = req[p]
    BY <2>1, <2>2 DEF Knows, Cleared
  <2>4. UNCHANGED <<mode, reserved, intents, registry, files, made, wire, fresh>> /\ RestTyped
    BY <2>1, RestSame DEF Cluster, store
  <2> QED
    BY <2>1, <2>2, <2>3, <2>4
<1>1. SUFFICES Moved /\ NetMoved
  BY <1>0, NetStep
<1>2. \/ \E code : Fail(p, code) /\ UNCHANGED <<journal, catalog>>
      \/ /\ journal[i] # None /\ Answer(p, journal[i].status) /\ UNCHANGED <<journal, catalog>>
      \/ /\ Go(p, "child") /\ UNCHANGED jobs
         /\ \E b \in BOOLEAN : catalog' = [id |-> i, resume |-> b]
         /\ \/ journal[i] # None /\ UNCHANGED journal
            \/ journal' = [journal EXCEPT ![i] = [name |-> req[p].name, status |-> "UNCERTAIN"]]
  <2>1. CASE catalog # None
    BY <2>1 DEF Cluster
  <2>2. CASE catalog = None /\ ~open /\ journal[i].name # req[p].name
    BY <2>2 DEF Cluster
  <2>3. CASE catalog = None /\ ~open /\ journal[i].name = req[p].name
    BY <2>3 DEF Cluster
  <2>4. CASE catalog = None /\ open
    BY <2>4 DEF Cluster
  <2> QED
    BY <2>1, <2>2, <2>3, <2>4
<1>3. CASE \E code : Fail(p, code) /\ UNCHANGED <<journal, catalog>>
  BY <1>0, <1>3, UnplacedEffect, NetSame
<1>4. CASE journal[i] # None /\ Answer(p, journal[i].status) /\ UNCHANGED <<journal, catalog>>
  <2>1. journal[i].status = "CREATED" => made'[i] > 0
    BY <1>0, <1>4 DEF NetIs
  <2> QED
    BY <1>0, <1>4, <2>1, AnswerEffect, NetSame
<1>5. CASE /\ Go(p, "child") /\ UNCHANGED jobs
           /\ \E b \in BOOLEAN : catalog' = [id |-> i, resume |-> b]
           /\ \/ journal[i] # None /\ UNCHANGED journal
              \/ journal' = [journal EXCEPT ![i] = [name |-> req[p].name, status |-> "UNCERTAIN"]]
  <2>1. Moved
    BY <1>0, <1>5, PlacingEffect
  <2>2. NetMoved
    <3> HIDE DEF i
    <3> QED
      BY <1>0, <1>5, RunMoves
  <2> QED
    BY <2>1, <2>2
<1> QED
  BY <1>2, <1>3, <1>4, <1>5

\* The child's step.
LEMMA ChildStep == ASSUME IInv, Child PROVE IInv'
<1> DEFINE i == catalog.id
           Finish(st) == /\ journal' = [journal EXCEPT ![i].status =
                                          IF catalog.resume /\ st # "CREATED" THEN @ ELSE st]
                         /\ \/ UNCHANGED <<at, held, req, tok, own, jobs>>
                            \/ \E p \in Procs : at[p] = "child" /\ Id(req[p]) = i /\ Answer(p, journal'[i].status)
<1>0. /\ TypeOK /\ NetIs /\ Threads /\ i \in Ids /\ journal[i] # None /\ journal[i] \in Entry
      /\ UNCHANGED <<mode, reserved, intents, registry, files, fresh>> /\ catalog' = None
      /\ UNCHANGED <<tokens, foreign, cursor>>
  <2>1. TypeOK /\ NetIs /\ Threads /\ catalog # None
    BY DEF Child, IInv, Tables
  <2>2. i \in Ids
    BY <2>1 DEF TypeOK, Running
  <2>3. journal[i] # None /\ journal[i] \in Entry
    BY <2>1, <2>2 DEF NetIs, TypeOK
  <2> QED
    BY <2>1, <2>2, <2>3 DEF Child, store
<1>1. \/ Finish("EXISTS_REVIEW_REQUIRED") /\ UNCHANGED <<made, wire, faults>>
      \/ Post(i) /\ Finish("CREATED") /\ UNCHANGED <<wire, faults>>
      \/ Fault /\ Post(i) /\ Finish("UNCERTAIN") /\ UNCHANGED wire
      \/ Fault /\ Finish("UNCERTAIN") /\ wire' = wire \cup {i} /\ UNCHANGED made
      \/ Finish("REFUSED") /\ UNCHANGED <<made, wire, faults>>
  BY DEF Child
<1>2. PICK st \in {"UNCERTAIN", "CREATED", "REFUSED", "EXISTS_REVIEW_REQUIRED"} :
         /\ Finish(st)
         /\ Post(i) \/ (UNCHANGED made /\ st # "CREATED")
         /\ wire' \subseteq wire \cup {i}
         /\ faults' = faults \/ Fault
  <2> HIDE DEF Finish, i
  <2> QED
    BY <1>1
<1>3. /\ made' \in [Ids -> Nat]
      /\ \A j \in Ids \ {i} : made'[j] = made[j]
      /\ made[i] > 0 \/ st = "CREATED" => made'[i] > 0
      /\ mode.guarded /\ made[i] <= 1 => made'[i] <= 1
  <2>1. CASE Post(i)
    BY <1>0, <2>1, PostEffect
  <2>2. CASE UNCHANGED made /\ st # "CREATED"
    BY <1>0, <2>2 DEF TypeOK
  <2> QED
    BY <1>2, <2>1, <2>2
<1>4. PICK x \in {"UNCERTAIN", "CREATED", "REFUSED", "EXISTS_REVIEW_REQUIRED"} :
         /\ journal' = [journal EXCEPT ![i].status = x]
         /\ x = "CREATED" => st = "CREATED" \/ journal[i].status = "CREATED"
  <2>1. journal \in [Ids -> Entry \cup {None}]
    BY <1>0 DEF TypeOK
  <2>2. journal[i].status \in {"UNCERTAIN", "CREATED", "REFUSED", "EXISTS_REVIEW_REQUIRED"}
    BY <1>0 DEF Entry
  <2>3. CASE catalog.resume /\ st # "CREATED"
    <3>1. journal' = [journal EXCEPT ![i].status = journal[i].status]
      BY <1>0, <1>2, <2>1, <2>3
    <3> QED
      BY <2>2, <3>1
  <2>4. CASE ~(catalog.resume /\ st # "CREATED")
    <3>1. journal' = [journal EXCEPT ![i].status = st]
      BY <1>0, <1>2, <2>1, <2>4
    <3> QED
      BY <3>1
  <2> QED
    BY <2>3, <2>4
<1>5. x = "CREATED" => made'[i] > 0
  BY <1>0, <1>3, <1>4 DEF NetIs
<1>6. NetMoved /\ RestTyped /\ journal'[i].status = x
  <2> HIDE DEF i, Finish
  <2>1. NetMoved
    BY <1>0, <1>2, <1>3, <1>4, <1>5, JournalMoves
  <2>2. journal'[i].status = x
    BY <1>0, <1>4, EntryEffect
  <2> QED
    BY <1>0, <1>2, <2>1, <2>2, RestSame
<1>7. CASE \E p \in Procs : at[p] = "child" /\ Id(req[p]) = i /\ Answer(p, journal'[i].status)
  <2>1. PICK p \in Procs : at[p] = "child" /\ Id(req[p]) = i /\ Answer(p, x)
    BY <1>6, <1>7
  <2>2. LocalTyped /\ Alone(p) /\ JobsMoved /\ Knows(p)' /\ ~Holds(p)'
    BY <1>0, <1>5, <2>1, AnswerEffect
  <2> QED
    BY <1>0, <1>6, <2>2, NetStep
<1>8. CASE UNCHANGED <<at, held, req, tok, own, jobs>>
  BY <1>0, <1>6, <1>8, UnseenStep
<1> QED
  BY <1>2, <1>7, <1>8


-----------------------------------------------------------------------------
(* The registry row.                                                        *)

\* A derived key is no thread's random one.
LEMMA DerivedSpent == ASSUME IInv, NEW k \in Keys, k[1] \in Ids PROVE Spent(k)
<1>0. TypeOK /\ Apart /\ \A q \in Procs : Knows(q)
  BY DEF IInv, Threads
<1>1. ASSUME NEW q \in Procs, Holds(q) PROVE k \notin RandomKeys(tok[q][1])
  <2>1. tok[q][1] \in 1..MaxFresh
    BY <1>0, <1>1, WrittenKeys DEF Holds
  <2> QED
    BY <2>1, RandomKeysAre
<1>2. ASSUME NEW n \in (fresh + 1)..MaxFresh PROVE k \notin RandomKeys(n)
  <2>1. n \in 1..MaxFresh
    <3>1. fresh \in Nat /\ MaxFresh \in Nat
      BY <1>0, FreshFact
    <3> QED
      BY <1>2, <3>1, SMTT(30)
  <2> QED
    BY <2>1, RandomKeysAre
<1> QED
  BY <1>1, <1>2 DEF Spent

\* The job whose row is there is marked.
LEMMA CompleteMoves == ASSUME TypeOK, NEW s \in Sources, jobs[s] # None, mark(s, "COMPLETED"),
                              registry'[s].present, registry'[s].refs = references(Id(jobs[s].attempt))
                       PROVE  JobsMoved
<1>1. /\ jobs' \in [Sources -> JobRow \cup {None}]
      /\ jobs'[s] # None /\ jobs'[s].attempt = jobs[s].attempt
      /\ \A r \in Sources \ {s} : jobs'[r] = jobs[r]
  BY MarkEffect
<1>2. Outcome(s)'
  BY <1>1 DEF Outcome, Registered
<1> QED
  BY <1>1, <1>2 DEF JobsMoved

\* The row of a source keeps the tables.
LEMMA RowTables == ASSUME IInv, NEW a \in Attempts, NEW refs \in SUBSET Keys, NEW b \in BOOLEAN, ~Registered(a.source),
                          registry' = [registry EXCEPT ![a.source] = staged_config(a, refs, b)],
                          a.source \notin Closed, a.source \in Esxi => intents[a.source] = a,
                          mode.durable => jobs[a.source] # None /\ jobs[a.source].attempt = a,
                          a.create => b /\ made[Id(a)] > 0,
                          \A k \in refs : Whole(k) /\ Spent(k)',
                          UNCHANGED <<mode, reserved, intents, files, journal, catalog, made, wire>>,
                          JobsMoved, \A k : Spent(k) => Spent(k)'
                   PROVE  registry' \in [Sources -> Row] /\ Tables'
<1>0. /\ TypeOK /\ a.source \in Sources /\ a.host \in Hosts /\ a # None /\ Id(a) \in Ids
      /\ registry \in [Sources -> Row]
  BY AttemptFields DEF IInv, TypeOK
<1>1. PICK row : /\ row = staged_config(a, refs, b) /\ row \in Row /\ row.present /\ row.refs = refs /\ row.by = a /\ row.own = b
                 /\ row.anchor = (IF a.source \in Esxi THEN a.host ELSE None)
  <2>1. PICK h \in Hosts \cup {None} : h = (IF a.source \in Esxi THEN a.host ELSE None)
    BY <1>0
  <2>2. PICK row : row = [present |-> TRUE, anchor |-> h, observed |-> None, enabled |-> TRUE, refs |-> refs,
                          by |-> a, own |-> b]
    OBVIOUS
  <2>3. row = staged_config(a, refs, b)
    BY <2>1, <2>2 DEF staged_config
  <2>4. row \in Row /\ row.present /\ row.refs = refs /\ row.by = a /\ row.own = b /\ row.anchor = h
    BY <2>2 DEF Row
  <2> QED
    BY <2>1, <2>3, <2>4
<1>2. /\ registry' \in [Sources -> Row] /\ registry'[a.source] = row
      /\ \A s \in Sources \ {a.source} : registry'[s] = registry[s]
  BY <1>0, <1>1
<1>3. a.source \notin mode.legacy
  BY <1>0 DEF IInv, Tables, RowIs, Registered
<1>4. ASSUME NEW s \in Sources PROVE (Claim(s) /\ JobIs(s) /\ RowIs(s))'
  <2>1. Claim(s) /\ JobIs(s) /\ RowIs(s)
    BY DEF IInv, Tables
  <2>2. Claim(s)' /\ JobIs(s)'
    BY <2>1 DEF Claim, JobIs, JobsMoved
  <2>3. CASE s = a.source
    BY <1>1, <1>2, <1>3, <2>2, <2>3, SMTT(30) DEF RowIs, JobsMoved
  <2>4. CASE s # a.source
    <3>1. registry'[s] = registry[s]
      BY <1>2, <2>4
    <3>2. CASE s \in mode.legacy
      BY <2>1, <2>2, <3>1, <3>2 DEF RowIs
    <3>3. CASE s \notin mode.legacy
      BY <2>1, <2>2, <3>1, <3>3 DEF RowIs, JobsMoved
    <3> QED
      BY <3>2, <3>3
  <2> QED
    BY <2>2, <2>3, <2>4
<1>5. RowsWhole'
  <2>1. \A k : Whole(k) => Whole(k)'
    BY DEF Whole
  <2>2. RowsWhole
    BY DEF IInv, Tables
  <2> QED
    BY <1>1, <1>2, <2>1, <2>2 DEF RowsWhole
<1>6. NetIs' /\ ClusterOnce'
  BY DEF IInv, Tables, NetIs, ClusterOnce
<1>7. CompletedIsRegistered'
  <2>1. CompletedIsRegistered
    BY DEF IInv, Tables
  <2>2. ASSUME NEW s \in Sources, jobs'[s] # None, jobs'[s].state = "COMPLETED" PROVE Outcome(s)'
    <3>1. /\ jobs[s] # None /\ jobs'[s].attempt = jobs[s].attempt
          /\ jobs[s].state = "COMPLETED" \/ Outcome(s)'
      BY <2>2 DEF JobsMoved
    <3>2. CASE jobs[s].state = "COMPLETED"
      <4>1. Registered(s) /\ registry[s].refs = references(Id(jobs[s].attempt))
        BY <2>1, <3>1, <3>2 DEF CompletedIsRegistered
      <4>2. registry'[s] = registry[s]
        BY <1>2, <4>1
      <4> QED
        BY <3>1, <4>1, <4>2 DEF Outcome, Registered
    <3> QED
      BY <3>1, <3>2
  <2> QED
    BY <2>2 DEF CompletedIsRegistered, Outcome
<1>8. ClaimedFirst'
  <2>1. ClaimedFirst /\ Claim(a.source)
    BY <1>0 DEF IInv, Tables
  <2>2. EffectsClaimed'
    BY <2>1 DEF ClaimedFirst, EffectsClaimed
  <2>3. a.source \in Esxi => reserved[a.source] # None /\ reserved[a.source].host = a.host
    <3>1. [host |-> a.host, id |-> Id(a)] \in Claiming
      BY <1>0 DEF Claiming
    <3> QED
      BY <1>0, <2>1, <3>1, NoneIs, SMTT(30) DEF Claim
  <2>4. ASSUME NEW h \in Hosts, NEW s \in Claimants(h)' PROVE s \in Claimants(h)
    <3>1. CASE s = a.source /\ s \in existing(h)'
      <4>1. s \in Esxi /\ row.anchor = a.host
        BY <1>1, <3>1 DEF existing
      <4>2. h = a.host
        BY <1>0, <1>2, <3>1, <4>1, NoneIs DEF existing, registration_anchor
      <4> QED
        BY <1>0, <2>3, <3>1, <4>1, <4>2 DEF Claimants
    <3>2. CASE s # a.source /\ s \in existing(h)'
      <4>1. s \in Esxi /\ s \in Sources /\ registry'[s] = registry[s]
        BY <1>2, <3>2, EsxiSources DEF existing
      <4> QED
        BY <3>2, <4>1 DEF Claimants, existing, Registered, registration_anchor
    <3>3. CASE s \notin existing(h)'
      BY <2>4, <3>3 DEF Claimants
    <3> QED
      BY <3>1, <3>2, <3>3
  <2> QED
    BY <2>1, <2>2, <2>4 DEF ClaimedFirst, OneClaim
<1> QED
  BY <1>2, <1>4, <1>5, <1>6, <1>7, <1>8 DEF Tables

\* A thread that ends with the row of its request.
LEMMA RowStep == ASSUME IInv, NEW p \in Procs, req[p] \in Attempts, NEW refs \in SUBSET Keys, ~Registered(req[p].source),
                        LocalTyped, Alone(p), at'[p] = "idle", JobsMoved, RestTyped,
                        registry' = [registry EXCEPT ![req[p].source] = staged_config(req[p], refs, own[p])],
                        at[p] \in {"insert", "dinsert"},
                        \A k \in refs : Whole(k) /\ (k[1] \in Ids \/ Spent(k)'),
                        UNCHANGED <<mode, reserved, intents, files, journal, catalog, made, wire, fresh>>
                 PROVE  IInv'
<1>0. TypeOK /\ Knows(p) /\ Threads /\ own[p] \in BOOLEAN
  BY DEF IInv, Threads, TypeOK
<1>1. Grows /\ \A q \in Procs : Keeps(q)
  <2>1. fresh' \in Nat /\ fresh <= fresh'
    BY <1>0, FreshFact, SMTT(30)
  <2>2. \A q \in Procs : Keeps(q)
    BY DEF Keeps, Whole
  <2> QED
    BY <2>1, <2>2 DEF JobsMoved, Grows
<1>2. Threads' /\ \A k : Spent(k) => Spent(k)'
  BY <1>0, <1>1, IdleKnows, ThreadsKept
<1>3. \A k \in refs : Whole(k) /\ Spent(k)'
  BY <1>2, DerivedSpent
<1>4. /\ req[p].source \notin Closed /\ (req[p].source \in Esxi => intents[req[p].source] = req[p])
      /\ mode.durable => jobs[req[p].source] # None /\ jobs[req[p].source].attempt = req[p]
      /\ req[p].create => own[p] /\ made[Id(req[p])] > 0
  BY <1>0 DEF Knows, Requested, Cleared, Bound, Staged, Creator, Direct
<1>5. registry' \in [Sources -> Row] /\ Tables'
  BY <1>0, <1>2, <1>3, <1>4, RowTables
<1>6. TypeOK'
  BY <1>0, <1>5 DEF TypeOK, LocalTyped, JobsMoved, RestTyped
<1> QED
  BY <1>2, <1>5, <1>6 DEF IInv


\* The row is inserted for a durable job.
LEMMA InsertStep == ASSUME IInv, NEW p \in Procs, Insert(p) PROVE IInv'
<1> DEFINE s == req[p].source
           refs == references(Id(req[p]))
           row == [registry EXCEPT ![s] = staged_config(req[p], refs, own[p])]
<1>0. /\ at[p] = "insert" /\ TypeOK /\ Knows(p) /\ mode.durable /\ Staged(p)
      /\ req[p] \in Attempts /\ s \in Sources /\ Id(req[p]) \in Ids
      /\ jobs[s] # None /\ jobs[s].attempt = req[p] /\ registry \in [Sources -> Row]
  <2>1. at[p] = "insert" /\ TypeOK /\ Knows(p) /\ registry \in [Sources -> Row]
    BY DEF Insert, IInv, Threads, TypeOK
  <2>2. mode.durable /\ Staged(p)
    BY <2>1 DEF Knows, Requested, Staged
  <2> QED
    BY <2>1, <2>2, AtStep
<1>1. /\ UNCHANGED <<mode, reserved, intents, files, journal, catalog, made, wire, fresh>>
      /\ UNCHANGED <<tokens, foreign, cursor>>
  BY DEF Insert, netbox
<1>2. refs \in SUBSET Keys /\ \A k \in refs : Whole(k) /\ k[1] \in Ids
  <2>1. refs \in SUBSET Keys /\ \A k \in refs : k[1] = Id(req[p])
    BY <1>0, ReferenceKeys
  <2>2. \A k \in refs : Whole(k)
    BY <1>0 DEF Knows, Bound
  <2> QED
    BY <1>0, <2>1, <2>2
<1>3. row[s].present /\ row[s].refs = refs
  BY <1>0 DEF staged_config
<1>4. CASE mark(s, "COMPLETED") /\ Leave(p) /\ UNCHANGED faults /\ registry'[s].present /\ registry'[s].refs = refs
  <2>1. LocalTyped /\ Alone(p) /\ at'[p] = "idle" /\ RestTyped
    BY <1>0, <1>1, <1>4, LeaveEffect, RestSame
  <2>2. JobsMoved
    BY <1>0, <1>4, CompleteMoves
  <2>3. CASE UNCHANGED registry
    BY <1>1, <2>1, <2>2, <2>3, EndStep DEF RowsKept
  <2>4. CASE ~Registered(s) /\ registry' = row
    BY <1>0, <1>1, <1>2, <2>1, <2>2, <2>4, RowStep
  <2>5. UNCHANGED registry \/ (~Registered(s) /\ registry' = row)
    BY DEF Insert
  <2> QED
    BY <2>3, <2>4, <2>5
<1>5. CASE Fail(p, "UNCERTAIN") /\ (faults' = faults \/ Fault)
  <2>1. LocalTyped /\ Alone(p) /\ at'[p] = "idle" /\ JobsMoved /\ RestTyped
    BY <1>0, <1>1, <1>5, FailEffect, RestSame
  <2>2. CASE UNCHANGED registry
    BY <1>1, <2>1, <2>2, EndStep DEF RowsKept
  <2>3. CASE ~Registered(s) /\ registry' = row
    BY <1>0, <1>1, <1>2, <2>1, <2>3, RowStep
  <2>4. UNCHANGED registry \/ (~Registered(s) /\ registry' = row)
    BY DEF Insert
  <2> QED
    BY <2>2, <2>3, <2>4
<1>6. CASE Registered(s)
  <2>1. CASE registry[s] = staged_config(req[p], refs, own[p])
    <3>1. registry[s].present /\ registry[s].refs = refs
      BY <2>1, SMTT(30) DEF staged_config
    <3> QED
      BY <1>4, <1>6, <2>1, <3>1 DEF Insert
  <2>2. CASE registry[s] # staged_config(req[p], refs, own[p])
    BY <1>5, <1>6, <2>2 DEF Insert
  <2> QED
    BY <2>1, <2>2
<1>7. CASE ~Registered(s)
  <2>1. \/ registry' = row /\ mark(s, "COMPLETED") /\ Leave(p) /\ UNCHANGED faults
        \/ Fault /\ Fail(p, "UNCERTAIN")
    BY <1>7 DEF Insert
  <2> QED
    BY <1>3, <1>4, <1>5, <2>1
<1> QED
  BY <1>6, <1>7

\* The row is inserted without one.
LEMMA PersistStep == ASSUME IInv, NEW w \in Procs, Persist(w) PROVE IInv'
<1> DEFINE s == req[w].source
           row == [registry EXCEPT ![s] = staged_config(req[w], DirectKeys(w), own[w])]
<1>0. /\ at[w] = "dinsert" /\ at[w] \in Direct /\ TypeOK /\ Apart /\ Knows(w) /\ \A q \in Procs : Knows(q)
      /\ req[w] \in Attempts /\ s \in Sources /\ faults \in Nat
      /\ LocalTyped /\ Alone(w) /\ at'[w] = "idle" /\ JobsMoved
      /\ UNCHANGED <<mode, reserved, intents, jobs, journal, catalog, made, wire, fresh>>
      /\ UNCHANGED <<tokens, foreign, cursor>>
  <2>1. at[w] = "dinsert" /\ at[w] \in Direct /\ TypeOK /\ Apart /\ Knows(w) /\ \A q \in Procs : Knows(q)
    BY DEF Persist, IInv, Threads, Direct
  <2>2. req[w] \in Attempts /\ s \in Sources
    BY <2>1, AtStep
  <2>3. faults \in Nat
    BY <2>1, Bounds, SMTT(30) DEF TypeOK
  <2>4. LocalTyped /\ Alone(w) /\ at'[w] = "idle" /\ JobsMoved
    BY <2>1, LeaveEffect, JobsSame DEF Persist
  <2> QED
    BY <2>1, <2>2, <2>3, <2>4 DEF Persist, netbox
<1>1. RestTyped
  <2>1. faults' = faults \/ Fault
    BY <1>0, SMTT(30) DEF Persist, Fault
  <2> QED
    BY <1>0, <2>1, RestSame
<1>2. CASE UNCHANGED <<registry, files>>
  BY <1>0, <1>1, <1>2, EndStep DEF RowsKept
<1>3. CASE ~Registered(s) /\ registry' = row /\ UNCHANGED files
  <2>1. DirectKeys(w) \in SUBSET Keys /\ \A k \in DirectKeys(w) : Whole(k)
    BY <1>0, WrittenKeys DEF Knows, Written
  <2>2. ASSUME NEW k \in DirectKeys(w) PROVE k[1] \in Ids \/ Spent(k)'
    <3>1. CASE s \in Esxi
      BY <1>0, <2>2, <3>1, WrittenKeys
    <3>2. CASE s \notin Esxi
      <4>1. /\ Holds(w) /\ tok[w][1] \in 1..fresh /\ tok[w][1] \in 1..MaxFresh
            /\ k[1] = <<tok[w][1]>>
        BY <1>0, <2>2, <3>2, WrittenKeys
      <4>2. ASSUME NEW q \in Procs, Holds(q)' PROVE k \notin RandomKeys(tok[q][1])'
        <5>1. q # w /\ Holds(q) /\ tok'[q] = tok[q]
          BY <1>0, <4>2, IdleKnows DEF Alone, Holds
        <5>2. tok[q][1] \in 1..MaxFresh /\ tok[q][1] # tok[w][1]
          BY <1>0, <4>1, <5>1, WrittenKeys DEF Apart, Holds
        <5>3. k \notin RandomKeys(tok[q][1])
          <6>1. PICK n : n = tok[q][1]
            OBVIOUS
          <6>2. n \in 1..MaxFresh /\ n # tok[w][1]
            BY <5>2, <6>1
          <6>3. k \notin RandomKeys(n)
            BY <4>1, <6>2, RandomKeysAre, KeysApart
          <6> QED
            BY <6>1, <6>3
        <5> QED
          BY <5>1, <5>3 DEF RandomKeys
      <4>3. ASSUME NEW n \in (fresh + 1)..MaxFresh PROVE k \notin RandomKeys(n)
        <5>1. fresh \in Nat /\ MaxFresh \in Nat
          BY <1>0, FreshFact
        <5>2. n \in 1..MaxFresh /\ n # tok[w][1]
          BY <4>1, <4>3, <5>1, SMTT(30)
        <5> QED
          BY <4>1, <5>2, RandomKeysAre, KeysApart
      <4> QED
        BY <1>0, <4>2, <4>3 DEF Spent
    <3> QED
      BY <3>1, <3>2
  <2> QED
    BY <1>0, <1>1, <1>3, <2>1, <2>2, RowStep
<1>4. CASE s \notin Esxi /\ UNCHANGED registry /\ _rollback(w)
  <2>1. /\ files' \in [Keys -> File]
        /\ \A q \in Procs \ {w} : Keeps(q)
        /\ \A k \in Keys : Whole(k) /\ Spent(k) => Whole(k)'
        /\ \A i \in Ids : files'[<<i, "secret">>] = files[<<i, "secret">>]
    BY <1>0, <1>4, RollbackEffect
  <2>2. Knows(w)' /\ ~Holds(w)'
    BY <1>0, IdleKnows
  <2> QED
    BY <1>0, <1>1, <1>4, <2>1, <2>2, FilesStep
<1> QED
  BY <1>2, <1>3, <1>4 DEF Persist


-----------------------------------------------------------------------------
(* Legacy sources.                                                          *)

\* A legacy row takes an identity nobody else claims.
LEMMA LegacyStep == ASSUME IInv, NEW l \in mode.legacy, NEW row \in Row, registry' = [registry EXCEPT ![l] = row],
                           row.present, row.refs = registry[l].refs,
                           registration_anchor(row) # None => Unclaimed(l, registration_anchor(row)),
                           UNCHANGED <<mode, tokens, held, reserved, intents, jobs, files, netbox, cursor,
                                       at, req, tok, own, fresh, faults>>
                    PROVE  IInv'
<1>0. TypeOK /\ Threads /\ Tables /\ l \in Sources /\ l \in Esxi /\ registry \in [Sources -> Row]
  BY ModeFields DEF IInv, TypeOK
<1>1. /\ registry' \in [Sources -> Row] /\ registry'[l] = row
      /\ \A s \in Sources \ {l} : registry'[s] = registry[s]
  BY <1>0
<1>2. TypeOK'
  BY <1>0, <1>1 DEF TypeOK, netbox
<1>3. Threads' /\ \A k : Spent(k) => Spent(k)'
  <2>1. Cont \in Procs /\ Alone(Cont)
    BY DEF Procs, Alone
  <2>2. Grows /\ \A q \in Procs : Keeps(q)
    <3>1. fresh' \in Nat /\ fresh <= fresh'
      BY <1>0, FreshFact, SMTT(30)
    <3>2. \A q \in Procs : Keeps(q)
      BY DEF Keeps, Whole
    <3> QED
      BY <3>1, <3>2 DEF Grows, netbox
  <2>3. Knows(Cont)'
    BY <1>0, <2>1, <2>2, KnowsKept DEF Threads
  <2>4. Holds(Cont)' => Holds(Cont) /\ tok'[Cont] = tok[Cont]
    BY DEF Holds
  <2> QED
    BY <1>0, <2>1, <2>2, <2>3, <2>4, ThreadsKept
<1>4. ASSUME NEW s \in Sources PROVE (Claim(s) /\ JobIs(s) /\ RowIs(s))'
  <2>1. Claim(s) /\ JobIs(s) /\ RowIs(s)
    BY <1>0 DEF Tables
  <2>2. Claim(s)' /\ JobIs(s)'
    BY <2>1 DEF Claim, JobIs
  <2>3. CASE s = l
    BY <1>1, <2>1, <2>2, <2>3 DEF RowIs
  <2>4. CASE s # l
    <3>1. registry'[s] = registry[s]
      BY <1>1, <2>4
    <3> QED
      BY <2>1, <2>2, <3>1 DEF RowIs, netbox
  <2> QED
    BY <2>3, <2>4
<1>5. \A s \in Sources : registry'[s].refs = registry[s].refs /\ (registry'[s].present <=> registry[s].present)
  <2>1. registry[l].present
    BY <1>0 DEF Tables, RowIs
  <2> QED
    BY <1>1, <2>1
<1>6. RowsWhole'
  <2>1. \A k : Whole(k) => Whole(k)'
    BY DEF Whole
  <2> QED
    BY <1>0, <1>3, <1>5, <2>1 DEF Tables, RowsWhole
<1>7. NetIs' /\ ClusterOnce'
  BY <1>0 DEF Tables, NetIs, ClusterOnce, netbox
<1>8. CompletedIsRegistered'
  BY <1>0, <1>5 DEF Tables, CompletedIsRegistered, Registered
<1>9. ClaimedFirst'
  <2>1. OneClaim /\ EffectsClaimed
    BY <1>0 DEF Tables, ClaimedFirst
  <2>2. EffectsClaimed'
    BY <2>1 DEF EffectsClaimed, netbox
  <2>3. ASSUME NEW h \in Hosts, NEW s \in Claimants(h)', s # l
        PROVE  s \in Claimants(h) /\ registration_anchor(row) # h
    <3>1. s \in Sources /\ registry'[s] = registry[s]
      BY <1>1, <2>3, EsxiSources DEF Claimants, existing
    <3>2. s \in Claimants(h)
      BY <2>3, <3>1 DEF Claimants, existing, Registered, registration_anchor
    <3>3. ~Unclaimed(l, h)
      BY <2>3, <3>1, <3>2, SMTT(30) DEF Claimants, Unclaimed
    <3>4. h # None
      BY NoneIs
    <3> QED
      BY <3>2, <3>3, <3>4
  <2>4. ASSUME NEW h \in Hosts, l \in Claimants(h)', registration_anchor(row) # h
        PROVE  l \in Claimants(h)
    BY <1>1, <2>4 DEF Claimants, existing, registration_anchor
  <2>5. ASSUME NEW h \in Hosts, NEW s \in Claimants(h)', NEW t \in Claimants(h)', s # t PROVE FALSE
    <3>1. CASE registration_anchor(row) = h
      BY <2>3, <2>5, <3>1
    <3>2. CASE registration_anchor(row) # h
      BY <2>1, <2>3, <2>4, <2>5, <3>2, SMTT(30) DEF OneClaim
    <3> QED
      BY <3>1, <3>2
  <2> QED
    BY <2>2, <2>5 DEF ClaimedFirst, OneClaim
<1> QED
  BY <1>2, <1>3, <1>4, <1>6, <1>7, <1>8, <1>9 DEF IInv, Tables

\* A legacy source is admitted.
LEMMA AdmitLegacyStep == ASSUME IInv, NEW l \in mode.legacy, AdmitLegacy(l) PROVE IInv'
<1>0. l \in Sources /\ registry \in [Sources -> Row] /\ registry[l] \in Row
      /\ registration_anchor(registry[l]) = None /\ registry[l].present
  BY ModeFields DEF IInv, TypeOK, Tables, RowIs, AdmitLegacy
<1>1. PICK h \in Hosts \cup {None} : /\ h # None => Unclaimed(l, h)
                                     /\ registry' = [registry EXCEPT ![l].observed = h, ![l].enabled = FALSE]
  BY DEF AdmitLegacy
<1>2. PICK row : row = [registry[l] EXCEPT !.observed = h, !.enabled = FALSE]
  OBVIOUS
<1>3. registry' = [registry EXCEPT ![l] = row]
  BY <1>0, <1>1, <1>2
<1>4. registry[l].anchor = None
  BY <1>0 DEF registration_anchor
<1>5. row \in Row /\ row.present /\ row.refs = registry[l].refs /\ registration_anchor(row) = h
  BY <1>0, <1>2, <1>4 DEF Row, registration_anchor
<1> QED
  BY <1>1, <1>3, <1>5, LegacyStep DEF AdmitLegacy

\* A legacy source is verified.
LEMMA VerifyLegacyStep == ASSUME IInv, NEW l \in mode.legacy, VerifyLegacy(l) PROVE IInv'
<1>0. l \in Sources /\ registry \in [Sources -> Row] /\ registry[l] \in Row /\ registry[l].present
  BY ModeFields DEF IInv, TypeOK, Tables, RowIs
<1>1. PICK h \in Hosts : /\ Unclaimed(l, h)
                         /\ registry' = [registry EXCEPT ![l].anchor = h, ![l].observed = None]
  BY DEF VerifyLegacy
<1>2. PICK row : row = [registry[l] EXCEPT !.anchor = h, !.observed = None]
  OBVIOUS
<1>3. registry' = [registry EXCEPT ![l] = row]
  BY <1>0, <1>1, <1>2
<1>5. row \in Row /\ row.present /\ row.refs = registry[l].refs /\ registration_anchor(row) = h
  BY <1>0, <1>2, NoneIs DEF Row, registration_anchor
<1> QED
  BY <1>1, <1>3, <1>5, LegacyStep DEF VerifyLegacy


-----------------------------------------------------------------------------
(* The inductive invariant and what follows from it.                        *)

\* The invariant holds at first.
LEMMA InitInvariant == Init => IInv
<1> SUFFICES ASSUME Init PROVE IInv
  OBVIOUS
<1>0. mode \in Modes /\ mode.legacy \subseteq Legacy /\ mode.legacy \subseteq Sources
  BY ModeFields DEF Init
<1>1. NoRow \in Row /\ LegacyRow \in Row /\ LegacyRow.present /\ LegacyRow.refs = {} /\ ~NoRow.present
      /\ LegacyRow.anchor = None /\ LegacyRow.observed = None
  BY DEF NoRow, LegacyRow, Row
<1>2. registry \in [Sources -> Row]
      /\ \A s \in Sources : registry[s] = IF s \in mode.legacy THEN LegacyRow ELSE NoRow
  BY <1>1 DEF Init
<1>a. ASSUME NEW a \in mode.staged
      PROVE  a \in Attempts /\ a.source \in Sources /\ a.source \notin Esxi /\ Id(a) \in Ids /\ Id(a)[1] = a.source
  BY <1>0, StagedFields, AttemptFields
<1>b. /\ jobs \in [Sources -> JobRow \cup {None}]
      /\ \A s \in Sources : jobs[s] # None => /\ mode.durable /\ jobs[s].attempt.source = s
                                              /\ jobs[s].state = "READY"
  <2>1. ASSUME NEW s \in Sources
        PROVE  /\ jobs[s] \in JobRow \cup {None}
               /\ jobs[s] # None => /\ mode.durable /\ jobs[s].attempt.source = s /\ jobs[s].state = "READY"
    <3>1. CASE \E a \in mode.staged : a.source = s
      <4> DEFINE c == CHOOSE a \in mode.staged : a.source = s
      <4>1. c \in mode.staged /\ c.source = s
        BY <3>1
      <4>2. jobs[s] = [attempt |-> c, state |-> "READY"]
        BY <3>1 DEF Init
      <4>3. mode.durable /\ c \in Attempts
        BY <1>0, <1>a, <4>1, StagedFields
      <4> HIDE DEF c
      <4>4. [attempt |-> c, state |-> "READY"] \in JobRow
        BY <4>3 DEF JobRow
      <4>5. /\ [attempt |-> c, state |-> "READY"].attempt = c
            /\ [attempt |-> c, state |-> "READY"].state = "READY"
        OBVIOUS
      <4>6. jobs[s].attempt = c /\ jobs[s].state = "READY"
        BY <4>2, <4>5
      <4> QED
        BY <4>1, <4>2, <4>3, <4>4, <4>6
    <3>2. CASE ~\E a \in mode.staged : a.source = s
      BY <3>2 DEF Init
    <3> QED
      BY <3>1, <3>2
  <2>2. jobs = [s \in Sources |-> jobs[s]]
    BY DEF Init
  <2> QED
    BY <2>1, <2>2
<1>c. /\ files \in [Keys -> File]
      /\ \A k \in Keys : files[k] # NoFile => \E a \in mode.staged : k \in references(Id(a))
  <2>1. ASSUME NEW k \in Keys
        PROVE  /\ files[k] \in File
               /\ files[k] # NoFile => \E a \in mode.staged : k \in references(Id(a))
    <3>1. CASE \E a \in mode.staged : k \in references(Id(a))
      <4>1. PICK a \in mode.staged : k \in references(Id(a))
        BY <3>1
      <4>2. k[1] \in Ids
        <5>1. Id(a) \in Ids
          BY <1>a
        <5> QED
          BY <4>1, <5>1, ReferenceKeys
      <4>3. (CHOOSE v \in Values : TRUE) \in Values
        BY <1>0, <4>1, StagedFields
      <4>4. files[k] = [op |-> k[1], value |-> CHOOSE v \in Values : TRUE, complete |-> TRUE]
        BY <3>1 DEF Init
      <4>5. ASSUME NEW v \in Values PROVE [op |-> k[1], value |-> v, complete |-> TRUE] \in File
        BY <4>2 DEF File
      <4>6. files[k] \in File
        BY <4>3, <4>4, <4>5
      <4> QED
        BY <3>1, <4>6
    <3>2. CASE ~\E a \in mode.staged : k \in references(Id(a))
      BY <3>2 DEF Init, NoFile, File
    <3> QED
      BY <3>1, <3>2
  <2>2. files = [k \in Keys |-> files[k]]
    BY DEF Init
  <2> QED
    BY <2>1, <2>2
<1>3. TypeOK
  <2>2. fresh \in 0..MaxFresh /\ faults \in 0..MaxFaults
    BY Bounds, SMTT(30) DEF Init
  <2> QED
    BY <1>0, <1>2, <1>b, <1>c, <2>2 DEF Init, TypeOK, Places
<1>4. Threads
  <2>1. ASSUME NEW p \in Procs PROVE Knows(p) /\ ~Holds(p)
    <3>1. at[p] = "idle"
      BY DEF Init
    <3> QED
      BY <3>1 DEF Knows, Requested, Cleared, Bound, Staged, Creator, Handed, Written, Placing, Direct, Holds
  <2> QED
    BY <2>1 DEF Threads, Apart
<1>5. Tables
  <2>1. ASSUME NEW s \in Sources PROVE Claim(s) /\ JobIs(s) /\ RowIs(s)
    BY <1>1, <1>2, <1>b DEF Init, Claim, JobIs, RowIs
  <2>2. RowsWhole
    BY <1>1, <1>2 DEF RowsWhole
  <2>3. NetIs /\ ClusterOnce
    BY SMTT(30) DEF Init, NetIs, ClusterOnce
  <2>a. CompletedIsRegistered
    BY <1>b DEF CompletedIsRegistered
  <2>4. OneClaim
    <3>1. ASSUME NEW h \in Hosts PROVE Claimants(h) = {}
      <4>1. ASSUME NEW s \in Sources, registry[s].present PROVE registration_anchor(registry[s]) = None
        BY <1>1, <1>2, <4>1 DEF registration_anchor
      <4>2. h # None
        BY NoneIs
      <4> QED
        BY <4>1, <4>2, EsxiSources DEF Claimants, existing, Registered, Init
    <3> QED
      BY <3>1 DEF OneClaim
  <2>5. EffectsClaimed
    <3>1. ASSUME NEW i \in Ids, i[1] \in Esxi
          PROVE  files[<<i, "secret">>] = NoFile /\ journal[i] = None /\ ~(made[i] > 0)
      <4>1. <<i, "secret">> \in Keys
        BY ReferenceKeys
      <4>2. ASSUME NEW a \in mode.staged PROVE <<i, "secret">> \notin references(Id(a))
        <5>1. Id(a) # i
          BY <1>a, <3>1
        <5>2. <<i, "secret">> \in references(Id(a)) => <<i, "secret">>[1] = Id(a)
          BY <1>a, ReferenceKeys
        <5>3. <<i, "secret">>[1] = i
          BY SMTT(30)
        <5> QED
          BY <5>1, <5>2, <5>3
      <4>3. files[<<i, "secret">>] = NoFile
        BY <1>c, <4>1, <4>2
      <4>4. journal[i] = None /\ ~(made[i] > 0)
        BY SMTT(30) DEF Init
      <4> QED
        BY <4>3, <4>4
    <3> QED
      BY <3>1 DEF EffectsClaimed
  <2> QED
    BY <2>1, <2>2, <2>3, <2>a, <2>4, <2>5 DEF Tables, ClaimedFirst
<1> QED
  BY <1>3, <1>4, <1>5 DEF IInv

\* Every step keeps the invariant.
LEMMA NextInvariant == IInv /\ [Next]_vars => IInv'
<1> SUFFICES ASSUME IInv, [Next]_vars PROVE IInv'
  OBVIOUS
<1>0. Workers \subseteq Procs
  BY DEF Procs
<1>1. CASE UNCHANGED vars
  <2>1. RestTyped
    BY <1>1 DEF IInv, TypeOK, RestTyped, vars, netbox
  <2> QED
    BY <1>1, <2>1, QuietStep DEF vars, store, netbox
<1>2. ASSUME NEW a \in mode.attempts, NEW t \in Tokens, NEW v \in Values, ConnectionTest(a, v, t) PROVE IInv'
  BY <1>2, ConnectionTestStep
<1>3. ASSUME NEW t \in Tokens, Discard(t) PROVE IInv'
  BY <1>3, DiscardStep
<1>4. ASSUME NEW w \in Workers, NEW a \in mode.attempts, NEW t \in Tokens, Submit(w, a, t) PROVE IInv'
  BY <1>0, <1>4, SubmitStep
<1>5. ASSUME NEW w \in Workers, WorkerStep(w) PROVE IInv'
  <2>1. w \in Procs
    BY <1>0
  <2> QED
    BY <1>5, <2>1, AdmitStep, GuardStep, BeginStep, StageStep, ReadyStep, ConsumeStep, CreateSecretsStep, PersistStep
       DEF WorkerStep
<1>6. ASSUME NEW p \in Procs, Step(p) PROVE IInv'
  BY <1>6, AttestStep, LookupStep, ReguardStep, ResolveStep, ClusterStep, ValidateStep, InsertStep DEF Step
<1>7. ASSUME NEW p \in Procs, GiveUp(p) PROVE IInv'
  BY <1>7, GiveUpStep
<1>8. CASE Continue \/ Child \/ Crash \/ DropSessions
  BY <1>8, ContinueStep, ChildStep, CrashStep, DropSessionsStep
<1>9. ASSUME NEW i \in Ids, LatePost(i) PROVE IInv'
  BY <1>9, LatePostStep
<1>10. ASSUME NEW a \in mode.attempts \cup mode.staged, ForeignCluster(a.name) PROVE IInv'
  <2>1. a \in Attempts
    BY ModeFields, StagedFields DEF IInv, TypeOK
  <2>2. a.name \in Names
    BY <2>1, AttemptFields
  <2> QED
    BY <1>10, <2>2, ForeignClusterStep
<1>11. ASSUME NEW l \in mode.legacy, AdmitLegacy(l) \/ VerifyLegacy(l) PROVE IInv'
  BY <1>11, AdmitLegacyStep, VerifyLegacyStep
<1>12. CASE Next
  BY <1>2, <1>3, <1>4, <1>5, <1>6, <1>7, <1>8, <1>9, <1>10, <1>11, <1>12 DEF Next
<1> QED
  BY <1>1, <1>12

\* At each of its steps a thread knows its request, its claim, its job and its
\* files, and the tables fit together, whatever the others do, die or lose.
THEOREM RegistrationInvariant == Spec => []IInv
<1>1. Init => IInv
  BY InitInvariant
<1>2. IInv /\ [Next]_vars => IInv'
  BY NextInvariant
<1> QED
  BY <1>1, <1>2, PTL DEF Spec

\* HostReservations.reserve, registration_guard and the legacy confirmations: a
\* hardware identity has one claimant, also after the advisory locks were lost, and
\* an esxi attempt's file, journal entry or cluster comes after its reservation.
THEOREM IdentityClaimedFirst == Spec => []ClaimedFirst
<1>1. IInv => ClaimedFirst
  BY DEF IInv, Tables
<1> QED
  BY <1>1, RegistrationInvariant, PTL

\* SecretBrokerStore.create, _rollback: every file a registry row refers to is there,
\* complete and its operation's, whatever another attempt, a retry or a rollback did.
THEOREM RegisteredCredentialsKept == Spec => []CredentialsKept
<1>1. IInv => CredentialsKept
  BY DEF IInv, Tables, RowsWhole, CredentialsKept, Registered, Whole
<1> QED
  BY <1>1, RegistrationInvariant, PTL

\* register_staged, _persist_registration, CatalogCreation.execute: a registry row
\* comes from the intent and the job of one open request, onto the cluster it made
\* (once, behind the guard), and a job is COMPLETED only with its row.
THEOREM RowsAreApproved == Spec => []RegistrationSound
<1>1. IInv => RegistrationSound
  <2> SUFFICES ASSUME IInv PROVE RegistrationSound
    OBVIOUS
  <2>1. ASSUME NEW s \in Sources, s \notin Legacy, Registered(s)
        PROVE  /\ s \notin Closed
               /\ s \in Esxi => intents[s] = registry[s].by
               /\ mode.durable => jobs[s] # None /\ jobs[s].attempt = registry[s].by
               /\ registry[s].by.create => registry[s].own /\ made[Id(registry[s].by)] > 0
    <3>1. s \notin mode.legacy
      BY <2>1, ModeFields DEF IInv, TypeOK
    <3> QED
      BY <2>1, <3>1 DEF IInv, Tables, RowIs, Registered
  <2>2. CompletedIsRegistered /\ ClusterOnce
    BY DEF IInv, Tables
  <2> QED
    BY <2>1, <2>2 DEF RegistrationSound, RegisteredAsApproved, CreatedIsOurs
<1> QED
  BY <1>1, RegistrationInvariant, PTL
=============================================================================
