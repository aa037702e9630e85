---------------------------- MODULE NetBoxProofs ----------------------------
(***************************************************************************)
(* Proofs about the two components that write NetBox itself: Bootstrap,    *)
(* which prepares its custom fields, and Guard, which deletes and inserts  *)
(* in its tables.                                                          *)
(*                                                                         *)
(* Bootstrap, for any custom fields, any NetBoxes and any number of        *)
(* validations, plans and preparations: what is READY was validated, and   *)
(* no POST whose outcome is open is sent a second time.  The lemmas first  *)
(* say what the steps that leave the credentials and the marker alone      *)
(* preserve; then there is one lemma per group of actions.                 *)
(*                                                                         *)
(* Guard, for any objects, sources, requests and workers: a                *)
(* source that was closed stays empty, and nothing is deleted or changed   *)
(* but what its source owns and was reviewed.  First what the operations   *)
(* of service.py and its neighbours make of the tables (Evolves, and what  *)
(* a retirement takes); then the locks; then the steps and the theorems.   *)
(***************************************************************************)
EXTENDS Guard, Bootstrap, TLAPS
USE ZenonT(30)

\* ==== Bootstrap. ================================================================

\* NetBox's fields: none is deleted, and a ready one stays as it is.
Grows == \A u \in Urls, f \in Names :
           \/ customs'[u][f] = customs[u][f]
           \/ Classify(customs[u][f]) # "ready" /\ customs'[u][f] # {}
\* A step of the document that leaves the credentials and the marker alone.
DocSame == /\ doc'.revision = doc.revision /\ doc'.url = doc.url /\ doc'.tokens = doc.tokens
           /\ doc'.prep.uncertain = doc.prep.uncertain
StatusSame == /\ doc'.status \in {"VALIDATED", "READY"} => doc.status \in {"VALIDATED", "READY"}
              /\ doc'.status = "VALIDATING" => doc.status = "VALIDATING"

\* Unchanged custom fields grow.
LEMMA SameGrows == ASSUME UNCHANGED customs PROVE Grows
BY DEF Grows

\* Ready fields stay ready.
LEMMA SoundStays == ASSUME Grows, NEW c, c.url \in Urls, Sound(c) PROVE Sound(c)'
<1>1. \A f \in Names : Classify(customs[c.url][f]) = "ready"
  BY DEF Sound, AllReady, reconcile
<1>2. \A f \in Names : customs'[c.url][f] = customs[c.url][f]
  BY <1>1 DEF Grows
<1>3. \A f \in Names : Classify(customs'[c.url][f]) = "ready"
  BY <1>1, <1>2
<1>4. reconcile(c.url)' = [f \in Names |-> Classify(customs'[c.url][f])]
  BY DEF reconcile
<1> QED
  BY <1>3, <1>4 DEF Sound, AllReady

\* Steps that leave the credentials and the marker alone, and send nothing.
LEMMA Keeps ==
  ASSUME SetupIInv, doc' \in Doc, DocSame, StatusSame, Grows, probes' \subseteq probes, plans' \subseteq plans,
         posts' \subseteq posts, count'.runs \in Nat, count.runs <= count'.runs
  PROVE  /\ DocIs' /\ \A p \in probes' : ProbeIs(p)'
         /\ \A p \in plans' : PlanIs(p)'
         /\ \A p \in posts' : PostIs(p)'
<1>0. SetupTypeOK /\ doc \in Doc /\ DocIs
  BY DEF SetupIInv, SetupTypeOK
<1>1. DocIs'
  <2>1. PICK c : c = doc
    OBVIOUS
  <2>2. doc.status \in {"VALIDATED", "READY"} => Sound(c)'
    BY <1>0, <2>1, SoundStays DEF DocIs
  <2> QED
    BY <1>0, <2>1, <2>2 DEF DocIs, DocSame, StatusSame, Sound
<1>2. \A p \in probes' : ProbeIs(p)'
  <2> SUFFICES ASSUME NEW p \in probes, p \in probes' PROVE ProbeIs(p)'
    OBVIOUS
  <2>1. ProbeIs(p) /\ p.url \in Urls
    BY <1>0 DEF SetupIInv, SetupTypeOK, Probes
  <2>2. Sound(p) => Sound(p)'
    BY <2>1, SoundStays
  <2> QED
    BY <2>1, <2>2 DEF ProbeIs, DocSame
<1>3. \A p \in plans' : PlanIs(p)'
  <2> SUFFICES ASSUME NEW p \in plans, p \in plans' PROVE PlanIs(p)'
    OBVIOUS
  <2>1. PlanIs(p) /\ p.url \in Urls
    BY <1>0 DEF SetupIInv, SetupTypeOK, Plans
  <2>2. \A f \in Names : customs[p.url][f] # {} => customs'[p.url][f] # {}
    BY <2>1 DEF Grows
  <2> QED
    BY <2>1, <2>2 DEF PlanIs, DocSame
<1>4. \A p \in posts' : PostIs(p)'
  <2> SUFFICES ASSUME NEW p \in posts, p \in posts' PROVE PostIs(p)'
    OBVIOUS
  <2>1. PostIs(p) /\ p.url \in Urls /\ p.field \in Names /\ p.run \in Nat /\ count.runs \in Nat
    BY <1>0 DEF SetupIInv, SetupTypeOK
  <2>2. Open(p)' => Open(p)
    BY <2>1 DEF Grows, Open
  <2> QED
    BY <2>1, <2>2, SMTT(30) DEF PostIs, DocSame
<1> QED
  BY <1>1, <1>2, <1>3, <1>4

\* The preparation under way, when it does not move.
LEMMA RunStays ==
  ASSUME SetupIInv, DocSame, Grows, UNCHANGED <<run, held>>, posts' \subseteq posts, count'.runs = count.runs
  PROVE  RunIs'
<1> SUFFICES ASSUME run # Nil PROVE RunIs'
  BY DEF RunIs
<1>0. SetupTypeOK /\ run \in Run /\ RunIs
  BY DEF SetupIInv, SetupTypeOK
<1>1. \A p \in posts : Open(p)' => Open(p)
  BY <1>0 DEF SetupTypeOK, Grows, Open
<1>2. run.phase = "create" => doc'.prep.uncertain = run.field \/ customs'[run.url][run.field] # {}
  <2>1. run.url \in Urls /\ (run.phase = "create" => run.field \in Names)
    BY <1>0 DEF Run, RunIs
  <2> QED
    BY <1>0, <2>1 DEF RunIs, Grows, DocSame
<1> QED
  BY <1>0, <1>1, <1>2 DEF RunIs, Waits, GivenUp, DocSame

\* A step of the document alone.
LEMMA DocStep ==
  ASSUME SetupIInv, doc' \in Doc, DocSame, StatusSame,
         UNCHANGED <<stage, customs, probes, plans, run, reviewed, posts, worker, held, count>>
  PROVE  SetupIInv'
<1>1. SetupTypeOK' /\ Grows /\ count.runs \in Nat
  BY SameGrows DEF SetupIInv, SetupTypeOK
<1>2. RunIs' /\ WorkerIs'
  BY <1>1, RunStays DEF SetupIInv, WorkerIs, DocSame
<1> QED
  BY <1>1, <1>2, Keeps, SMTT(30) DEF SetupIInv

\* The document with another preparation that has the same marker.
LEMMA PrepSame ==
  ASSUME doc \in Doc, NEW x \in Prep, doc' = [doc EXCEPT !.prep = x], x.uncertain = doc.prep.uncertain
  PROVE  doc' \in Doc /\ DocSame /\ StatusSame
BY DEF Doc, DocSame, StatusSame

\* status(), the clocks, finish() and cancel().
LEMMA StatusStep == ASSUME SetupIInv, Status \/ AgeDoc \/ AgePrep \/ finish \/ cancel PROVE SetupIInv'
<1>0. doc \in Doc /\ doc.prep \in Prep
  BY DEF SetupIInv, SetupTypeOK, Doc
<1>1. UNCHANGED <<stage, customs, probes, plans, run, reviewed, posts, worker, held, count>>
  BY DEF Status, AgeDoc, AgePrep, finish, cancel
<1>2. CASE Status
  <2> DEFINE x == [doc.prep EXCEPT !.status = IF doc.prep.status = "RUNNING" /\ doc.prep.old THEN "UNCERTAIN" ELSE @]
             st == IF doc.status = "VALIDATING" /\ doc.old THEN "ATTENTION" ELSE doc.status
  <2>1. doc' = [doc EXCEPT !.status = st, !.prep = x]
    BY <1>0, <1>2 DEF Status, Expired, Doc
  <2>2. x \in Prep /\ x.uncertain = doc.prep.uncertain
    BY <1>0 DEF Prep, Statuses, Codes
  <2>3. st \in {"FRESH", "CONFIGURED", "VALIDATING", "VALIDATED", "ATTENTION", "READY"} /\ st \in {doc.status, "ATTENTION"}
    BY <1>0 DEF Doc
  <2> HIDE DEF x, st
  <2>4. doc' \in Doc /\ DocSame /\ StatusSame
    BY <1>0, <2>1, <2>2, <2>3 DEF Doc, DocSame, StatusSame
  <2> QED
    BY <1>1, <2>4, DocStep
<1>3. CASE AgeDoc
  <2>1. doc' \in Doc /\ DocSame /\ StatusSame
    BY <1>0, <1>3 DEF AgeDoc, Doc, DocSame, StatusSame
  <2> QED
    BY <1>1, <2>1, DocStep
<1>4. CASE AgePrep
  <2> DEFINE x == [doc.prep EXCEPT !.old = TRUE]
  <2>1. x \in Prep /\ x.uncertain = doc.prep.uncertain /\ doc' = [doc EXCEPT !.prep = x]
    BY <1>0, <1>4 DEF AgePrep, Prep
  <2> QED
    BY <1>0, <1>1, <2>1, PrepSame, DocStep
<1>5. CASE finish
  <2>1. doc' \in Doc /\ DocSame /\ StatusSame
    BY <1>0, <1>5 DEF finish, Doc, DocSame, StatusSame
  <2> QED
    BY <1>1, <2>1, DocStep
<1>6. CASE cancel
  <2> DEFINE x == [doc.prep EXCEPT !.status = "CANCELLED"]
  <2>1. x \in Prep /\ x.uncertain = doc.prep.uncertain /\ doc' = [doc EXCEPT !.prep = x]
    BY <1>0, <1>6 DEF cancel, Prep, Statuses
  <2> QED
    BY <1>0, <1>1, <2>1, PrepSame, DocStep
<1> QED
  BY <1>2, <1>3, <1>4, <1>5, <1>6

\* configure(): a new revision, not of another NetBox while a POST is open.
LEMMA ConfigureStep == ASSUME SetupIInv, NEW c \in Scope.configs, NEW again \in BOOLEAN, configure(c, again) PROVE SetupIInv'
<1>0. /\ SetupTypeOK /\ doc \in Doc /\ doc.prep \in Prep /\ c \in [url : Urls, read : Grants, apply : Grants]
  BY StagesAssumption DEF SetupIInv, SetupTypeOK, Doc, Scope
<1>1. /\ held = Nil /\ SameNetBox(c) /\ doc' = Configured(c)
      /\ UNCHANGED <<stage, customs, probes, plans, run, reviewed, posts, worker, held, count>>
  BY DEF configure, LockFree
<1>2. /\ doc' \in Doc /\ doc'.revision = doc.revision + 1 /\ doc.revision \in Nat /\ doc'.status = "CONFIGURED"
      /\ doc'.url = c.url /\ doc'.tokens # Nil /\ doc'.prep = doc.prep
  <2> DEFINE t == [read |-> c.read, apply |-> c.apply]
             n == doc.revision + 1
             u == c.url
  <2>1. t \in Tokens /\ t # Nil /\ u \in Urls
    BY <1>0, NilAssumption, SMTT(30) DEF Tokens
  <2>2. doc' = [doc EXCEPT !.revision = n, !.status = "CONFIGURED", !.url = u, !.tokens = t, !.old = FALSE]
    BY <1>1 DEF Configured
  <2>3. doc.revision \in Nat /\ n \in Nat
    BY <1>0, SMTT(30) DEF Doc
  <2> HIDE DEF t, n, u
  <2>4. doc' \in Doc
    BY <1>0, <2>1, <2>2, <2>3 DEF Doc
  <2>5. doc'.revision = n /\ doc'.status = "CONFIGURED" /\ doc'.url = u /\ doc'.tokens = t /\ doc'.prep = doc.prep
    BY <1>0, <2>2 DEF Doc
  <2> QED
    BY <2>1, <2>3, <2>4, <2>5 DEF n, u
<1>3. run = Nil /\ ~(worker # Nil /\ worker.is = "working")
  BY <1>1, NilAssumption DEF SetupIInv, RunIs, WorkerIs
<1>4. SetupTypeOK' /\ DocIs' /\ RunIs' /\ WorkerIs'
  BY <1>0, <1>1, <1>2, <1>3 DEF SetupTypeOK, DocIs, RunIs, WorkerIs
<1>5. \A p \in probes' : ProbeIs(p)'
  <2> SUFFICES ASSUME NEW p \in probes PROVE ProbeIs(p)'
    BY <1>1
  <2>1. ProbeIs(p) /\ p.revision \in Nat
    BY <1>0 DEF SetupIInv, SetupTypeOK, Probes
  <2>2. Sound(p) => Sound(p)'
    BY <1>1 DEF Sound, AllReady, reconcile
  <2> QED
    BY <1>2, <2>1, <2>2, SMTT(30) DEF ProbeIs
<1>6. \A p \in plans' : PlanIs(p)'
  <2> SUFFICES ASSUME NEW p \in plans PROVE PlanIs(p)'
    BY <1>1
  <2>1. PlanIs(p) /\ p.revision \in Nat
    BY <1>0 DEF SetupIInv, SetupTypeOK, Plans
  <2> QED
    BY <1>1, <1>2, <2>1, SMTT(30) DEF PlanIs
<1>7. \A p \in posts' : PostIs(p)'
  <2> SUFFICES ASSUME NEW p \in posts PROVE PostIs(p)'
    BY <1>1
  <2>1. PostIs(p) /\ p.field # Nil
    BY <1>0, NilAssumption DEF SetupIInv, SetupTypeOK
  <2>2. Open(p) => doc.prep # NoPreparation
    BY <2>1, SMTT(30) DEF PostIs, NoPreparation
  <2> QED
    BY <1>1, <1>2, <2>1, <2>2 DEF PostIs, Open, SameNetBox
<1> QED
  BY <1>4, <1>5, <1>6, <1>7 DEF SetupIInv

\* A new validation is of the configured credentials.
LEMMA ValidateBeginsStep == ASSUME SetupIInv, ValidateBegins PROVE SetupIInv'
<1> DEFINE n == count.attempts + 1
           new == [attempt |-> n, revision |-> doc.revision, url |-> doc.url, tokens |-> doc.tokens, code |-> Nil]
<1>0. SetupTypeOK /\ doc \in Doc /\ DocIs /\ count \in [attempts : Nat, runs : Nat, edits : Nat]
  BY DEF SetupIInv, SetupTypeOK
<1>1. /\ doc.tokens # Nil /\ doc' = [doc EXCEPT !.status = "VALIDATING", !.attempt = n, !.old = FALSE]
      /\ probes' = probes \cup {new} /\ count' = [count EXCEPT !.attempts = n]
      /\ UNCHANGED <<stage, customs, plans, run, reviewed, posts, worker, held>>
  BY DEF ValidateBegins
<1>2. new \in Probes /\ n \in Nat
  BY <1>0, <1>1, SMTT(30) DEF Probes, Doc, DocIs
<1>3. count' \in [attempts : Nat, runs : Nat, edits : Nat] /\ count'.runs = count.runs /\ count.runs \in Nat
  BY <1>0, <1>1, <1>2
<1>4. new.revision = doc.revision /\ new.url = doc.url /\ new.tokens = doc.tokens /\ new.code = Nil
  OBVIOUS
<1> HIDE DEF n, new
<1>5. doc' \in Doc /\ DocSame /\ doc'.status = "VALIDATING"
  BY <1>0, <1>1, <1>2 DEF Doc, DocSame
<1>6. SetupTypeOK' /\ Grows
  BY <1>0, <1>1, <1>2, <1>3, <1>5, SameGrows DEF SetupTypeOK
<1>7. DocIs' /\ RunIs' /\ WorkerIs'
  BY <1>0, <1>1, <1>3, <1>5, <1>6, RunStays DEF SetupIInv, DocIs, WorkerIs, DocSame
<1>8. \A p \in probes' : ProbeIs(p)'
  <2>1. ASSUME NEW p \in probes PROVE ProbeIs(p)'
    <3>1. ProbeIs(p)
      BY DEF SetupIInv
    <3>2. Sound(p) => Sound(p)'
      BY <1>1 DEF Sound, AllReady, reconcile
    <3> QED
      BY <1>5, <3>1, <3>2 DEF ProbeIs, DocSame
  <2>2. ASSUME NEW p, p = new PROVE ProbeIs(p)'
    BY <1>0, <1>4, <1>5, <2>2, NilAssumption, SMTT(30) DEF ProbeIs, DocSame, Doc
  <2> QED
    BY <1>1, <2>1, <2>2
<1>9. (\A p \in plans' : PlanIs(p)') /\ (\A p \in posts' : PostIs(p)')
  BY <1>1, <1>3, <1>5 DEF SetupIInv, PlanIs, PostIs, Open, DocSame
<1> QED
  BY <1>6, <1>7, <1>8, <1>9 DEF SetupIInv

\* What a probe finds holds then, and from then on.
LEMMA ProbeStep == ASSUME SetupIInv, NEW p \in probes, Probe(p) PROVE SetupIInv'
<1>0. SetupTypeOK /\ p \in Probes /\ ProbeIs(p)
  BY DEF SetupIInv, SetupTypeOK
<1>1. PICK code \in probe(p) : probes' = (probes \ {p}) \cup {[p EXCEPT !.code = IF code = "ok" THEN code ELSE "failed"]}
  BY DEF Probe
<1> DEFINE q == [p EXCEPT !.code = IF code = "ok" THEN code ELSE "failed"]
<1>2. UNCHANGED <<stage, doc, customs, plans, run, reviewed, posts, worker, held, count>>
  BY DEF Probe
<1>3. code = "ok" => Sound(p)
  <2> SUFFICES ASSUME code = "ok" PROVE Sound(p)
    OBVIOUS
  <2>1. _check_endpoint(p.tokens) = "ok"
    BY <1>1 DEF probe, _check_endpoint
  <2>2. p.tokens.read = "reader" /\ p.tokens.apply = "writer"
    BY <1>0, <2>1 DEF _check_endpoint, Probes, Tokens, Grants
  <2>3. _check_prerequisites(p.url) = "ok"
    BY <1>1, <2>1 DEF probe, _check_guard
  <2> QED
    BY <2>2, <2>3 DEF Sound, _check_prerequisites
<1>4. /\ q \in Probes /\ q.revision = p.revision /\ q.url = p.url /\ q.tokens = p.tokens
      /\ q.code = "ok" => code = "ok"
  BY <1>0 DEF Probes
<1>5. probes' = (probes \ {p}) \cup {q}
  BY <1>1
<1> HIDE DEF q
<1>6. SetupTypeOK' /\ Grows /\ DocSame /\ StatusSame
  BY <1>0, <1>2, <1>4, <1>5, SameGrows DEF SetupTypeOK, DocSame, StatusSame
<1>7. \A x \in probes' : ProbeIs(x)'
  <2>1. ASSUME NEW x \in probes PROVE ProbeIs(x)'
    BY <1>2 DEF SetupIInv, ProbeIs, Sound, AllReady, reconcile
  <2>2. ASSUME NEW x, x = q PROVE ProbeIs(x)'
    BY <1>0, <1>2, <1>3, <1>4, <2>2 DEF ProbeIs, Sound, AllReady, reconcile
  <2> QED
    BY <1>5, <2>1, <2>2
<1>8. RunIs' /\ WorkerIs' /\ DocIs' /\ (\A x \in plans' : PlanIs(x)') /\ (\A x \in posts' : PostIs(x)')
  BY <1>2, <1>6, RunStays DEF SetupIInv, WorkerIs, DocIs, PlanIs, PostIs, Open, Sound, AllReady, reconcile
<1> QED
  BY <1>6, <1>7, <1>8 DEF SetupIInv

\* The second section of validate(), or none.
LEMMA ValidateEndsStep == ASSUME SetupIInv, NEW p \in probes, ValidateEnds(p) \/ ValidateLost(p) PROVE SetupIInv'
<1>0. SetupTypeOK /\ p \in Probes /\ ProbeIs(p) /\ doc \in Doc /\ DocIs /\ count.runs \in Nat
  BY DEF SetupIInv, SetupTypeOK
<1>1. probes' \subseteq probes /\ UNCHANGED <<stage, customs, plans, run, reviewed, posts, worker, held, count>>
  BY DEF ValidateEnds, ValidateLost
<1>2. ASSUME doc' \in Doc, DocSame, DocIs' PROVE SetupIInv'
  <2>1. SetupTypeOK' /\ Grows
    BY <1>0, <1>1, <1>2, SameGrows DEF SetupTypeOK
  <2>2. \A x \in probes' : ProbeIs(x)'
    BY <1>1, <1>2 DEF SetupIInv, ProbeIs, DocSame, Sound, AllReady, reconcile
  <2>3. RunIs' /\ WorkerIs' /\ (\A x \in plans' : PlanIs(x)') /\ (\A x \in posts' : PostIs(x)')
    BY <1>1, <1>2, <2>1, RunStays DEF SetupIInv, WorkerIs, PlanIs, PostIs, Open, DocSame
  <2> QED
    BY <1>2, <2>1, <2>2, <2>3 DEF SetupIInv
<1>3. CASE doc' = doc
  BY <1>0, <1>1, <1>2, <1>3 DEF DocSame, DocIs, Sound, AllReady, reconcile
<1>4. CASE /\ Awaited(p)
           /\ doc' = [doc EXCEPT !.status = IF p.code = "ok" THEN "VALIDATED" ELSE "ATTENTION", !.old = FALSE]
  <2>1. doc' \in Doc /\ DocSame /\ doc'.status = IF p.code = "ok" THEN "VALIDATED" ELSE "ATTENTION"
    BY <1>0, <1>4 DEF Doc, DocSame
  <2>2. p.url = doc.url /\ p.tokens = doc.tokens /\ doc.tokens # Nil
    BY <1>0, <1>4 DEF Awaited, ProbeIs, DocIs
  <2>3. DocIs'
    BY <1>0, <1>1, <2>1, <2>2 DEF DocIs, DocSame, ProbeIs, Sound, AllReady, reconcile
  <2> QED
    BY <1>2, <2>1, <2>3
<1> QED
  BY <1>3, <1>4 DEF ValidateEnds, ValidateLost

\* The worker: admitted, and later at work under apply.lock.
LEMMA WorkerStep == ASSUME SetupIInv, _admit_write \/ runtime_netbox \/ WorkerEnds PROVE SetupIInv'
<1>0. SetupTypeOK /\ doc \in Doc /\ doc.revision \in Nat
  BY DEF SetupIInv, SetupTypeOK, Doc
<1>1. UNCHANGED <<stage, doc, customs, probes, plans, run, reviewed, posts, count>>
  BY DEF _admit_write, runtime_netbox, WorkerEnds
<1>2. /\ worker' \in {Nil} \cup [is : {"admitted", "working"}, revision : Nat] /\ held' \in {Nil, "run", "worker"}
      /\ WorkerIs' /\ (run # Nil => held' = held)
  <2>1. CASE _admit_write
    BY <1>0, <2>1 DEF _admit_write, SetupTypeOK, WorkerIs
  <2>2. CASE runtime_netbox
    BY <1>0, <2>2, NilAssumption, SMTT(30) DEF runtime_netbox, SetupTypeOK, WorkerIs, SetupIInv, RunIs
  <2>3. CASE WorkerEnds
    BY <1>0, <2>3, NilAssumption DEF WorkerEnds, SetupIInv, WorkerIs, RunIs
  <2> QED
    BY <2>1, <2>2, <2>3
<1>3. SetupTypeOK'
  BY <1>0, <1>1, <1>2 DEF SetupTypeOK
<1>4. RunIs'
  BY <1>1, <1>2 DEF SetupIInv, RunIs, Waits, GivenUp, Open
<1>5. DocIs' /\ (\A p \in probes' : ProbeIs(p)') /\ (\A p \in plans' : PlanIs(p)') /\ (\A p \in posts' : PostIs(p)')
  BY <1>1 DEF SetupIInv, DocIs, ProbeIs, PlanIs, PostIs, Open, Sound, AllReady, reconcile
<1> QED
  BY <1>2, <1>3, <1>4, <1>5 DEF SetupIInv

\* The fields NetBox has, as a report.
LEMMA ReconcileIs == ASSUME SetupTypeOK, NEW u \in Urls
                     PROVE  /\ reconcile(u) \in [Names -> Kinds] /\ reconcile(u) # Nil
                            /\ \A f \in Names : reconcile(u)[f] = "missing" <=> customs[u][f] = {}
<1>1. ASSUME NEW f \in Names PROVE Classify(customs[u][f]) \in Kinds /\ (Classify(customs[u][f]) = "missing" <=> customs[u][f] = {})
  <2>1. CASE customs[u][f] = {}
    BY <2>1 DEF Classify, Kinds
  <2>2. CASE customs[u][f] # {} /\ \E r, s \in customs[u][f] : r # s
    BY <2>2 DEF Classify, Kinds
  <2>3. CASE customs[u][f] # {} /\ ~\E r, s \in customs[u][f] : r # s
    BY <2>3 DEF Classify, Kinds
  <2> QED
    BY <2>1, <2>2, <2>3
<1>2. reconcile(u) \in [Names -> Kinds]
  BY <1>1 DEF reconcile
<1> QED
  BY <1>1, <1>2, NilAssumption DEF reconcile

\* What is read of the fields, and a review.
LEMMA PlanReadStep == ASSUME SetupIInv, ReviewPlan \/ PlanBegins \/ \E p \in plans : PlanReads(p) PROVE SetupIInv'
<1>0. SetupTypeOK /\ doc \in Doc /\ DocIs /\ doc.prep \in Prep
  BY DEF SetupIInv, SetupTypeOK, Doc
<1>1. UNCHANGED <<stage, doc, customs, probes, run, posts, worker, held, count>>
  BY DEF ReviewPlan, PlanBegins, PlanReads
<1>2. /\ plans' \subseteq Plans /\ reviewed' \in {Nil} \cup Digests
      /\ \A p \in plans' : PlanIs(p)'
  <2>1. CASE ReviewPlan
    BY <1>0, <1>1, <2>1, SMTT(30) DEF ReviewPlan, SetupTypeOK, SetupIInv, PlanIs, Prep
  <2>2. CASE PlanBegins
    <3> DEFINE new == [revision |-> doc.revision, url |-> doc.url, tokens |-> doc.tokens, fields |-> Nil]
    <3>1. doc.tokens # Nil /\ plans' = {new} /\ reviewed' = reviewed
      BY <2>2 DEF PlanBegins
    <3>2. new \in Plans /\ new.revision = doc.revision /\ new.url = doc.url /\ new.fields = Nil
      BY <1>0, <3>1 DEF Plans, Doc, DocIs
    <3> HIDE DEF new
    <3>3. ASSUME NEW p, p = new PROVE PlanIs(p)'
      BY <1>0, <1>1, <3>2, <3>3, SMTT(30) DEF PlanIs, Doc
    <3> QED
      BY <1>0, <3>1, <3>2, <3>3 DEF SetupTypeOK
  <2>3. ASSUME NEW p \in plans, PlanReads(p)
        PROVE  /\ plans' \subseteq Plans /\ reviewed' \in {Nil} \cup Digests
               /\ \A x \in plans' : PlanIs(x)'
    <3>1. PICK fields \in read_fields(p.url, p.tokens) : plans' = IF fields = Nil THEN {} ELSE {[p EXCEPT !.fields = fields]}
      BY <2>3 DEF PlanReads
    <3>2. p \in Plans /\ PlanIs(p) /\ p.url \in Urls /\ reviewed' = reviewed
      BY <1>0, <2>3 DEF SetupTypeOK, SetupIInv, Plans, PlanReads
    <3>3. fields # Nil => fields = reconcile(p.url)
      BY DEF read_fields
    <3>4. CASE fields = Nil
      BY <1>0, <3>1, <3>2, <3>4 DEF SetupTypeOK
    <3>5. CASE fields # Nil
      <4> DEFINE new == [p EXCEPT !.fields = fields]
      <4>1. /\ fields \in [Names -> Kinds] /\ \A f \in Names : fields[f] = "missing" <=> customs[p.url][f] = {}
        BY <1>0, <3>2, <3>3, <3>5, ReconcileIs, SMTT(30)
      <4>2. new \in Plans /\ new.revision = p.revision /\ new.url = p.url /\ new.fields = fields
        BY <3>2, <4>1 DEF Plans
      <4>3. plans' = {new}
        BY <3>1, <3>5
      <4> HIDE DEF new
      <4>4. ASSUME NEW x, x = new PROVE PlanIs(x)'
        BY <1>1, <3>2, <4>1, <4>2, <4>4 DEF PlanIs
      <4> QED
        BY <1>0, <3>2, <4>2, <4>3, <4>4 DEF SetupTypeOK
    <3> QED
      BY <3>4, <3>5
  <2> QED
    BY <2>1, <2>2, <2>3
<1>3. SetupTypeOK'
  BY <1>0, <1>1, <1>2 DEF SetupTypeOK
<1>4. DocSame /\ Grows /\ count'.runs = count.runs
  BY <1>1, SameGrows DEF DocSame
<1>5. RunIs' /\ WorkerIs' /\ DocIs' /\ (\A p \in probes' : ProbeIs(p)') /\ (\A p \in posts' : PostIs(p)')
  BY <1>1, <1>4, RunStays DEF SetupIInv, WorkerIs, DocIs, ProbeIs, PostIs, Open, Sound, AllReady, reconcile
<1> QED
  BY <1>2, <1>3, <1>5 DEF SetupIInv

\* plan() stores what it read; the marker goes only when its field was seen in NetBox.
LEMMA PlanEndsStep == ASSUME SetupIInv, NEW p \in plans, PlanEnds(p) PROVE SetupIInv'
<1>0. /\ SetupTypeOK /\ doc \in Doc /\ DocIs /\ doc.prep \in Prep /\ p \in Plans /\ PlanIs(p)
      /\ count.runs \in Nat
  BY DEF SetupIInv, SetupTypeOK, Doc
<1>1. /\ p.fields # Nil /\ plans' = {}
      /\ UNCHANGED <<stage, customs, probes, run, reviewed, posts, worker, held, count>>
  BY DEF PlanEnds
<1>2. CASE doc' = doc
  <2>1. DocSame /\ StatusSame /\ Grows /\ SetupTypeOK'
    BY <1>0, <1>1, <1>2, SameGrows DEF DocSame, StatusSame, SetupTypeOK
  <2>2. RunIs' /\ WorkerIs'
    BY <1>1, <1>2, <2>1, RunStays DEF SetupIInv, WorkerIs
  <2> QED
    BY <1>0, <1>1, <1>2, <2>1, <2>2, Keeps, SMTT(30) DEF SetupIInv
<1>3. CASE doc' # doc
  <2> DEFINE u == StillUncertain(p.fields)
             st == IF u # Nil THEN "UNCERTAIN" ELSE "PLANNED"
             d == digest(p.revision, doc.url, p.fields)
             x == [doc.prep EXCEPT !.status = st, !.fields = p.fields, !.digest = d, !.uncertain = u, !.run = 0, !.old = FALSE]
  <2>1. p.revision = doc.revision /\ doc' = [doc EXCEPT !.prep = x]
    BY <1>3 DEF PlanEnds, check
  <2>2. p.url = doc.url /\ p.fields \in [Names -> Kinds] /\ p.url \in Urls /\ p.revision \in Nat
    BY <1>0, <1>1, <2>1 DEF PlanIs, Plans
  <2>3. d \in Digests
    BY <2>2 DEF digest, Digests
  <2>4. u \in {Nil} \cup Names /\ (u # doc.prep.uncertain => /\ doc.prep.uncertain \in Names
                                                         /\ customs[doc.url][doc.prep.uncertain] # {})
    BY <1>0, <1>1, <2>2 DEF StillUncertain, PlanIs, Prep
  <2>5. st \in Statuses
    BY DEF Statuses, Codes
  <2> HIDE DEF u, st, d
  <2>6. x \in Prep /\ x.uncertain = u
    BY <1>0, <2>2, <2>3, <2>4, <2>5 DEF Prep
  <2> HIDE DEF x
  <2>7. /\ doc' \in Doc /\ doc'.revision = doc.revision /\ doc'.url = doc.url /\ doc'.tokens = doc.tokens
        /\ doc'.status = doc.status /\ doc'.prep.uncertain = u
    BY <1>0, <2>1, <2>6 DEF Doc
  <2>8. SetupTypeOK' /\ DocIs' /\ WorkerIs' /\ \A q \in probes' : ProbeIs(q)'
    BY <1>0, <1>1, <2>7, SMTT(30) DEF SetupTypeOK, SetupIInv, DocIs, WorkerIs, ProbeIs, Sound, AllReady, reconcile
  <2>9. \A q \in posts' : PostIs(q)'
    <3> SUFFICES ASSUME NEW q \in posts PROVE PostIs(q)'
      BY <1>1
    <3>1. PostIs(q)
      BY DEF SetupIInv
    <3> QED
      BY <1>1, <2>4, <2>7, <3>1 DEF PostIs, Open
  <2>10. RunIs'
    BY <1>1, <2>4, <2>7 DEF SetupIInv, RunIs, Waits, GivenUp, Open
  <2> QED
    BY <1>1, <2>8, <2>9, <2>10 DEF SetupIInv
<1> QED
  BY <1>2, <1>3

\* No update, and one field of it.
LEMMA KeptIs == /\ Kept \in Upd /\ Kept.uncertain = "kept"
                /\ \A st \in Statuses : LET k == [Kept EXCEPT !.status = st] IN k \in Upd /\ k.uncertain = "kept"
                /\ \A f \in {Nil} \cup Names : LET k == [Kept EXCEPT !.uncertain = f] IN k \in Upd /\ k.uncertain = f
                /\ \A r \in Revocations : [Kept EXCEPT !.revocation = r] \in Upd
                /\ \A fields \in [Names -> Kinds] : [Kept EXCEPT !.fields = fields] \in Upd
<1>1. Kept \in Upd /\ Kept.uncertain = "kept"
  BY DEF Kept, Upd
<1> QED
  BY <1>1 DEF Upd

\* The next phase of a preparation, and a save.
Same(x) == /\ x.id = run.id /\ x.url = run.url /\ x.field = run.field /\ x.todo = run.todo /\ x.code = run.code
\* Where a run goes, with its record.
LEMMA GoIs == ASSUME run \in Run, NEW phase \in RunPhases
              PROVE  Go(phase) \in Run /\ Go(phase).phase = phase /\ Same(Go(phase)) /\ Go(phase).upd = run.upd
BY DEF Go, Run, Same
\* A run that saves, with its record.
LEMMA SavingIs == ASSUME run \in Run, NEW upd \in Upd, NEW then \in Thens
                  PROVE  LET x == Saving(upd, then) IN
                         x \in Run /\ x.phase = "save" /\ x.upd = upd /\ x.then = then /\ Same(x)
BY DEF Saving, Run, Same, RunPhases

\* The preparation moves, and nothing else does.
Others == <<stage, doc, customs, probes, plans, reviewed, posts, worker, held, count>>
\* A run that moves or saves stays a run.
LEMMA RunMoves ==
  ASSUME SetupIInv, run # Nil, NEW x \in Run, run' = x, UNCHANGED Others, x.id = run.id, x.url = run.url,
         x.phase \notin {"create", "sent"}, Waits \/ GivenUp => GivenUp',
         x.phase = "save" => x.then # Nil, x.phase = "settle" => x.field # Nil /\ x.code # Nil,
         x.phase = "save" /\ x.then = "create" => x.field # Nil /\ x.upd.uncertain = x.field
  PROVE  SetupIInv'
<1>0. SetupTypeOK /\ RunIs /\ UNCHANGED <<stage, doc, customs, probes, plans, reviewed, posts, worker, held, count>>
  BY DEF SetupIInv, Others
<1>1. SetupTypeOK'
  BY <1>0 DEF SetupTypeOK
<1>2. RunIs'
  BY <1>0 DEF RunIs, Waits, Open
<1>3. WorkerIs' /\ DocIs' /\ (\A p \in probes' : ProbeIs(p)') /\ (\A p \in plans' : PlanIs(p)') /\ (\A p \in posts' : PostIs(p)')
  BY <1>0 DEF SetupIInv, WorkerIs, DocIs, ProbeIs, PlanIs, PostIs, Open, Sound, AllReady, reconcile
<1> QED
  BY <1>1, <1>2, <1>3 DEF SetupIInv

\* The preparation reads, identifies its token, takes the next field, gives up, rereads, revokes.
LEMMA RunWorks == ASSUME SetupIInv, RunReads \/ _identify \/ NextField \/ GivesUp \/ RunRereads \/ _revoke_token PROVE SetupIInv'
<1>0. /\ run # Nil /\ run \in Run /\ SetupTypeOK /\ RunIs /\ UNCHANGED Others
      /\ run.phase \in {"read", "identify", "next", "sent", "final", "revoke"}
  BY DEF SetupIInv, SetupTypeOK, RunReads, _identify, NextField, GivesUp, RunRereads, _revoke_token, RunAt, Others
<1>1. ASSUME NEW x \in Run, run' = x, Same(x), ~Waits, x.phase \in {"read", "identify", "next", "final", "failed", "close", "revoke"}
      PROVE  SetupIInv'
  BY <1>0, <1>1, RunMoves DEF Same, GivenUp, Waits
<1>2. ASSUME NEW x \in Run, run' = x, Same(x), ~Waits, x.phase = "save", x.then \in {"close", "revoke", "next"}
      PROVE  SetupIInv'
  BY <1>0, <1>2, RunMoves, NilAssumption DEF Same, GivenUp, Waits, Thens
<1>3. ASSUME NEW st \in Statuses, run' = Ends(st), ~Waits PROVE SetupIInv'
  <2>1. [Kept EXCEPT !.status = st] \in Upd /\ "close" \in Thens
    BY KeptIs DEF Thens
  <2> QED
    BY <1>0, <1>2, <1>3, <2>1, SavingIs DEF Ends
<1>4. CASE RunReads
  <2>1. PICK fields \in read_fields(run.url, run.tokens) :
           run' = IF fields = Nil THEN Go("failed")
                  ELSE IF digest(run.revision, run.url, fields) # run.digest THEN Ends("STALE")
                  ELSE [Go("identify") EXCEPT !.todo = {f \in Names : fields[f] = "missing"}]
    BY <1>4 DEF RunReads
  <2>2. ~Waits
    BY <1>4 DEF RunReads, RunAt, Waits
  <2>3. CASE run' = Go("failed")
    BY <1>0, <1>1, <2>2, <2>3, GoIs DEF RunPhases
  <2>4. CASE run' = Ends("STALE")
    BY <1>3, <2>2, <2>4 DEF Statuses
  <2>5. CASE run' = [Go("identify") EXCEPT !.todo = {f \in Names : fields[f] = "missing"}]
    <3> DEFINE x == [Go("identify") EXCEPT !.todo = {f \in Names : fields[f] = "missing"}]
    <3>1. x \in Run /\ x.phase = "identify" /\ x.id = run.id /\ x.url = run.url
      BY <1>0, GoIs, SMTT(30) DEF RunPhases, Run, Same
    <3> HIDE DEF x
    <3> QED
      BY <1>0, <2>2, <2>5, <3>1, RunMoves DEF GivenUp, x
  <2> QED
    BY <2>1, <2>3, <2>4, <2>5
<1>5. CASE _identify
  <2>1. ~Waits
    BY <1>5 DEF _identify, RunAt, Waits
  <2>2. CASE run' = Ends("TOKEN_REJECTED")
    BY <1>3, <2>1, <2>2 DEF Statuses
  <2>3. ASSUME NEW found \in BOOLEAN, run' = [Go("next") EXCEPT !.revocable = found] PROVE SetupIInv'
    <3> DEFINE x == [Go("next") EXCEPT !.revocable = found]
    <3>1. x \in Run /\ x.phase = "next" /\ Same(x)
      BY <1>0, GoIs, SMTT(30) DEF RunPhases, Run, Same
    <3> HIDE DEF x
    <3> QED
      BY <1>1, <2>1, <2>3, <3>1 DEF x
  <2> QED
    BY <1>5, <2>2, <2>3 DEF _identify
<1>6. CASE NextField
  <2>1. ~Waits /\ ~GivenUp
    BY <1>6 DEF NextField, RunAt, Waits, GivenUp
  <2>2. CASE run' = Go("final")
    BY <1>0, <1>1, <2>1, <2>2, GoIs DEF RunPhases
  <2>3. CASE run' = Ends("EXPIRED")
    BY <1>3, <2>1, <2>3 DEF Statuses
  <2>4. ASSUME NEW f \in run.todo, run' = MarkFirst(f) PROVE SetupIInv'
    <3> DEFINE y == Saving([Kept EXCEPT !.uncertain = f], "create")
               x == [y EXCEPT !.field = f]
    <3>1. f \in Names /\ f # Nil
      BY <1>0, NilAssumption DEF Run
    <3>2. y \in Run /\ y.phase = "save" /\ y.then = "create" /\ y.upd.uncertain = f /\ Same(y)
      <4> DEFINE k == [Kept EXCEPT !.uncertain = f]
      <4>1. k \in Upd /\ k.uncertain = f /\ "create" \in Thens
        BY <3>1, KeptIs DEF Thens
      <4> HIDE DEF k
      <4>2. Saving(k, "create") \in Run /\ Saving(k, "create").phase = "save" /\ Saving(k, "create").upd = k
            /\ Saving(k, "create").then = "create" /\ Same(Saving(k, "create"))
        BY <1>0, <4>1, SavingIs
      <4> QED
        BY <4>1, <4>2 DEF k
    <3> HIDE DEF y
    <3>3. x \in Run /\ x.phase = "save" /\ x.then = "create" /\ x.upd.uncertain = f /\ x.field = f /\ x.id = run.id /\ x.url = run.url
      BY <3>1, <3>2 DEF Run, Same
    <3>4. run' = x
      BY <2>4 DEF MarkFirst, y
    <3> HIDE DEF x
    <3> QED
      BY <1>0, <2>1, <3>1, <3>3, <3>4, RunMoves, NilAssumption DEF Thens
  <2> QED
    BY <1>6, <2>2, <2>3, <2>4 DEF NextField
<1>7. CASE GivesUp
  <2> DEFINE x == [Go("settle") EXCEPT !.code = "UNCERTAIN"]
  <2>1. /\ x \in Run /\ x.phase = "settle" /\ x.code = "UNCERTAIN" /\ x.id = run.id /\ x.url = run.url
        /\ x.field = run.field
    BY <1>0, GoIs, SMTT(30) DEF RunPhases, Run, Same, Codes
  <2>2. run' = x /\ run.phase = "sent"
    BY <1>7 DEF GivesUp, RunAt
  <2> HIDE DEF x
  <2>3. run.field # Nil /\ "UNCERTAIN" # Nil
    BY <1>0, <2>1, <2>2, NilAssumption DEF RunIs, Statuses, Codes
  <2> QED
    BY <1>0, <2>1, <2>2, <2>3, RunMoves DEF GivenUp
<1>8. CASE RunRereads
  <2>1. PICK fields \in read_fields(run.url, run.tokens) :
           run' = IF fields = Nil THEN Go("failed")
                  ELSE IF AllReady(fields) THEN Saving([Kept EXCEPT !.status = "PREPARED", !.fields = fields], "revoke")
                  ELSE Saving([Kept EXCEPT !.status = "WAITING", !.fields = fields], "close")
    BY <1>8 DEF RunRereads
  <2>2. ~Waits
    BY <1>8 DEF RunRereads, RunAt, Waits
  <2>3. CASE run' = Go("failed")
    BY <1>0, <1>1, <2>2, <2>3, GoIs DEF RunPhases
  <2>4. ASSUME fields # Nil, NEW st \in {"PREPARED", "WAITING"}, NEW then \in {"revoke", "close"},
               run' = Saving([Kept EXCEPT !.status = st, !.fields = fields], then)
        PROVE  SetupIInv'
    <3>1. fields \in [Names -> Kinds]
      BY <1>0, <2>4, ReconcileIs DEF read_fields, Run
    <3>2. [Kept EXCEPT !.status = st, !.fields = fields] \in Upd
      BY <3>1, KeptIs DEF Upd, Statuses, Codes
    <3> QED
      BY <1>0, <1>2, <2>2, <2>4, <3>2, SavingIs DEF Thens
  <2> QED
    BY <2>1, <2>3, <2>4
<1>9. CASE _revoke_token
  <2>1. PICK r \in Revocations : run' = Saving([Kept EXCEPT !.revocation = r], "close")
    BY <1>9 DEF _revoke_token, Revocations
  <2>2. ~Waits
    BY <1>9 DEF _revoke_token, RunAt, Waits
  <2> QED
    BY <1>0, <1>2, <2>1, <2>2, KeptIs, SavingIs DEF Thens
<1> QED
  BY <1>4, <1>5, <1>6, <1>7, <1>8, <1>9
\* The preparation moves or ends, and the document keeps its credentials and its marker.
LEMMA RunAndDoc ==
  ASSUME SetupIInv, run # Nil, doc' \in Doc, DocSame, StatusSame, run' \in {Nil} \cup Run, held' \in {Nil, "run"}, RunIs',
         UNCHANGED <<stage, customs, probes, plans, reviewed, posts, worker, count>>
  PROVE  SetupIInv'
<1>1. SetupTypeOK' /\ Grows /\ count.runs \in Nat
  BY SameGrows DEF SetupIInv, SetupTypeOK
<1>2. WorkerIs'
  BY DEF SetupIInv, RunIs, WorkerIs
<1> QED
  BY <1>1, <1>2, Keeps, SMTT(30) DEF SetupIInv

\* The outcome of one field: a marker stays only for a POST that may still arrive.
LEMMA SettleStep == ASSUME SetupIInv, Settle PROVE SetupIInv'
<1>0. /\ run # Nil /\ run \in Run /\ RunIs /\ UNCHANGED Others /\ run.phase = "settle" /\ run.code \in Codes
      /\ run.field \in Names /\ run.upd \in Upd /\ run.created \in SUBSET Names
  BY DEF SetupIInv, SetupTypeOK, Settle, RunAt, Others, RunIs, Run
<1>1. ASSUME NEW y \in Run, run' = [y EXCEPT !.code = Nil], y.id = run.id, y.url = run.url, y.phase = "save",
             y.then \in {"close", "next"}, run.code = "UNCERTAIN" => y.then = "close" /\ y.upd.uncertain = "kept"
      PROVE  SetupIInv'
  <2> DEFINE x == [y EXCEPT !.code = Nil]
  <2>1. x \in Run /\ x.id = run.id /\ x.url = run.url /\ x.phase = "save" /\ x.then = y.then /\ x.upd = y.upd
    BY <1>1 DEF Run
  <2>2. run' = x
    BY <1>1
  <2> HIDE DEF x
  <2>3. x.then # Nil /\ x.then # "create"
    BY <1>1, <2>1, NilAssumption DEF Thens
  <2>4. Waits \/ GivenUp => GivenUp'
    BY <1>0, <1>1, <2>1, <2>2 DEF Waits, GivenUp
  <2> QED
    BY <1>0, <2>1, <2>2, <2>3, <2>4, RunMoves
<1>2. ASSUME NEW k \in Upd, run' = [Saving(k, "close") EXCEPT !.code = Nil], run.code = "UNCERTAIN" => k.uncertain = "kept"
      PROVE  SetupIInv'
  <2>1. PICK y : y = Saving(k, "close")
    OBVIOUS
  <2>2. y \in Run /\ y.phase = "save" /\ y.upd = k /\ y.then = "close" /\ Same(y)
    BY <1>0, <2>1, SavingIs DEF Thens
  <2> QED
    BY <1>1, <1>2, <2>1, <2>2 DEF Same
<1>3. CASE run.code \in {"CONFLICT", "WAITING"}
  <2> DEFINE k == [run.upd EXCEPT !.status = run.code, !.uncertain = Nil]
  <2>1. k \in Upd
    BY <1>0 DEF Upd, Statuses
  <2>2. run' = [Saving(k, "close") EXCEPT !.code = Nil]
    BY <1>3 DEF Settle
  <2> HIDE DEF k
  <2> QED
    BY <1>2, <1>3, <2>1, <2>2
<1>4. CASE run.code \in {"NOT_SENT", "REJECTED"}
  <2>1. PICK st \in {"RECHECK_REQUIRED", "REJECTED"} : run' = [Saving([Kept EXCEPT !.status = st, !.uncertain = Nil], "close") EXCEPT !.code = Nil]
    BY <1>4 DEF Settle
  <2> DEFINE k == [Kept EXCEPT !.status = st, !.uncertain = Nil]
  <2>2. k \in Upd
    BY KeptIs DEF Upd, Statuses, Codes
  <2> HIDE DEF k
  <2> QED
    BY <1>2, <1>4, <2>1, <2>2 DEF k
<1>5. CASE run.code = "UNCERTAIN"
  <2>1. run' = [Ends("UNCERTAIN") EXCEPT !.code = Nil]
    BY <1>5 DEF Settle
  <2> DEFINE k == [Kept EXCEPT !.status = "UNCERTAIN"]
  <2>2. k \in Upd /\ k.uncertain = "kept"
    BY KeptIs DEF Statuses, Codes
  <2> HIDE DEF k
  <2> QED
    BY <1>2, <1>5, <2>1, <2>2 DEF k, Ends
<1>6. CASE run.code \in {"CREATED", "RECONCILE"}
  <2> DEFINE created == run.created \cup IF run.code = "CREATED" THEN {run.field} ELSE {}
             rest == run.todo \ {run.field}
             k == [Kept EXCEPT !.uncertain = Nil, !.created = created]
             y == [run EXCEPT !.todo = rest, !.created = created, !.phase = "save", !.then = "next", !.upd = k]
  <2>1. run' = [y EXCEPT !.code = Nil]
    BY <1>6 DEF Settle
  <2>2. created \in SUBSET Names /\ rest \in SUBSET Names
    BY <1>0 DEF Run
  <2> HIDE DEF created, rest
  <2>3. k \in Upd
    BY <2>2, KeptIs DEF Upd
  <2> HIDE DEF k
  <2>4. y \in Run
    BY <1>0, <2>2, <2>3 DEF Run, RunPhases, Thens
  <2>5. y.id = run.id /\ y.url = run.url /\ y.phase = "save" /\ y.then = "next"
    BY <1>0 DEF Run
  <2> HIDE DEF y
  <2> QED
    BY <1>1, <1>6, <2>1, <2>4, <2>5
<1> QED
  BY <1>0, <1>3, <1>4, <1>5, <1>6 DEF Codes

\* The child's POST: only for the marked field, still missing, and no other is open.
LEMMA CreateStep == ASSUME SetupIInv, create PROVE SetupIInv'
<1> DEFINE f == run.field
           observed == reconcile(run.url)
<1>0. /\ run # Nil /\ run \in Run /\ RunIs /\ run.phase = "create" /\ f \in Names /\ run.url \in Urls /\ SetupTypeOK
      /\ UNCHANGED <<stage, doc, customs, probes, plans, reviewed, worker, held, count>>
      /\ ~Waits /\ ~GivenUp
  BY DEF SetupIInv, SetupTypeOK, create, RunAt, RunIs, Run, Waits, GivenUp
<1>1. observed \in [Names -> Kinds] /\ (observed[f] = "missing" <=> customs[run.url][f] = {})
  BY <1>0, ReconcileIs
<1>2. ASSUME NEW x \in Run, run' = x, UNCHANGED posts, x.phase = "settle", x.code \in Codes, x.id = run.id, x.url = run.url, x.field = f
      PROVE  SetupIInv'
  <2>1. x.field # Nil /\ x.code # Nil
    BY <1>0, <1>2, NilAssumption DEF Statuses
  <2> QED
    BY <1>0, <1>2, <2>1, RunMoves DEF Others
<1>3. ASSUME NEW code \in Codes, UNCHANGED posts, run' = [Go("settle") EXCEPT !.code = code]
      PROVE  SetupIInv'
  <2> DEFINE x == [Go("settle") EXCEPT !.code = code]
  <2>1. x \in Run /\ x.phase = "settle" /\ x.code = code /\ x.id = run.id /\ x.url = run.url /\ x.field = run.field
    BY <1>0, GoIs, SMTT(30) DEF RunPhases, Run, Same
  <2> HIDE DEF x
  <2> QED
    BY <1>2, <1>3, <2>1 DEF x
<1>4. ASSUME NEW code \in Codes, UNCHANGED posts, run' = [Go("settle") EXCEPT !.upd = [Kept EXCEPT !.fields = observed], !.code = code]
      PROVE  SetupIInv'
  <2> DEFINE k == [Kept EXCEPT !.fields = observed]
             x == [Go("settle") EXCEPT !.upd = k, !.code = code]
  <2>0. k \in Upd
    BY <1>1, KeptIs
  <2>1. run' = x
    BY <1>4
  <2> HIDE DEF k
  <2>2. x \in Run /\ x.phase = "settle" /\ x.code = code /\ x.id = run.id /\ x.url = run.url /\ x.field = run.field
    <3>1. PICK y : y = Go("settle")
      OBVIOUS
    <3>2. y \in Run /\ y.phase = "settle" /\ y.id = run.id /\ y.url = run.url /\ y.field = run.field
      BY <1>0, <3>1, GoIs DEF RunPhases, Same
    <3>3. x = [y EXCEPT !.upd = k, !.code = code]
      BY <3>1
    <3> HIDE DEF x
    <3>4. x \in Run
      BY <1>4, <2>0, <3>2, <3>3 DEF Run
    <3> QED
      BY <3>2, <3>3, <3>4 DEF Run
  <2> HIDE DEF x
  <2> QED
    BY <1>2, <1>4, <2>1, <2>2
<1>5. ASSUME observed[f] = "missing", run' = Go("sent"), posts' = posts \cup {[url |-> run.url, field |-> f, run |-> run.id]}
      PROVE  SetupIInv'
  <2> DEFINE new == [url |-> run.url, field |-> f, run |-> run.id]
  <2>1. run' \in Run /\ run'.phase = "sent" /\ run'.id = run.id /\ run'.url = run.url /\ run'.field = run.field
    BY <1>0, <1>5, GoIs DEF RunPhases, Same
  <2>2. new \in [url : Urls, field : Names, run : Nat] /\ new.url = run.url /\ new.field = f /\ new.run = run.id
    BY <1>0 DEF Run
  <2>3. posts' = posts \cup {new}
    BY <1>5
  <2> HIDE DEF new
  <2>4. \A p \in posts : ~Open(p) /\ p.run # run.id
    BY <1>0 DEF RunIs
  <2>5. customs[run.url][f] = {} /\ doc.prep.uncertain = f /\ doc.url = run.url /\ run.id <= count.runs
    BY <1>0, <1>1, <1>5 DEF RunIs
  <2>6. SetupTypeOK'
    BY <1>0, <2>1, <2>2, <2>3 DEF SetupTypeOK
  <2>7. \A p \in posts' : PostIs(p)'
    <3>1. \A p \in posts : ~(p.url = new.url /\ p.field = new.field)
      BY <2>2, <2>4, <2>5 DEF Open
    <3>2. ASSUME NEW p \in posts PROVE PostIs(p)'
      <4>1. PostIs(p)
        BY DEF SetupIInv
      <4> QED
        BY <1>0, <2>2, <2>3, <2>4, <3>1, <4>1 DEF PostIs, Open
    <3>3. ASSUME NEW p, p = new PROVE PostIs(p)'
      BY <1>0, <2>2, <2>3, <2>4, <2>5, <3>1, <3>3 DEF PostIs, Open
    <3> QED
      BY <2>3, <3>2, <3>3
  <2>8. RunIs'
    BY <1>0, <2>1, <2>2, <2>3, <2>4 DEF RunIs, Waits, Open
  <2>9. WorkerIs' /\ DocIs' /\ (\A p \in probes' : ProbeIs(p)') /\ (\A p \in plans' : PlanIs(p)')
    BY <1>0 DEF SetupIInv, WorkerIs, DocIs, ProbeIs, PlanIs, Sound, AllReady, reconcile
  <2> QED
    BY <2>6, <2>7, <2>8, <2>9 DEF SetupIInv
<1>6. "NOT_SENT" \in Codes /\ "UNCERTAIN" \in Codes
      /\ (CASE observed[f] = "ready" -> "RECONCILE" [] observed[f] = "conflict" -> "CONFLICT" [] OTHER -> "WAITING") \in Codes
  BY DEF Codes
<1> HIDE DEF observed
<1> QED
  BY <1>3, <1>4, <1>5, <1>6 DEF create, observed
\* What a save changes of the preparation.
LEMMA MergedIs == ASSUME NEW prep \in Prep, NEW upd \in Upd
                  PROVE  /\ Merged(prep, upd) \in Prep
                         /\ Merged(prep, upd).uncertain = IF upd.uncertain = "kept" THEN prep.uncertain ELSE upd.uncertain
<1> DEFINE a == IF upd.status = Nil THEN prep.status ELSE upd.status
           b == IF upd.fields = Nil THEN prep.fields ELSE upd.fields
           c == IF upd.uncertain = "kept" THEN prep.uncertain ELSE upd.uncertain
           d == IF upd.created = Nil THEN prep.created ELSE upd.created
           e == IF upd.revocation = Nil THEN prep.revocation ELSE upd.revocation
           x == [prep EXCEPT !.status = a, !.fields = b, !.uncertain = c, !.created = d, !.revocation = e]
<1>1. Merged(prep, upd) = x
  BY DEF Merged
<1>2. /\ a \in Statuses /\ b \in {Nil} \cup [Names -> Kinds] /\ c \in {Nil} \cup Names /\ d \in SUBSET Names
      /\ e \in Revocations
  BY DEF Prep, Upd
<1> HIDE DEF a, b, c, d, e
<1>3. x \in Prep /\ x.uncertain = c
  BY <1>2 DEF Prep
<1> QED
  BY <1>1, <1>3, SMTT(30) DEF c

\* save(): the marker changes only when no POST is open, and it is there before the POST.
LEMMA SaveStep == ASSUME SetupIInv, Save PROVE SetupIInv'
<1>0. /\ run # Nil /\ run \in Run /\ RunIs /\ SetupTypeOK /\ run.phase = "save" /\ run.then \in Thens /\ run.upd \in Upd
      /\ doc \in Doc /\ doc.prep \in Prep /\ run.url \in Urls /\ held = "run" /\ ~Waits
      /\ UNCHANGED <<stage, customs, probes, plans, reviewed, posts, worker, held, count>>
  BY DEF SetupIInv, SetupTypeOK, Save, RunAt, RunIs, Run, Doc, Waits
<1>1. ASSUME NEW phase \in RunPhases, run' = [Go(phase) EXCEPT !.upd = Kept, !.then = Nil]
      PROVE  /\ run' \in Run /\ run'.phase = phase /\ run'.id = run.id /\ run'.url = run.url /\ run'.field = run.field
             /\ run'.upd = Kept
  <2>1. PICK y : y = Go(phase)
    OBVIOUS
  <2>2. y \in Run /\ y.phase = phase /\ y.id = run.id /\ y.url = run.url /\ y.field = run.field
    BY <1>0, <1>1, <2>1, GoIs DEF Same
  <2>3. run' = [y EXCEPT !.upd = Kept, !.then = Nil]
    BY <1>1, <2>1
  <2>4. Kept \in Upd
    BY KeptIs
  <2>5. run' \in Run
    BY <2>2, <2>3, <2>4 DEF Run
  <2> QED
    BY <2>2, <2>3, <2>5 DEF Run
<1>2. CASE UNCHANGED doc /\ run' = [Go("failed") EXCEPT !.upd = Kept, !.then = Nil]
  <2>1. run' \in Run /\ run'.phase = "failed" /\ run'.id = run.id /\ run'.url = run.url
    BY <1>1, <1>2 DEF RunPhases
  <2>2. UNCHANGED Others
    BY <1>0, <1>2 DEF Others
  <2> QED
    BY <1>0, <2>1, <2>2, RunMoves DEF GivenUp
<1>3. CASE /\ doc' = [doc EXCEPT !.prep = Merged(doc.prep, run.upd)]
           /\ run' = [Go(run.then) EXCEPT !.upd = Kept, !.then = Nil]
  <2>1. /\ run' \in Run /\ run'.phase = run.then /\ run'.id = run.id /\ run'.url = run.url /\ run'.field = run.field
    BY <1>0, <1>1, <1>3 DEF RunPhases, Thens
  <2>2. PICK x : x = Merged(doc.prep, run.upd)
    OBVIOUS
  <2>3. x \in Prep /\ x.uncertain = IF run.upd.uncertain = "kept" THEN doc.prep.uncertain ELSE run.upd.uncertain
    BY <1>0, <2>2, MergedIs
  <2>4. doc' = [doc EXCEPT !.prep = x]
    BY <1>3, <2>2
  <2>5. /\ doc' \in Doc /\ doc'.revision = doc.revision /\ doc'.url = doc.url /\ doc'.tokens = doc.tokens
        /\ doc'.status = doc.status /\ doc'.prep.uncertain = x.uncertain
    BY <1>0, <2>3, <2>4 DEF Doc
  <2>6. run.then = "create" => run.field # Nil /\ x.uncertain = run.field
    BY <1>0, <2>3, NilAssumption DEF RunIs, Run
  <2>7. GivenUp => GivenUp'
    BY <1>0, <2>1 DEF GivenUp
  <2>8. RunIs'
    <3>1. run.then \in {"create", "close", "next", "revoke"}
      BY <1>0 DEF Thens
    <3>2. \A p \in posts : Open(p) \/ p.run = run.id => GivenUp'
      BY <1>0, <2>7 DEF RunIs
    <3> QED
      BY <1>0, <2>1, <2>5, <2>6, <3>1, <3>2 DEF RunIs, Waits, Open
  <2>9. CASE x.uncertain = doc.prep.uncertain
    <3>1. DocSame /\ StatusSame
      BY <2>5, <2>9 DEF DocSame, StatusSame
    <3> QED
      BY <1>0, <2>1, <2>5, <2>8, <3>1, RunAndDoc
  <2>10. CASE x.uncertain # doc.prep.uncertain
    <3>1. ~GivenUp
      BY <1>0, <2>3, <2>10 DEF GivenUp
    <3>2. \A p \in posts : ~Open(p)
      BY <1>0, <3>1 DEF RunIs
    <3>3. SetupTypeOK' /\ WorkerIs' /\ DocIs' /\ (\A p \in probes' : ProbeIs(p)') /\ (\A p \in plans' : PlanIs(p)')
      BY <1>0, <2>1, <2>5, SMTT(30) DEF SetupIInv, SetupTypeOK, WorkerIs, DocIs, ProbeIs, PlanIs, Sound, AllReady, reconcile
    <3>4. \A p \in posts' : PostIs(p)'
      BY <1>0, <3>2 DEF SetupIInv, PostIs, Open
    <3> QED
      BY <2>8, <3>3, <3>4 DEF SetupIInv
  <2> QED
    BY <2>9, <2>10
<1> QED
  BY <1>2, <1>3 DEF Save

\* The end of a preparation, however it ends.
LEMMA RunEnds == ASSUME SetupIInv, Failed \/ Close \/ Crash PROVE SetupIInv'
<1>0. /\ run # Nil /\ run \in Run /\ RunIs /\ doc \in Doc /\ doc.prep \in Prep /\ held = "run"
      /\ UNCHANGED <<stage, customs, probes, plans, reviewed, posts, worker, count>>
  BY DEF SetupIInv, SetupTypeOK, Failed, Close, Crash, RunAt, RunIs, Doc
<1>1. doc' \in Doc /\ DocSame /\ StatusSame
  <2>1. CASE doc' = doc
    BY <1>0, <2>1 DEF DocSame, StatusSame
  <2>2. CASE doc' = [doc EXCEPT !.prep.status = "UNCERTAIN"]
    <3> DEFINE x == [doc.prep EXCEPT !.status = "UNCERTAIN"]
    <3>1. x \in Prep /\ x.uncertain = doc.prep.uncertain /\ doc' = [doc EXCEPT !.prep = x]
      BY <1>0, <2>2 DEF Prep, Statuses, Codes
    <3> QED
      BY <1>0, <3>1, PrepSame
  <2>3. CASE doc' = [doc EXCEPT !.prep.revocation = "UNCONFIRMED"]
    <3> DEFINE x == [doc.prep EXCEPT !.revocation = "UNCONFIRMED"]
    <3>1. x \in Prep /\ x.uncertain = doc.prep.uncertain /\ doc' = [doc EXCEPT !.prep = x]
      BY <1>0, <2>3 DEF Prep, Revocations
    <3> QED
      BY <1>0, <3>1, PrepSame
  <2> QED
    BY <2>1, <2>2, <2>3 DEF Failed, Close, Crash
<1>2. CASE run' = Nil /\ held' = Nil
  <2>1. RunIs'
    BY <1>2 DEF RunIs
  <2> QED
    BY <1>0, <1>1, <1>2, <2>1, RunAndDoc
<1>3. CASE run' = Go("close") /\ held' = held
  <2>1. run' \in Run /\ run'.phase = "close" /\ run'.id = run.id /\ run'.url = run.url
    BY <1>0, <1>3, GoIs DEF RunPhases, Same
  <2>2. RunIs'
    BY <1>0, <1>1, <1>3, <2>1 DEF RunIs, Waits, GivenUp, DocSame
  <2> QED
    BY <1>0, <1>1, <1>3, <2>1, <2>2, RunAndDoc
<1> QED
  BY <1>2, <1>3 DEF Failed, Close, Crash
\* A preparation begins: no POST is open, since nothing is marked, and none is its own.
LEMMA StartStep == ASSUME SetupIInv, NEW token \in SetupTokens, _start(token) PROVE SetupIInv'
<1> DEFINE id == count.runs + 1
           x == [doc.prep EXCEPT !.status = "RUNNING", !.run = id, !.revocation = "NOT_ATTEMPTED", !.old = FALSE]
           r == [id |-> id, phase |-> "read", token |-> token, revocable |-> FALSE, revision |-> doc.revision,
                 url |-> doc.url, tokens |-> doc.tokens, digest |-> reviewed, todo |-> {}, field |-> Nil, created |-> doc.prep.created,
                 code |-> Nil, upd |-> Kept, then |-> Nil]
<1>0. /\ SetupTypeOK /\ doc \in Doc /\ doc.prep \in Prep /\ DocIs /\ count \in [attempts : Nat, runs : Nat, edits : Nat]
      /\ reviewed \in {Nil} \cup Digests
  BY DEF SetupIInv, SetupTypeOK, Doc
<1>1. /\ held = Nil /\ doc.tokens # Nil /\ doc.prep.uncertain = Nil
      /\ doc' = [doc EXCEPT !.status = "ATTENTION", !.old = FALSE, !.prep = x]
      /\ run' = r /\ held' = "run" /\ count' = [count EXCEPT !.runs = id]
      /\ UNCHANGED <<stage, customs, probes, plans, reviewed, posts, worker>>
  BY DEF _start, LockFree
<1>2. id \in Nat /\ count.runs \in Nat /\ id > count.runs
  BY <1>0, SMTT(30)
<1>3. r \in Run
  BY <1>0, <1>1, <1>2, KeptIs DEF Run, RunPhases, Doc, DocIs, Prep
<1>4. r.id = id /\ r.phase = "read" /\ r.url = doc.url
  OBVIOUS
<1> HIDE DEF id, r
<1>5. x \in Prep /\ x.uncertain = doc.prep.uncertain
  BY <1>0, <1>2 DEF Prep, Statuses, Revocations
<1> HIDE DEF x
<1>6. doc' \in Doc /\ DocSame /\ StatusSame
  BY <1>0, <1>1, <1>5 DEF Doc, DocSame, StatusSame
<1>7. count' \in [attempts : Nat, runs : Nat, edits : Nat] /\ count'.runs = id
  BY <1>0, <1>1, <1>2
<1>8. SetupTypeOK' /\ Grows
  BY <1>0, <1>1, <1>3, <1>6, <1>7, SameGrows DEF SetupTypeOK
<1>9. WorkerIs'
  BY <1>1, NilAssumption DEF SetupIInv, WorkerIs
<1>10. \A p \in posts : ~Open(p) /\ p.run # id
  <2> SUFFICES ASSUME NEW p \in posts PROVE ~Open(p) /\ p.run # id
    OBVIOUS
  <2>1. PostIs(p) /\ p.field # Nil /\ p.run \in Nat
    BY <1>0, NilAssumption DEF SetupIInv, SetupTypeOK
  <2> QED
    BY <1>1, <1>2, <2>1, SMTT(30) DEF PostIs
<1>11. RunIs'
  BY <1>1, <1>2, <1>4, <1>6, <1>7, <1>10, SMTT(30) DEF RunIs, Open, DocSame
<1> QED
  BY <1>1, <1>2, <1>6, <1>7, <1>8, <1>9, <1>11, Keeps, SMTT(30) DEF SetupIInv

\* A new definition of a field that had none.
LEMMA PutGrows ==
  ASSUME SetupTypeOK, NEW u \in Urls, NEW f \in Names, NEW row \in Rows, customs[u][f] = {}, customs' = Put(u, f, row)
  PROVE  Grows /\ customs' \in [Urls -> [Names -> SUBSET Rows]]
<1>1. customs \in [Urls -> [Names -> SUBSET Rows]]
  BY DEF SetupTypeOK
<1>2. customs' = [customs EXCEPT ![u] = [customs[u] EXCEPT ![f] = {row}]]
  BY <1>1 DEF Put
<1>3. Classify(customs[u][f]) # "ready"
  BY DEF Classify
<1> DEFINE inner == [customs[u] EXCEPT ![f] = {row}]
<1>4. inner \in [Names -> SUBSET Rows] /\ inner[f] = {row} /\ \A g \in Names : g # f => inner[g] = customs[u][g]
  BY <1>1
<1> HIDE DEF inner
<1>5. customs' = [customs EXCEPT ![u] = inner]
  BY <1>2 DEF inner
<1>6. /\ customs' \in [Urls -> [Names -> SUBSET Rows]] /\ customs'[u] = inner
      /\ \A v \in Urls : v # u => customs'[v] = customs[v]
  BY <1>1, <1>4, <1>5
<1> QED
  BY <1>3, <1>4, <1>6 DEF Grows

\* NetBox, its administrators and the network.
LEMMA NetBoxStep ==
  ASSUME SetupIInv, (\E p \in posts : Arrives(p) \/ NeverArrives(p)) \/ (\E u \in Urls, f \in Names : Edit(u, f) \/ Provisioned(u, f))
  PROVE  SetupIInv'
<1>0. /\ SetupTypeOK /\ UNCHANGED <<stage, doc, probes, plans, reviewed, worker, held>> /\ doc \in Doc
      /\ count \in [attempts : Nat, runs : Nat, edits : Nat] /\ count.runs \in Nat
  BY DEF SetupIInv, SetupTypeOK, Arrives, NeverArrives, Edit, Provisioned
<1>1. DocSame /\ StatusSame /\ WorkerIs'
  BY <1>0 DEF DocSame, StatusSame, SetupIInv, WorkerIs
<1>2. ASSUME Grows, customs' \in [Urls -> [Names -> SUBSET Rows]], posts' \subseteq posts,
             run' \in {Nil} \cup Run, RunIs', count' \in [attempts : Nat, runs : Nat, edits : Nat], count'.runs = count.runs
      PROVE  SetupIInv'
  <2>1. SetupTypeOK'
    BY <1>0, <1>2 DEF SetupTypeOK
  <2> QED
    BY <1>0, <1>1, <1>2, <2>1, Keeps, SMTT(30) DEF SetupIInv
<1>3. ASSUME Grows, customs' \in [Urls -> [Names -> SUBSET Rows]], posts' \subseteq posts, UNCHANGED run,
             count' \in [attempts : Nat, runs : Nat, edits : Nat], count'.runs = count.runs
      PROVE  SetupIInv'
  BY <1>0, <1>1, <1>2, <1>3, RunStays DEF SetupTypeOK
<1>4. ASSUME NEW p \in posts, Arrives(p) PROVE SetupIInv'
  <2>1. PICK row \in {Row(TRUE, "active"), Row(TRUE, "provisioning")}, taken \in BOOLEAN, heard \in BOOLEAN :
          /\ taken => customs[p.url][p.field] = {}
          /\ customs' = IF taken THEN Put(p.url, p.field, row) ELSE customs
          /\ run' = IF heard /\ RunAt("sent") /\ run.id = p.run
                    THEN [Go("settle") EXCEPT !.code = IF taken THEN "CREATED" ELSE "REJECTED"] ELSE run
    BY <1>4 DEF Arrives
  <2>2. posts' = posts \ {p} /\ count' = count /\ p.url \in Urls /\ p.field \in Names /\ row \in Rows /\ PostIs(p)
    <3>1. row \in Rows
      <4>1. Row(TRUE, "active") \in Rows
        BY DEF Row, Rows
      <4>2. Row(TRUE, "provisioning") \in Rows
        BY DEF Row, Rows
      <4> QED
        BY <2>1, <4>1, <4>2
    <3>2. PostIs(p) /\ p.url \in Urls /\ p.field \in Names
      BY <1>0 DEF SetupTypeOK, SetupIInv
    <3> QED
      BY <1>4, <3>1, <3>2 DEF Arrives
  <2>3. Grows /\ customs' \in [Urls -> [Names -> SUBSET Rows]]
    BY <1>0, <2>1, <2>2, PutGrows, SameGrows DEF SetupTypeOK
  <2>4. CASE run' = run
    BY <1>0, <1>3, <2>2, <2>3, <2>4
  <2>5. CASE run' # run
    <3> DEFINE code == IF taken THEN "CREATED" ELSE "REJECTED"
    <3>1. run # Nil /\ run.phase = "sent" /\ run.id = p.run /\ run' = [Go("settle") EXCEPT !.code = code]
      BY <2>1, <2>5 DEF RunAt
    <3>2. run \in Run /\ RunIs /\ Waits
      BY <3>1 DEF SetupIInv, SetupTypeOK, Waits
    <3>3. code \in Codes /\ code # Nil
      BY NilAssumption DEF Codes, Statuses
    <3> HIDE DEF code
    <3>4. /\ run' \in Run /\ run'.phase = "settle" /\ run'.code = code /\ run'.id = run.id /\ run'.url = run.url
          /\ run'.field = run.field
      <4>1. PICK y : y = Go("settle")
        OBVIOUS
      <4>2. y \in Run /\ y.phase = "settle" /\ y.id = run.id /\ y.url = run.url /\ y.field = run.field
        BY <3>2, <4>1, GoIs DEF RunPhases, Same
      <4>3. run' = [y EXCEPT !.code = code]
        BY <3>1, <4>1
      <4> QED
        BY <3>3, <4>2, <4>3 DEF Run
    <3>5. \A q \in posts' : ~Open(q)' /\ q.run # run.id
      <4> SUFFICES ASSUME NEW q \in posts, q # p PROVE ~Open(q)' /\ q.run # run.id
        BY <2>2
      <4>1. q.run # p.run /\ q.url \in Urls /\ q.field \in Names
        BY <1>0, <2>2 DEF PostIs, SetupTypeOK
      <4>2. Open(q)' => Open(q)
        BY <2>3, <4>1 DEF Open, Grows
      <4>3. Open(q) => q.run = run.id
        BY <3>1, <3>2 DEF RunIs
      <4> QED
        BY <3>1, <4>1, <4>2, <4>3
    <3>6. RunIs'
      BY <1>0, <2>2, <3>1, <3>2, <3>3, <3>4, <3>5 DEF RunIs
    <3> QED
      BY <1>0, <1>2, <2>2, <2>3, <3>4, <3>6
  <2> QED
    BY <2>4, <2>5
<1>5. ASSUME NEW p \in posts, NeverArrives(p) PROVE SetupIInv'
  BY <1>0, <1>3, <1>5, SameGrows DEF NeverArrives, SetupTypeOK
<1>6. ASSUME NEW u \in Urls, NEW f \in Names, Edit(u, f) PROVE SetupIInv'
  <2>1. PICK same \in BOOLEAN : customs' = Put(u, f, Row(same, "active"))
    BY <1>6 DEF Edit
  <2>2. Row(same, "active") \in Rows /\ customs[u][f] = {} /\ UNCHANGED <<posts, run>>
    BY <1>6 DEF Row, Rows, Edit
  <2>3. Grows /\ customs' \in [Urls -> [Names -> SUBSET Rows]]
    BY <1>0, <2>1, <2>2, PutGrows
  <2>4. count' \in [attempts : Nat, runs : Nat, edits : Nat] /\ count'.runs = count.runs
    <3> DEFINE n == count.edits + 1
    <3>1. n \in Nat /\ count' = [count EXCEPT !.edits = n]
      BY <1>0, <1>6, SMTT(30) DEF Edit
    <3> HIDE DEF n
    <3> QED
      BY <1>0, <3>1
  <2> QED
    BY <1>3, <2>2, <2>3, <2>4
<1>7. ASSUME NEW u \in Urls, NEW f \in Names, Provisioned(u, f) PROVE SetupIInv'
  <2> DEFINE old == Row(TRUE, "provisioning")
             new == Row(TRUE, "active")
  <2>1. customs[u][f] = {old} /\ customs' = [customs EXCEPT ![u] = [customs[u] EXCEPT ![f] = {new}]] /\ UNCHANGED <<posts, run, count>>
    BY <1>0, <1>7 DEF Provisioned, SetupTypeOK
  <2>2. old.same = TRUE /\ old.status = "provisioning" /\ new \in Rows
    BY DEF Row, Rows
  <2> HIDE DEF old, new
  <2>3. Classify({old}) # "ready"
    <3>1. (CHOOSE r \in {old} : TRUE) = old
      OBVIOUS
    <3> QED
      BY <2>2, <3>1 DEF Classify, _field_differences
  <2>4. customs \in [Urls -> [Names -> SUBSET Rows]]
    BY <1>0 DEF SetupTypeOK
  <2>5. Grows /\ customs' \in [Urls -> [Names -> SUBSET Rows]]
    BY <2>1, <2>2, <2>3, <2>4 DEF Grows
  <2> QED
    BY <1>0, <1>3, <2>1, <2>5
<1> QED
  BY <1>4, <1>5, <1>6, <1>7

\* The first state.
LEMMA FirstState == SetupInit => SetupIInv
<1> SUFFICES ASSUME SetupInit PROVE SetupIInv
  OBVIOUS
<1>1. /\ doc = read /\ stage \in DOMAIN Stages /\ customs = Stages[stage].begin
      /\ probes = {} /\ plans = {} /\ run = Nil /\ reviewed = Nil /\ posts = {} /\ worker = Nil /\ held = Nil
      /\ count = [attempts |-> 0, runs |-> 0, edits |-> 0]
  BY DEF SetupInit
<1>2. NoPreparation \in Prep
  BY DEF NoPreparation, Prep, Statuses, Revocations
<1>3. read \in Doc /\ read.tokens = Nil /\ read.status = "FRESH"
  BY <1>2 DEF read, Doc
<1>4. customs \in [Urls -> [Names -> SUBSET Rows]]
  BY <1>1, StagesAssumption
<1>5. SetupTypeOK
  BY <1>1, <1>3, <1>4 DEF SetupTypeOK
<1> QED
  BY <1>1, <1>3, <1>5 DEF SetupIInv, DocIs, WorkerIs, RunIs

\* Every step of the setup preserves the invariant.
LEMMA EveryStep == SetupIInv /\ [SetupNext]_svars => SetupIInv'
<1> SUFFICES ASSUME SetupIInv, [SetupNext]_svars PROVE SetupIInv'
  OBVIOUS
<1>1. CASE UNCHANGED svars
  <2>1. doc \in Doc /\ UNCHANGED <<stage, doc, customs, probes, plans, run, reviewed, posts, worker, held, count>>
    BY <1>1 DEF svars, SetupIInv, SetupTypeOK
  <2>2. DocSame /\ StatusSame
    BY <2>1 DEF DocSame, StatusSame
  <2> QED
    BY <2>1, <2>2, DocStep
<1>2. CASE Status \/ AgeDoc \/ AgePrep \/ finish \/ cancel
  BY <1>2, StatusStep
<1>3. CASE ValidateBegins
  BY <1>3, ValidateBeginsStep
<1>4. ASSUME NEW c \in Scope.configs, NEW again \in BOOLEAN, configure(c, again) PROVE SetupIInv'
  BY <1>4, ConfigureStep
<1>5. ASSUME NEW p \in probes, Probe(p) \/ ValidateEnds(p) \/ ValidateLost(p) PROVE SetupIInv'
  BY <1>5, ProbeStep, ValidateEndsStep
<1>6. CASE _admit_write \/ runtime_netbox \/ WorkerEnds
  BY <1>6, WorkerStep
<1>7. CASE PlanBegins \/ ReviewPlan \/ \E p \in plans : PlanReads(p)
  BY <1>7, PlanReadStep
<1>8. ASSUME NEW p \in plans, PlanEnds(p) PROVE SetupIInv'
  BY <1>8, PlanEndsStep
<1>9. ASSUME NEW token \in SetupTokens, _start(token) PROVE SetupIInv'
  BY <1>9, StartStep
<1>10. CASE Save \/ Failed \/ Close \/ Crash
  BY <1>10, SaveStep, RunEnds
<1>11. CASE create \/ Settle
  BY <1>11, CreateStep, SettleStep
<1>12. CASE RunReads \/ _identify \/ NextField \/ GivesUp \/ RunRereads \/ _revoke_token
  BY <1>12, RunWorks
<1>13. CASE (\E p \in posts : Arrives(p) \/ NeverArrives(p)) \/ (\E u \in Urls, f \in Names : Edit(u, f) \/ Provisioned(u, f))
  BY <1>13, NetBoxStep
<1> QED
  BY <1>1, <1>2, <1>3, <1>4, <1>5, <1>6, <1>7, <1>8, <1>9, <1>10, <1>11, <1>12, <1>13 DEF SetupNext

\* The inductive invariant: what a validation found stays true of the credentials it was made with, and a
\* POST that has not arrived is the marked one of the NetBox that is configured.
THEOREM SetupInvariant == SetupSpec => []SetupIInv
BY FirstState, EveryStep, PTL DEF SetupSpec

\* "READY" credentials were validated, and they are the ones a worker under apply.lock works with.
THEOREM ReadyWasValidated == SetupSpec => []ReadyIsSound
<1>1. SetupIInv => ReadyIsSound
  BY DEF SetupIInv, DocIs, WorkerIs, Sound, ReadyIsSound
<1> QED
  BY <1>1, SetupInvariant, PTL

\* Crash/timeout never permits a blind retry.
THEOREM PostsAreMarked == SetupSpec => []NoBlindRetry
<1>1. SetupIInv => NoBlindRetry
  BY DEF SetupIInv, PostIs, Open, NoBlindRetry
<1> QED
  BY <1>1, SetupInvariant, PTL

\* ==== Guard. ====================================================================
\* The tables that differ from d in some of their columns.
Columns(e, objs, claims, created, intents, receipts, closed, bound, age, may) ==
  /\ e = [objs |-> objs, claims |-> claims, created |-> created, intents |-> intents, receipts |-> receipts,
          closed |-> closed, bound |-> bound, age |-> age, may |-> may]
  /\ e.objs = objs /\ e.claims = claims /\ e.created = created /\ e.intents = intents /\ e.receipts = receipts
  /\ e.closed = closed /\ e.bound = bound /\ e.age = age /\ e.may = may
Shape(d) == d = [objs |-> d.objs, claims |-> d.claims, created |-> d.created, intents |-> d.intents, receipts |-> d.receipts,
                 closed |-> d.closed, bound |-> d.bound, age |-> d.age, may |-> d.may]
\* An EXCEPT of one column is the record with that column.
LEMMA OneColumn ==
  ASSUME NEW d, Shape(d) \/ Tables(d), NEW x
  PROVE  /\ Columns([d EXCEPT !.objs = x], x, d.claims, d.created, d.intents, d.receipts, d.closed, d.bound, d.age, d.may)
         /\ Columns([d EXCEPT !.claims = x], d.objs, x, d.created, d.intents, d.receipts, d.closed, d.bound, d.age, d.may)
         /\ Columns([d EXCEPT !.created = x], d.objs, d.claims, x, d.intents, d.receipts, d.closed, d.bound, d.age, d.may)
         /\ Columns([d EXCEPT !.intents = x], d.objs, d.claims, d.created, x, d.receipts, d.closed, d.bound, d.age, d.may)
         /\ Columns([d EXCEPT !.receipts = x], d.objs, d.claims, d.created, d.intents, x, d.closed, d.bound, d.age, d.may)
         /\ Columns([d EXCEPT !.closed = x], d.objs, d.claims, d.created, d.intents, d.receipts, x, d.bound, d.age, d.may)
         /\ Columns([d EXCEPT !.bound = x], d.objs, d.claims, d.created, d.intents, d.receipts, d.closed, x, d.age, d.may)
         /\ Columns([d EXCEPT !.age = x], d.objs, d.claims, d.created, d.intents, d.receipts, d.closed, d.bound, x, d.may)
         /\ Columns([d EXCEPT !.may = x], d.objs, d.claims, d.created, d.intents, d.receipts, d.closed, d.bound, d.age, x)
<1>1. PICK a, b, c, f, g, h, i, j, k : d = [objs |-> a, claims |-> b, created |-> c, intents |-> f, receipts |-> g, closed |-> h, bound |-> i, age |-> j, may |-> k]
  BY DEF Tables, Shape
<1> QED
  BY <1>1, SMTT(30) DEF Columns

\* A step of the tables that leaves the past as it is: generations only grow, an object keeps its generation
\* or has a new one, a claim is older than the step or of an open source, intents and closures stay.
Evolves(d, e) ==
  /\ Tables(e)
  /\ \A o \in Ids : d.age[o] <= e.age[o]
  /\ \A o \in Ids : e.objs[o] # None => /\ e.objs[o].age <= e.age[o]
                                        /\ \/ d.objs[o] # None /\ e.objs[o].age = d.objs[o].age
                                           \/ e.objs[o].age > d.age[o]
  /\ \A o \in Ids : e.claims[o] # None => /\ e.objs[o] # None /\ e.claims[o].age = e.objs[o].age
                                          /\ \/ e.claims[o] = d.claims[o]
                                             \/ d.closed[e.claims[o].source] = None
  /\ \A n \in Nonces : IF d.intents[n] # None THEN e.intents[n] = d.intents[n]
                       ELSE e.intents[n] # None => IntentIs(e, e.intents[n])
  /\ \A s \in Sources : IF d.closed[s] # None THEN e.closed[s] = d.closed[s]
                        ELSE e.closed[s] # None => ClosedIs(e, s)

\* What evolves stays healthy.
LEMMA EvolvesHealthy == ASSUME NEW d, NEW e, Healthy(d), Evolves(d, e) PROVE Healthy(e)
<1>0. Tables(d) /\ Tables(e)
  BY DEF Healthy, Evolves
<1>1. ASSUME NEW n \in Nonces, e.intents[n] # None PROVE IntentIs(e, e.intents[n])
  <2>1. CASE d.intents[n] # None
    <3>1. e.intents[n] = d.intents[n] /\ IntentIs(d, d.intents[n])
      BY <2>1 DEF Evolves, Healthy
    <3>2. ASSUME NEW o \in DOMAIN e.intents[n].objects
          PROVE  /\ o \in Ids /\ e.intents[n].objects[o] \in GuardObject
                 /\ e.intents[n].objects[o].age <= e.age[o]
      <4>1. /\ o \in Ids /\ e.intents[n].objects[o] \in GuardObject
            /\ e.intents[n].objects[o].age <= d.age[o]
        BY <3>1 DEF IntentIs
      <4>2. d.age[o] <= e.age[o] /\ d.age[o] \in Nat /\ e.age[o] \in Nat /\ e.intents[n].objects[o].age \in Nat
        BY <1>0, <4>1 DEF Evolves, Tables, GuardObject
      <4> QED
        BY <4>1, <4>2, SMTT(30)
    <3> QED
      BY <3>1, <3>2 DEF IntentIs
  <2> QED
    BY <1>1, <2>1 DEF Evolves
<1>2. ASSUME NEW s \in Sources, e.closed[s] # None PROVE ClosedIs(e, s)
  <2>1. CASE d.closed[s] # None
    <3>1. PICK n \in Nonces : n = d.closed[s]
      BY <1>0, <2>1 DEF Tables
    <3>2. PICK i : i = d.intents[n]
      OBVIOUS
    <3>3. e.closed[s] = n /\ ClosedIs(d, s) /\ i # None
      BY <2>1, <3>1, <3>2 DEF Evolves, Healthy, ClosedIs
    <3>4. e.intents[n] = i /\ IntentIs(d, i)
      BY <3>1, <3>2, <3>3 DEF Evolves, Healthy
    <3>5. Claimed(e, s) \subseteq Claimed(d, s)
      BY <2>1 DEF Claimed, Evolves
    <3>6. /\ i.format = 2 => Claimed(d, s) = {} /\ \A o \in DOMAIN i.objects \cap Live(d) : d.objs[o].age # i.objects[o].age
          /\ i.format # 2 => Claimed(d, s) \subseteq DOMAIN i.retained.objects
      BY <3>1, <3>2, <3>3 DEF ClosedIs
    <3>7. ASSUME i.format = 2, NEW o \in DOMAIN i.objects \cap Live(e) PROVE e.objs[o].age # i.objects[o].age
      <4>1. o \in Ids /\ e.objs[o] # None /\ i.objects[o] \in GuardObject /\ i.objects[o].age <= d.age[o]
        BY <3>4 DEF IntentIs, Live
      <4>2. CASE d.objs[o] # None /\ e.objs[o].age = d.objs[o].age
        BY <3>6, <3>7, <4>1, <4>2 DEF Live
      <4>3. CASE e.objs[o].age > d.age[o]
        <5>1. e.objs[o].age \in Nat /\ d.age[o] \in Nat /\ i.objects[o].age \in Nat
          BY <1>0, <4>1 DEF Tables, GuardObject
        <5> QED
          BY <4>1, <4>3, <5>1, SMTT(30)
      <4> QED
        BY <4>1, <4>2, <4>3 DEF Evolves
    <3>8. /\ i.format = 2 => Claimed(e, s) = {} /\ \A o \in DOMAIN i.objects \cap Live(e) : e.objs[o].age # i.objects[o].age
          /\ i.format # 2 => Claimed(e, s) \subseteq DOMAIN i.retained.objects
      BY <3>5, <3>6, <3>7
    <3> QED
      BY <3>3, <3>4, <3>8 DEF ClosedIs
  <2> QED
    BY <1>2, <2>1 DEF Evolves
<1> QED
  BY <1>0, <1>1, <1>2 DEF Healthy, Evolves

\* A step that changes neither intents nor closures.
Calm(d, e) ==
  /\ Tables(e) /\ e.intents = d.intents /\ e.closed = d.closed
  /\ \A o \in Ids : d.age[o] <= e.age[o]
  /\ \A o \in Ids : e.objs[o] # None => /\ e.objs[o].age <= e.age[o]
                                        /\ \/ d.objs[o] # None /\ e.objs[o].age = d.objs[o].age
                                           \/ e.objs[o].age > d.age[o]
  /\ \A o \in Ids : e.claims[o] # None => /\ e.objs[o] # None /\ e.claims[o].age = e.objs[o].age
                                          /\ \/ e.claims[o] = d.claims[o]
                                             \/ d.closed[e.claims[o].source] = None
\* Calm changes are an evolution.
LEMMA CalmEvolves == ASSUME NEW d, NEW e, Healthy(d), Calm(d, e) PROVE Evolves(d, e)
BY DEF Calm, Evolves

\* A deletion: the objects and their claims go, and devices that stay lose their cluster.
LEMMA DeletedIs ==
  ASSUME NEW d, Tables(d), NEW S \in SUBSET Ids
  PROVE  LET e == Deleted(d, S) IN
         /\ Tables(e) /\ e.created = d.created /\ e.intents = d.intents /\ e.receipts = d.receipts /\ e.closed = d.closed
         /\ e.bound = d.bound /\ e.age = d.age /\ e.may = d.may
         /\ \A o \in Ids : e.objs[o] = IF o \in S THEN None ELSE IF o \in Nulled(d, S) THEN [d.objs[o] EXCEPT !.cluster = None] ELSE d.objs[o]
         /\ \A o \in Ids : e.claims[o] = IF o \in S THEN None ELSE d.claims[o]
<1> DEFINE x == [o \in Ids |-> IF o \in S THEN None ELSE IF o \in Nulled(d, S) THEN [d.objs[o] EXCEPT !.cluster = None] ELSE d.objs[o]]
           y == [o \in Ids |-> IF o \in S THEN None ELSE d.claims[o]]
           f == [d EXCEPT !.objs = x]
<1>1. x \in [Ids -> {None} \cup GuardObject]
  <2>1. ASSUME NEW o \in Ids, o \in Nulled(d, S) PROVE [d.objs[o] EXCEPT !.cluster = None] \in GuardObject
    <3>1. d.objs[o] \in GuardObject
      BY <2>1 DEF Nulled, OfKind, Live, Tables
    <3> QED
      BY <3>1 DEF GuardObject
  <2> QED
    BY <2>1 DEF Tables
<1>2. y \in [Ids -> {None} \cup GuardClaim]
  BY DEF Tables
<1>3. Deleted(d, S) = [f EXCEPT !.claims = y] /\ f.claims = d.claims
  <2>1. Columns(f, x, d.claims, d.created, d.intents, d.receipts, d.closed, d.bound, d.age, d.may)
    BY OneColumn
  <2>2. f.claims = d.claims
    BY <2>1 DEF Columns
  <2> HIDE DEF x
  <2>3. Deleted(d, S) = invalidate_claim(f, S)
    BY DEF Deleted, x
  <2> HIDE DEF f
  <2> QED
    BY <2>2, <2>3 DEF invalidate_claim
<1> HIDE DEF x, y
<1>4. Columns(f, x, d.claims, d.created, d.intents, d.receipts, d.closed, d.bound, d.age, d.may)
  BY OneColumn
<1>5. Tables(f)
  BY <1>1, <1>4 DEF Columns, Tables
<1> HIDE DEF f
<1>6. Columns([f EXCEPT !.claims = y], x, y, d.created, d.intents, d.receipts, d.closed, d.bound, d.age, d.may)
  <2>1. Columns([f EXCEPT !.claims = y], f.objs, y, f.created, f.intents, f.receipts, f.closed, f.bound, f.age, f.may)
    BY <1>5, OneColumn
  <2>2. /\ f.objs = x /\ f.created = d.created /\ f.intents = d.intents /\ f.receipts = d.receipts
        /\ f.closed = d.closed /\ f.bound = d.bound /\ f.age = d.age /\ f.may = d.may
    BY <1>4 DEF Columns
  <2> QED
    BY <2>1, <2>2
<1>7. Tables(Deleted(d, S))
  BY <1>1, <1>2, <1>3, <1>6, SMTT(30) DEF Columns, Tables
<1> QED
  BY <1>3, <1>6, <1>7, SMTT(30) DEF Columns, x, y
\* Two columns at once, as creation, closure and replacement change them.
LEMMA TwoColumns ==
  ASSUME NEW d, Tables(d), NEW x, NEW y
  PROVE  /\ Columns([d EXCEPT !.objs = x, !.age = y], x, d.claims, d.created, d.intents, d.receipts, d.closed, d.bound, y, d.may)
         /\ Columns([d EXCEPT !.claims = x, !.created = y], d.objs, x, y, d.intents, d.receipts, d.closed, d.bound, d.age, d.may)
         /\ Columns([d EXCEPT !.closed = x, !.receipts = y], d.objs, d.claims, d.created, d.intents, y, x, d.bound, d.age, d.may)
         /\ Columns([d EXCEPT !.objs = x, !.created = y], x, d.claims, y, d.intents, d.receipts, d.closed, d.bound, d.age, d.may)
<1>1. Columns([d EXCEPT !.objs = x, !.age = y], x, d.claims, d.created, d.intents, d.receipts, d.closed, d.bound, y, d.may)
  <2>1. PICK e : e = [d EXCEPT !.objs = x]
    OBVIOUS
  <2>2. Columns(e, x, d.claims, d.created, d.intents, d.receipts, d.closed, d.bound, d.age, d.may)
    BY <2>1, OneColumn
  <2>3. Shape(e)
    BY <2>2 DEF Columns, Shape
  <2>4. PICK f : f = [e EXCEPT !.age = y]
    OBVIOUS
  <2>5. Columns(f, x, d.claims, d.created, d.intents, d.receipts, d.closed, d.bound, y, d.may)
    <3>1. Columns(f, e.objs, e.claims, e.created, e.intents, e.receipts, e.closed, e.bound, y, e.may)
      BY <2>3, <2>4, OneColumn
    <3> QED
      BY <2>2, <3>1 DEF Columns
  <2>6. f = [d EXCEPT !.objs = x, !.age = y]
    BY <2>1, <2>4
  <2> QED
    BY <2>5, <2>6
<1>2. Columns([d EXCEPT !.claims = x, !.created = y], d.objs, x, y, d.intents, d.receipts, d.closed, d.bound, d.age, d.may)
  <2>1. PICK e : e = [d EXCEPT !.claims = x]
    OBVIOUS
  <2>2. Columns(e, d.objs, x, d.created, d.intents, d.receipts, d.closed, d.bound, d.age, d.may)
    BY <2>1, OneColumn
  <2>3. Shape(e)
    BY <2>2 DEF Columns, Shape
  <2>4. PICK f : f = [e EXCEPT !.created = y]
    OBVIOUS
  <2>5. Columns(f, d.objs, x, y, d.intents, d.receipts, d.closed, d.bound, d.age, d.may)
    <3>1. Columns(f, e.objs, e.claims, y, e.intents, e.receipts, e.closed, e.bound, e.age, e.may)
      BY <2>3, <2>4, OneColumn
    <3> QED
      BY <2>2, <3>1 DEF Columns
  <2>6. f = [d EXCEPT !.claims = x, !.created = y]
    BY <2>1, <2>4
  <2> QED
    BY <2>5, <2>6
<1>3. Columns([d EXCEPT !.closed = x, !.receipts = y], d.objs, d.claims, d.created, d.intents, y, x, d.bound, d.age, d.may)
  <2>1. PICK e : e = [d EXCEPT !.closed = x]
    OBVIOUS
  <2>2. Columns(e, d.objs, d.claims, d.created, d.intents, d.receipts, x, d.bound, d.age, d.may)
    BY <2>1, OneColumn
  <2>3. Shape(e)
    BY <2>2 DEF Columns, Shape
  <2>4. PICK f : f = [e EXCEPT !.receipts = y]
    OBVIOUS
  <2>5. Columns(f, d.objs, d.claims, d.created, d.intents, y, x, d.bound, d.age, d.may)
    <3>1. Columns(f, e.objs, e.claims, e.created, e.intents, y, e.closed, e.bound, e.age, e.may)
      BY <2>3, <2>4, OneColumn
    <3> QED
      BY <2>2, <3>1 DEF Columns
  <2>6. f = [d EXCEPT !.closed = x, !.receipts = y]
    BY <2>1, <2>4
  <2> QED
    BY <2>5, <2>6
<1>4. Columns([d EXCEPT !.objs = x, !.created = y], x, d.claims, y, d.intents, d.receipts, d.closed, d.bound, d.age, d.may)
  <2>1. PICK e : e = [d EXCEPT !.objs = x]
    OBVIOUS
  <2>2. Columns(e, x, d.claims, d.created, d.intents, d.receipts, d.closed, d.bound, d.age, d.may)
    BY <2>1, OneColumn
  <2>3. Shape(e)
    BY <2>2 DEF Columns, Shape
  <2>4. PICK f : f = [e EXCEPT !.created = y]
    OBVIOUS
  <2>5. Columns(f, x, d.claims, y, d.intents, d.receipts, d.closed, d.bound, d.age, d.may)
    <3>1. Columns(f, e.objs, e.claims, y, e.intents, e.receipts, e.closed, e.bound, e.age, e.may)
      BY <2>3, <2>4, OneColumn
    <3> QED
      BY <2>2, <3>1 DEF Columns
  <2>6. f = [d EXCEPT !.objs = x, !.created = y]
    BY <2>1, <2>4
  <2> QED
    BY <2>5, <2>6
<1> QED
  BY <1>1, <1>2, <1>3, <1>4

\* A deletion leaves the past as it is.
LEMMA DeletedCalm == ASSUME NEW d, Healthy(d), NEW S \in SUBSET Ids
                     PROVE  /\ Calm(d, Deleted(d, S))
                            /\ \A o \in Ids : Deleted(d, S).objs[o] # d.objs[o] => o \in S \cup Nulled(d, S)
<1>0. Tables(d)
  BY DEF Healthy
<1>1. PICK e : e = Deleted(d, S)
  OBVIOUS
<1>2. /\ Tables(e) /\ e.intents = d.intents /\ e.closed = d.closed /\ e.age = d.age
      /\ \A o \in Ids : e.objs[o] = IF o \in S THEN None ELSE IF o \in Nulled(d, S) THEN [d.objs[o] EXCEPT !.cluster = None] ELSE d.objs[o]
      /\ \A o \in Ids : e.claims[o] = IF o \in S THEN None ELSE d.claims[o]
  BY <1>0, <1>1, DeletedIs, SMTT(30)
<1>3. ASSUME NEW o \in Ids, e.objs[o] # None PROVE d.objs[o] # None /\ e.objs[o].age = d.objs[o].age /\ o \notin S
  <2>1. CASE o \in Nulled(d, S)
    <3>1. d.objs[o] \in GuardObject
      BY <1>0, <2>1 DEF Nulled, OfKind, Live, Tables
    <3>2. e.objs[o] = [d.objs[o] EXCEPT !.cluster = None] /\ o \notin S
      BY <1>2, <1>3, <2>1
    <3> QED
      BY <3>1, <3>2, GuardNoneAssumption DEF GuardObject
  <2>2. CASE o \notin Nulled(d, S)
    BY <1>2, <1>3, <2>2
  <2> QED
    BY <2>1, <2>2
<1>4. ASSUME NEW o \in Ids, d.objs[o] # None, o \notin S PROVE e.objs[o] # None
  <2>1. CASE o \in Nulled(d, S)
    <3>1. d.objs[o] \in GuardObject
      BY <1>0, <1>4 DEF Tables
    <3>2. e.objs[o] = [d.objs[o] EXCEPT !.cluster = None]
      BY <1>2, <1>4, <2>1
    <3>3. [d.objs[o] EXCEPT !.cluster = None] \in GuardObject
      BY <3>1 DEF GuardObject
    <3> QED
      BY <3>2, <3>3, GuardNoneAssumption
  <2>2. CASE o \notin Nulled(d, S)
    BY <1>2, <1>4, <2>2
  <2> QED
    BY <2>1, <2>2
<1>5. \A o \in Ids : d.age[o] <= e.age[o]
  BY <1>0, <1>2, SMTT(30) DEF Tables
<1>6. ASSUME NEW o \in Ids, e.claims[o] # None PROVE e.objs[o] # None /\ e.claims[o].age = e.objs[o].age /\ e.claims[o] = d.claims[o]
  BY <1>2, <1>3, <1>4, <1>6 DEF Healthy
<1>7. ASSUME NEW o \in Ids, e.objs[o] # None PROVE e.objs[o].age <= e.age[o]
  BY <1>2, <1>3, <1>7 DEF Healthy
<1>8. Calm(d, e)
  BY <1>2, <1>3, <1>5, <1>6, <1>7 DEF Calm
<1> QED
  BY <1>1, <1>2, <1>8

\* One object changes, and is what it was or new: its claim stays where it is.
LEMMA ObjectCalm ==
  ASSUME NEW d, Healthy(d), NEW o \in Ids, NEW x \in GuardObject, NEW e, Tables(e), e.intents = d.intents, e.closed = d.closed,
         e.objs = [d.objs EXCEPT ![o] = x], e.claims = d.claims,
         \/ d.objs[o] # None /\ x.age = d.objs[o].age /\ e.age = d.age
         \/ d.objs[o] = None /\ x.age = d.age[o] + 1 /\ e.age = [d.age EXCEPT ![o] = x.age]
  PROVE  Calm(d, e)
<1>0. Tables(d) /\ d.objs \in [Ids -> {None} \cup GuardObject] /\ d.age \in [Ids -> Nat] /\ x # None /\ x.age \in Nat
  BY GuardNoneAssumption DEF Healthy, Tables, GuardObject
<1>1. \A y \in Ids : /\ y # o => e.objs[y] = d.objs[y] /\ e.age[y] = d.age[y]
                     /\ e.objs[o] = x
  BY <1>0
<1>2. d.age[o] <= e.age[o] /\ x.age <= e.age[o] /\ (d.objs[o] = None => x.age > d.age[o])
  BY <1>0, SMTT(30) DEF Healthy
<1>3. \A y \in Ids : d.age[y] <= e.age[y]
  BY <1>0, <1>1, <1>2, SMTT(30)
<1>4. \A y \in Ids : e.objs[y] # None => /\ e.objs[y].age <= e.age[y]
                                         /\ \/ d.objs[y] # None /\ e.objs[y].age = d.objs[y].age
                                            \/ e.objs[y].age > d.age[y]
  BY <1>0, <1>1, <1>2 DEF Healthy
<1>5. \A y \in Ids : e.claims[y] # None => e.objs[y] # None /\ e.claims[y].age = e.objs[y].age
  BY <1>0, <1>1, SMTT(30) DEF Healthy
<1> QED
  BY <1>3, <1>4, <1>5 DEF Calm
\* CREATE, claim and receipt: a new object of a source that is open.
LEMMA CreateCalm ==
  ASSUME NEW d, Healthy(d), NEW r \in Requests, NEW o \in Ids, d.age[o] = 0, KindOf[o] = r.kind, d.closed[r.source] = None
  PROVE  /\ Calm(d, create_owned(d, r, o))
         /\ \A x \in Live(d) : create_owned(d, r, o).objs[x] = d.objs[x]
<1> DEFINE obj == New(r, 1)
           new == [d EXCEPT !.objs[o] = obj, !.age[o] = 1]
           c == _scope(new, o)
           claim == [source |-> r.source, cluster |-> c, age |-> 1]
           entry == [kind |-> r.kind, source |-> r.source, obj |-> o, digest |-> r]
           e == [new EXCEPT !.claims[o] = claim, !.created[r.nonce] = entry]
<1>0. Tables(d) /\ d.objs \in [Ids -> {None} \cup GuardObject] /\ d.age \in [Ids -> Nat] /\ d.claims \in [Ids -> {None} \cup GuardClaim]
  BY DEF Healthy, Tables
<1>1. CASE create_owned(d, r, o) = d
  <2>1. Calm(d, d)
    BY <1>0, SMTT(30) DEF Healthy, Calm, Tables
  <2> QED
    BY <1>1, <2>1
<1>2. CASE create_owned(d, r, o) # d
  <2>1. create_owned(d, r, o) = e /\ (r.kind # "cluster" => r.place = c)
    BY <1>2 DEF create_owned
  <2>2. obj \in GuardObject /\ obj.age = 1
    BY GuardAssumption, SMTT(30) DEF New, GuardObject
  <2>3. d.objs[o] = None
    <3>1. d.objs[o] # None => d.objs[o] \in GuardObject
      BY <1>0
    <3> QED
      BY <3>1, SMTT(30) DEF Healthy, GuardObject
  <2>4. c \in {None} \cup Ids
    <3>1. CASE r.kind = "cluster"
      BY <3>1 DEF _scope
    <3> QED
      BY <2>1, <3>1, GuardAssumption
  <2>5. claim \in GuardClaim /\ claim.source = r.source /\ claim.age = 1
    BY <2>4, GuardAssumption, SMTT(30) DEF GuardClaim
  <2> HIDE DEF obj, c, claim, entry
  <2> DEFINE x == [d.objs EXCEPT ![o] = obj]
             a == [d.age EXCEPT ![o] = 1]
  <2>6. x \in [Ids -> {None} \cup GuardObject] /\ a \in [Ids -> Nat]
    BY <1>0, <2>2
  <2>7. new = [d EXCEPT !.objs = x, !.age = a]
    OBVIOUS
  <2>8. Columns(new, x, d.claims, d.created, d.intents, d.receipts, d.closed, d.bound, a, d.may)
    BY <1>0, <2>7, TwoColumns
  <2> HIDE DEF x, a, new
  <2>9. Tables(new)
    BY <1>0, <2>6, <2>8 DEF Columns, Tables
  <2> DEFINE y == [d.claims EXCEPT ![o] = claim]
             z == [d.created EXCEPT ![r.nonce] = entry]
  <2>10. y \in [Ids -> {None} \cup GuardClaim] /\ z = [n \in AskNonces \cup {"replace"} |-> z[n]]
    BY <1>0, <2>5 DEF Tables
  <2>11. e = [new EXCEPT !.claims = y, !.created = z]
    BY <2>8 DEF Columns
  <2> HIDE DEF e, y, z
  <2>12. Columns(e, x, y, z, d.intents, d.receipts, d.closed, d.bound, a, d.may)
    <3>1. Columns(e, new.objs, y, z, new.intents, new.receipts, new.closed, new.bound, new.age, new.may)
      BY <2>9, <2>11, TwoColumns
    <3> QED
      BY <2>8, <3>1 DEF Columns
  <2>13. Tables(e)
    BY <1>0, <2>6, <2>10, <2>12 DEF Columns, Tables
  <2>14. \A p \in Ids : /\ p # o => e.objs[p] = d.objs[p] /\ e.age[p] = d.age[p] /\ e.claims[p] = d.claims[p]
                        /\ e.objs[o] = obj /\ e.age[o] = 1 /\ e.claims[o] = claim
    BY <1>0, <2>12 DEF Columns, x, a, y
  <2>15. obj # None
    BY <2>2, GuardNoneAssumption
  <2>16. \A p \in Ids : d.age[p] <= e.age[p]
    BY <1>0, <2>14, SMTT(30)
  <2>17. \A p \in Ids : e.objs[p] # None => /\ e.objs[p].age <= e.age[p]
                                            /\ \/ d.objs[p] # None /\ e.objs[p].age = d.objs[p].age
                                               \/ e.objs[p].age > d.age[p]
    BY <2>2, <2>14, SMTT(30) DEF Healthy
  <2>18. \A p \in Ids : e.claims[p] # None => /\ e.objs[p] # None /\ e.claims[p].age = e.objs[p].age
                                              /\ e.claims[p] = d.claims[p] \/ d.closed[e.claims[p].source] = None
    BY <2>2, <2>5, <2>14, <2>15, SMTT(30) DEF Healthy
  <2>19. Calm(d, e)
    BY <2>12, <2>13, <2>16, <2>17, <2>18 DEF Calm, Columns
  <2> QED
    BY <2>1, <2>3, <2>14, <2>19 DEF Live
<1> QED
  BY <1>1, <1>2
\* ---- What a retirement takes. ----------------------------------------------------------------
\* Interfaces carry no cluster, so that deleting them too nulls nobody else.
LEMMA NulledCascade ==
  ASSUME NEW d, Tables(d), NEW B \in SUBSET Ids
  PROVE  /\ Nulled(d, Cascade(d, B)) \subseteq Nulled(d, B) /\ Nulled(d, Cascade(d, B) \ B) = {}
         /\ Cascade(d, B) \subseteq Ids /\ (B \subseteq Live(d) => Cascade(d, B) \subseteq Live(d))
<1>1. ASSUME NEW o \in OfKind(d, "device"), d.objs[o].cluster \in Cascade(d, B) PROVE d.objs[o].cluster \in B
  <2>1. d.objs[o] \in GuardObject
    BY DEF OfKind, Live, Tables
  <2>2. d.objs[o].cluster \in {None} \cup Clusters
    BY <2>1 DEF GuardObject
  <2>3. ASSUME d.objs[o].cluster \in OfKind(d, "nic") PROVE FALSE
    <3>1. KindOf[d.objs[o].cluster] = "nic" /\ d.objs[o].cluster \in Ids
      BY <2>3 DEF OfKind, Live
    <3>2. d.objs[o].cluster \in Clusters
      BY <2>2, <3>1, GuardNoneAssumption
    <3> QED
      BY <3>1, <3>2 DEF Clusters
  <2> QED
    BY <1>1, <2>3 DEF Cascade
<1>2. Nulled(d, Cascade(d, B)) \subseteq Nulled(d, B)
  BY <1>1 DEF Nulled
<1>3. Nulled(d, Cascade(d, B) \ B) = {}
  BY <1>1 DEF Nulled
<1>4. Cascade(d, B) \subseteq Ids
  BY DEF Cascade, OfKind, Live
<1>5. B \subseteq Live(d) => Cascade(d, B) \subseteq Live(d)
  BY DEF Cascade, OfKind
<1> QED
  BY <1>2, <1>3, <1>4, <1>5

\* What DeletesOwned asks of an object of source s before it is deleted or changed.
OwnedBy(d, o, s) == /\ d.claims[o] # None /\ d.claims[o].source = s /\ d.claims[o].age = d.objs[o].age /\ o \notin d.bound
                  /\ d.closed[s] = None /\ _scope(d, o) = d.claims[o].cluster /\ _owners(d.objs[o], s)
\* What _claims gives is owned.
LEMMA ClaimsOwned ==
  ASSUME NEW d, NEW S, NEW s, NEW c, _claims(d, S, s, c), d.closed[s] = None, NEW o \in S
  PROVE  OwnedBy(d, o, s)
BY DEF _claims, OwnedBy
\* An execution of intent n: it closes no other source and takes what is reviewed, owned and in its receipt.
Takes(d, e, n) ==
  LET s == d.intents[n].source IN
  /\ Evolves(d, e) /\ \A t \in Sources : t # s => e.closed[t] = d.closed[t]
  /\ \A o \in Live(d) : e.objs[o] # d.objs[o] =>
       /\ OwnedBy(d, o, s) /\ d.receipts[n] = None /\ e.receipts[n] # None /\ o \in e.receipts[n]
       /\ d.intents[n].objects[o] = d.objs[o]
\* Nothing is taken when nothing changes.
LEMMA TakesNothing == ASSUME NEW d, Healthy(d), NEW n PROVE Takes(d, d, n)
<1>1. Calm(d, d)
  BY SMTT(30) DEF Healthy, Calm, Tables
<1>2. Evolves(d, d)
  BY <1>1, CalmEvolves
<1> QED
  BY <1>2 DEF Takes

\* service.retire: the reviewed closure of one root.
LEMMA RetireTakes ==
  ASSUME NEW d, Healthy(d), NEW n \in Nonces, d.intents[n] # None
  PROVE  Takes(d, retire(d, n), n)
<1> DEFINE i == d.intents[n]
           root == CHOOSE o \in i.roots : TRUE
           S == Cascade(d, {root})
           f == Deleted(d, S)
           x == [f.receipts EXCEPT ![n] = S]
           e == [f EXCEPT !.receipts = x]
<1>0. Tables(d)
  BY DEF Healthy
<1>1. CASE retire(d, n) = d
  BY <1>1, TakesNothing
<1>2. CASE retire(d, n) # d
  <2>1. /\ d.receipts[n] = None /\ d.closed[i.source] = None /\ root \in Live(d)
        /\ OneRoot(d, i.source, i.cluster, root) = Inventory(TRUE, i.objects, i.roots, i.print)
        /\ retire(d, n) = [Deleted(d, DOMAIN i.objects) EXCEPT !.receipts[n] = DOMAIN i.objects]
    BY <1>2 DEF retire, assert_open
  <2>2. /\ (i.cluster \in Live(d) /\ Collects(d, {root}) /\ _claims(d, S, i.source, i.cluster)) = TRUE
        /\ i.objects = _snapshot(d, S)
    BY <2>1 DEF OneRoot, Inventory, _closure
  <2>3. Collects(d, {root}) /\ _claims(d, S, i.source, i.cluster)
    BY <2>2
  <2>4. DOMAIN i.objects = S /\ \A o \in S : i.objects[o] = d.objs[o]
    BY <2>2 DEF _snapshot
  <2>5. S \subseteq Ids /\ S \in SUBSET Ids /\ Nulled(d, S) \subseteq S
    <3>1. {root} \in SUBSET Ids
      BY <2>1 DEF Live
    <3>2. S \subseteq Ids /\ Nulled(d, S) \subseteq Nulled(d, {root})
      BY <1>0, <3>1, NulledCascade
    <3> QED
      BY <2>3, <3>2 DEF Collects
  <2> HIDE DEF S, root
  <2>6. /\ Tables(f) /\ f.receipts = d.receipts
        /\ Calm(d, f) /\ \A o \in Ids : f.objs[o] # d.objs[o] => o \in S
    BY <1>0, <2>5, DeletedIs, DeletedCalm
  <2>7. retire(d, n) = e
    BY <2>1, <2>4
  <2>8. Columns(e, f.objs, f.claims, f.created, f.intents, x, f.closed, f.bound, f.age, f.may)
    BY <2>6, OneColumn
  <2>9. x \in [Nonces -> {None} \cup SUBSET Ids] /\ x[n] = S /\ S # None
    BY <2>5, <2>6, GuardNoneAssumption DEF Tables
  <2> HIDE DEF e, f, x
  <2>10. Tables(e)
    BY <2>6, <2>8, <2>9 DEF Columns, Tables
  <2>11. Calm(d, e)
    BY <2>6, <2>8, <2>10 DEF Columns, Calm
  <2>12. Evolves(d, e) /\ e.closed = d.closed
    BY <2>11, CalmEvolves DEF Calm
  <2>13. ASSUME NEW o \in Live(d), e.objs[o] # d.objs[o]
         PROVE  /\ OwnedBy(d, o, i.source) /\ d.receipts[n] = None /\ e.receipts[n] # None /\ o \in e.receipts[n]
                /\ i.objects[o] = d.objs[o]
    <3>1. o \in S
      BY <2>6, <2>8, <2>13 DEF Columns, Live
    <3>2. OwnedBy(d, o, i.source)
      BY <2>1, <2>3, <3>1, ClaimsOwned
    <3> QED
      BY <2>1, <2>4, <2>8, <2>9, <3>1, <3>2 DEF Columns
  <2> QED
    BY <2>7, <2>12, <2>13 DEF Takes
<1> QED
  BY <1>1, <1>2
\* The closing of a source, over tables f that differ from d only by what was deleted.
LEMMA SealEvolves ==
  ASSUME NEW d, Healthy(d), NEW n \in Nonces, d.intents[n] # None, d.closed[d.intents[n].source] = None,
         NEW f, Calm(d, f), f.receipts = d.receipts, NEW gone \in SUBSET Ids,
         d.intents[n].format = 2 => /\ Claimed(f, d.intents[n].source) = {}
                                    /\ \A o \in DOMAIN d.intents[n].objects \cap Live(f) : f.objs[o].age # d.intents[n].objects[o].age,
         d.intents[n].format # 2 => Claimed(f, d.intents[n].source) \subseteq DOMAIN d.intents[n].retained.objects
  PROVE  /\ Evolves(d, seal(f, n, gone)) /\ \A t \in Sources : t # d.intents[n].source => seal(f, n, gone).closed[t] = d.closed[t]
         /\ seal(f, n, gone).receipts[n] = gone /\ gone # None /\ seal(f, n, gone).objs = f.objs
<1> DEFINE s == d.intents[n].source
           x == [f.closed EXCEPT ![s] = n]
           y == [f.receipts EXCEPT ![n] = gone]
           e == [f EXCEPT !.closed = x, !.receipts = y]
<1>0. /\ Tables(d) /\ Tables(f) /\ f.intents = d.intents /\ f.closed = d.closed /\ IntentIs(d, d.intents[n])
      /\ s \in Sources /\ n # None /\ gone # None
  BY GuardNoneAssumption DEF Healthy, Calm, IntentIs
<1>1. seal(f, n, gone) = e
  BY <1>0 DEF seal
<1>2. Columns(e, f.objs, f.claims, f.created, f.intents, y, x, f.bound, f.age, f.may)
  BY <1>0, TwoColumns
<1>3. x \in [Sources -> {None} \cup Nonces] /\ y \in [Nonces -> {None} \cup SUBSET Ids]
  BY <1>0 DEF Tables
<1>4. x[s] = n /\ y[n] = gone /\ \A t \in Sources : t # s => x[t] = d.closed[t]
  BY <1>0 DEF Tables
<1> HIDE DEF x, y, e, s
<1>5. Tables(e)
  BY <1>0, <1>2, <1>3 DEF Columns, Tables
<1>6. ClosedIs(e, s)
  <2>1. e.intents[e.closed[s]] = d.intents[n] /\ Claimed(e, s) = Claimed(f, s) /\ Live(e) = Live(f) /\ e.objs = f.objs
    BY <1>0, <1>2, <1>4 DEF Columns, Claimed, Live
  <2> QED
    BY <2>1 DEF ClosedIs, s
<1>7. Evolves(d, f)
  BY CalmEvolves
<1>8. \A t \in Sources : IF d.closed[t] # None THEN e.closed[t] = d.closed[t] ELSE e.closed[t] # None => ClosedIs(e, t)
  <2> SUFFICES ASSUME NEW t \in Sources
               PROVE  IF d.closed[t] # None THEN e.closed[t] = d.closed[t] ELSE e.closed[t] # None => ClosedIs(e, t)
    OBVIOUS
  <2>1. CASE t = s
    BY <1>0, <1>6, <2>1 DEF s
  <2>2. CASE t # s
    BY <1>2, <1>4, <2>2 DEF Columns
  <2> QED
    BY <2>1, <2>2
<1>9. \A m \in Nonces : IF d.intents[m] # None THEN e.intents[m] = d.intents[m]
                        ELSE e.intents[m] # None => IntentIs(e, e.intents[m])
  BY <1>0, <1>2 DEF Columns
<1>10. e.objs = f.objs /\ e.claims = f.claims /\ e.age = f.age
  BY <1>2 DEF Columns
<1>11. Evolves(d, e)
  BY <1>5, <1>7, <1>8, <1>9, <1>10 DEF Evolves
<1>12. \A t \in Sources : t # s => e.closed[t] = d.closed[t]
  BY <1>2, <1>4 DEF Columns
<1>13. e.receipts[n] = gone /\ e.objs = f.objs
  BY <1>2, <1>4 DEF Columns
<1> QED
  BY <1>0, <1>1, <1>11, <1>12, <1>13 DEF s

\* An archive deletes nothing, and closes over every claim the source has.
LEMMA ArchiveTakes ==
  ASSUME NEW d, Healthy(d), NEW n \in Nonces, d.intents[n] # None, d.intents[n].format = 4
  PROVE  Takes(d, archive_source(d, n), n)
<1> DEFINE i == d.intents[n]
<1>1. CASE archive_source(d, n) = d
  BY <1>1, TakesNothing
<1>2. CASE archive_source(d, n) # d
  <2>1. d.closed[i.source] = None /\ audit_source(d, i.source) = i.retained /\ archive_source(d, n) = seal(d, n, {})
    BY <1>2 DEF archive_source, assert_open
  <2>2. Calm(d, d)
    BY SMTT(30) DEF Healthy, Calm, Tables
  <2>3. Claimed(d, i.source) \subseteq DOMAIN i.retained.objects
    <3>1. audit_source(d, i.source).objects =
            [o \in Claimed(d, i.source) \cup Identified(d, i.source) \cup Recorded(d, i.source) |->
               [obj |-> d.objs[o], claimed |-> o \in Claimed(d, i.source) /\ (o \in Live(d) => Proves(d, o, i.source))]]
      BY DEF audit_source
    <3> QED
      BY <2>1, <3>1
  <2>4. /\ Evolves(d, seal(d, n, {})) /\ \A t \in Sources : t # i.source => seal(d, n, {}).closed[t] = d.closed[t]
        /\ seal(d, n, {}).objs = d.objs
    BY <2>1, <2>2, <2>3, SealEvolves, SMTT(30)
  <2> QED
    BY <2>1, <2>4 DEF Takes
<1> QED
  BY <1>1, <1>2

\* Behind a phase of a source's retirement, exactly what is no longer left is gone.
Part(d, D, acc) ==
  /\ acc.left \subseteq D /\ Tables(acc.d) /\ acc.d.created = d.created /\ acc.d.intents = d.intents /\ acc.d.receipts = d.receipts
  /\ acc.d.closed = d.closed /\ acc.d.bound = d.bound /\ acc.d.age = d.age /\ acc.d.may = d.may
  /\ \A o \in Ids : /\ acc.d.objs[o] = IF o \in D \ acc.left THEN None ELSE d.objs[o]
                    /\ acc.d.claims[o] = IF o \in D \ acc.left THEN None ELSE d.claims[o]
\* A phase of a retirement deletes within the set that the one before it kept to.
LEMMA PhasePart ==
  ASSUME NEW d, NEW D \in SUBSET Ids, NEW i, NEW acc, acc.ok => Part(d, D, acc), NEW kind, Phase(i, acc, kind).ok
  PROVE  Part(d, D, Phase(i, acc, kind))
<1> DEFINE batch == {o \in i.roots : KindOf[o] = kind}
           taken == Cascade(acc.d, batch)
<1>1. CASE Phase(i, acc, kind) = acc
  BY <1>1
<1>2. CASE Phase(i, acc, kind) # acc
  <2>1. /\ acc.ok
        /\ Phase(i, acc, kind) = [ok |-> Collects(acc.d, batch) /\ taken \subseteq acc.left /\ _claims(acc.d, taken, i.source, i.cluster),
                                  d |-> Deleted(acc.d, taken), left |-> acc.left \ taken]
    BY <1>2 DEF Phase
  <2>2. Part(d, D, acc) /\ Tables(acc.d)
    BY <2>1 DEF Part
  <2>3. PICK e, l : e = Deleted(acc.d, taken) /\ l = acc.left \ taken
    OBVIOUS
  <2>4. Collects(acc.d, batch) /\ taken \subseteq acc.left /\ Phase(i, acc, kind).d = e /\ Phase(i, acc, kind).left = l
    <3>1. PICK b : b = (Collects(acc.d, batch) /\ taken \subseteq acc.left /\ _claims(acc.d, taken, i.source, i.cluster))
      OBVIOUS
    <3>2. Phase(i, acc, kind) = [ok |-> b, d |-> e, left |-> l]
      BY <2>1, <2>3, <3>1
    <3>3. Phase(i, acc, kind).ok = b /\ Phase(i, acc, kind).d = e /\ Phase(i, acc, kind).left = l
      BY <3>2, SMTT(30)
    <3>4. b
      BY <3>3
    <3> QED
      BY <3>1, <3>3, <3>4
  <2>5. batch \in SUBSET Ids
    BY <2>4 DEF Collects, Live
  <2> HIDE DEF batch
  <2>6. taken \in SUBSET Ids /\ Nulled(acc.d, taken) \subseteq taken
    BY <2>2, <2>4, <2>5, NulledCascade DEF Collects
  <2> HIDE DEF taken
  <2>7. /\ Tables(e) /\ e.created = acc.d.created /\ e.intents = acc.d.intents /\ e.receipts = acc.d.receipts /\ e.closed = acc.d.closed
        /\ e.bound = acc.d.bound /\ e.age = acc.d.age /\ e.may = acc.d.may
        /\ \A o \in Ids : e.objs[o] = IF o \in taken THEN None ELSE IF o \in Nulled(acc.d, taken) THEN [acc.d.objs[o] EXCEPT !.cluster = None] ELSE acc.d.objs[o]
        /\ \A o \in Ids : e.claims[o] = IF o \in taken THEN None ELSE acc.d.claims[o]
    BY <2>2, <2>3, <2>6, DeletedIs, SMTT(30)
  <2>8. \A o \in Ids : e.objs[o] = IF o \in taken THEN None ELSE acc.d.objs[o]
    BY <2>6, <2>7
  <2>9. ASSUME NEW o \in Ids
        PROVE  /\ e.objs[o] = IF o \in D \ l THEN None ELSE d.objs[o]
               /\ e.claims[o] = IF o \in D \ l THEN None ELSE d.claims[o]
    <3>1. /\ acc.d.objs[o] = IF o \in D \ acc.left THEN None ELSE d.objs[o]
          /\ acc.d.claims[o] = IF o \in D \ acc.left THEN None ELSE d.claims[o]
      BY <2>2 DEF Part
    <3>2. o \in D \ l <=> o \in D \ acc.left \/ o \in taken
      BY <2>2, <2>3, <2>4 DEF Part
    <3> QED
      BY <2>7, <2>8, <3>1, <3>2
  <2>10. l \subseteq D
    BY <2>2, <2>3 DEF Part
  <2> QED
    BY <2>2, <2>4, <2>7, <2>9, <2>10 DEF Part
<1> QED
  BY <1>1, <1>2
\* source_retirement: the phases leave nothing of what was reviewed, or the cluster and all of it is gone already.
LEMMA RetireSourceTakes ==
  ASSUME NEW d, Healthy(d), NEW n \in Nonces, d.intents[n] # None, d.intents[n].format = 2
  PROVE  Takes(d, retire_source(d, n), n)
<1> DEFINE i == d.intents[n]
           s == i.source
           D == DOMAIN i.objects
           inv == _confirmed_inventory(d, s, i.cluster, D)
           begin == [ok |-> TRUE, d |-> d, left |-> D]
           one == Phase(i, begin, "vm")
           two == Phase(i, one, "device")
           end == Phase(i, two, "cluster")
<1>0. Tables(d) /\ Calm(d, d) /\ D \in SUBSET Ids
  <2>1. Tables(d) /\ D \in SUBSET Ids
    BY DEF Healthy, IntentIs
  <2>2. \A o \in Ids : d.age[o] \in Nat
    BY <2>1 DEF Tables
  <2>3. \A o \in Ids : d.age[o] <= d.age[o]
    BY <2>2, SMTT(30)
  <2> QED
    BY <2>1, <2>3 DEF Healthy, Calm
<1>1. CASE retire_source(d, n) = d
  BY <1>1, TakesNothing
<1>2. CASE retire_source(d, n) # d
  <2>1. /\ d.receipts[n] = None /\ d.closed[s] = None /\ inv.ok
        /\ \/ inv.print = None /\ retire_source(d, n) = seal(d, n, {})
           \/ /\ inv.print # None /\ inv.objects = i.objects /\ end.ok /\ end.left = {}
              /\ retire_source(d, n) = seal(end.d, n, D)
    BY <1>2 DEF retire_source, assert_open
  <2>2. CASE inv.print = None
    <3>1. i.cluster \notin Live(d)
      <4>1. i.cluster \in Live(d) => inv.print = d.objs[i.cluster]
        BY DEF _confirmed_inventory, _inventory, Inventory
      <4> QED
        BY <2>2, <4>1 DEF Live
    <3>2. PICK b : b = ((Claimed(d, s) \cup Recorded(d, s) \cup D \cup Identified(d, s)) \cap Live(d) = {} /\ Replacements(d, s) = {})
      OBVIOUS
    <3>3. inv = [ok |-> b, objects |-> _snapshot(d, {}), roots |-> {}, print |-> None]
      BY <3>1, <3>2 DEF _confirmed_inventory, Inventory
    <3>4. b
      <4>1. PICK v : v = inv
        OBVIOUS
      <4>2. v = [ok |-> b, objects |-> _snapshot(d, {}), roots |-> {}, print |-> None] /\ v.ok
        BY <2>1, <3>3, <4>1
      <4>3. v.ok = b
        BY <4>2
      <4> QED
        BY <4>2, <4>3
    <3>5. Claimed(d, s) \cap Live(d) = {} /\ D \cap Live(d) = {}
      BY <3>2, <3>4
    <3>6. Claimed(d, s) = {}
      BY <3>5 DEF Claimed, Live, Healthy
    <3>7. /\ Evolves(d, seal(d, n, {})) /\ \A t \in Sources : t # s => seal(d, n, {}).closed[t] = d.closed[t]
          /\ seal(d, n, {}).objs = d.objs
      <4>1. {} \in SUBSET Ids /\ \A o \in DOMAIN i.objects \cap Live(d) : d.objs[o].age # i.objects[o].age
        BY <3>5
      <4>2. d.closed[d.intents[n].source] = None /\ Claimed(d, d.intents[n].source) = {}
        BY <2>1, <3>6
      <4>3. PICK f, gone : f = d /\ gone = {}
        OBVIOUS
      <4>4. Calm(d, f) /\ f.receipts = d.receipts /\ gone \in SUBSET Ids /\ Claimed(f, d.intents[n].source) = {}
        BY <1>0, <4>2, <4>3
      <4>5. \A o \in DOMAIN d.intents[n].objects \cap Live(f) : f.objs[o].age # d.intents[n].objects[o].age
        BY <4>1, <4>3
      <4> HIDE DEF D, inv, begin, one, two, end
      <4>6. d.closed[d.intents[n].source] = None /\ Calm(d, f) /\ f.receipts = d.receipts /\ gone \in SUBSET Ids
        BY <4>2, <4>4
      <4>7. /\ d.intents[n].format = 2 =>
                 /\ Claimed(f, d.intents[n].source) = {}
                 /\ \A o \in DOMAIN d.intents[n].objects \cap Live(f) : f.objs[o].age # d.intents[n].objects[o].age
            /\ d.intents[n].format # 2 => Claimed(f, d.intents[n].source) \subseteq DOMAIN d.intents[n].retained.objects
        BY <4>4, <4>5
      <4>8. /\ Evolves(d, seal(f, n, gone)) /\ \A t \in Sources : t # s => seal(f, n, gone).closed[t] = d.closed[t]
            /\ seal(f, n, gone).receipts[n] = gone /\ gone # None /\ seal(f, n, gone).objs = f.objs
        BY <4>6, <4>7, SealEvolves, SMTT(30)
      <4> QED
        BY <4>3, <4>8
    <3> QED
      BY <2>1, <2>2, <3>7 DEF Takes
  <2>3. CASE inv.print # None
    <3>1. inv.objects = i.objects /\ end.ok /\ end.left = {} /\ retire_source(d, n) = seal(end.d, n, D)
      BY <2>1, <2>3
    <3>2. i.cluster \in Live(d)
      <4>1. i.cluster \notin Live(d) => inv.print = None
        BY DEF _confirmed_inventory, Inventory
      <4> QED
        BY <2>3, <4>1
    <3>3. PICK S, b : /\ S = InScope(d, i.cluster)
                      /\ b = (/\ \A o \in Claimed(d, s) : o \in S /\ d.claims[o].cluster = i.cluster
                              /\ _claims(d, S, s, i.cluster))
      OBVIOUS
    <3>4. inv = [ok |-> b, objects |-> _snapshot(d, S), roots |-> {o \in S : KindOf[o] # "nic"}, print |-> d.objs[i.cluster]]
      BY <3>2, <3>3 DEF _confirmed_inventory, _inventory, Inventory
    <3>5. b /\ i.objects = _snapshot(d, S)
      <4>1. PICK v : v = inv
        OBVIOUS
      <4>2. v = [ok |-> b, objects |-> _snapshot(d, S), roots |-> {o \in S : KindOf[o] # "nic"}, print |-> d.objs[i.cluster]]
        BY <3>4, <4>1
      <4>3. v.ok = b /\ v.objects = _snapshot(d, S)
        BY <4>2
      <4> QED
        BY <2>1, <3>1, <4>1, <4>3
    <3>6. D = S /\ \A o \in S : i.objects[o] = d.objs[o]
      BY <3>5 DEF _snapshot
    <3>7. Claimed(d, s) \subseteq D /\ _claims(d, D, s, i.cluster)
      BY <3>3, <3>5, <3>6
    <3> HIDE DEF D, inv
    <3>8. begin.ok => Part(d, D, begin)
      BY <1>0 DEF Part
    <3> HIDE DEF begin
    <3>9. one.ok => Part(d, D, one)
      BY <1>0, <3>8, PhasePart
    <3> HIDE DEF one
    <3>10. two.ok => Part(d, D, two)
      BY <1>0, <3>9, PhasePart
    <3> HIDE DEF two
    <3>11. Part(d, D, end)
      BY <1>0, <3>1, <3>10, PhasePart
    <3>12. PICK f : f = end.d
      OBVIOUS
    <3>13. /\ Tables(f) /\ f.intents = d.intents /\ f.receipts = d.receipts /\ f.closed = d.closed /\ f.age = d.age
           /\ \A o \in Ids : /\ f.objs[o] = IF o \in D THEN None ELSE d.objs[o]
                             /\ f.claims[o] = IF o \in D THEN None ELSE d.claims[o]
      BY <3>1, <3>11, <3>12 DEF Part
    <3>14. Calm(d, f)
      <4>1. \A o \in Ids : d.age[o] <= f.age[o]
        BY <1>0, <3>13, SMTT(30) DEF Tables
      <4>2. \A o \in Ids : f.objs[o] # None => f.objs[o].age <= f.age[o] /\ d.objs[o] # None /\ f.objs[o].age = d.objs[o].age
        BY <3>13 DEF Healthy
      <4>3. \A o \in Ids : f.claims[o] # None => /\ f.objs[o] # None /\ f.claims[o].age = f.objs[o].age
                                                 /\ f.claims[o] = d.claims[o]
        BY <3>13 DEF Healthy
      <4> QED
        BY <3>13, <4>1, <4>2, <4>3 DEF Calm
    <3>15. Claimed(f, s) = {} /\ D \cap Live(f) = {}
      BY <3>7, <3>13, SMTT(30) DEF Claimed, Live
    <3>16. /\ Evolves(d, seal(f, n, D)) /\ \A t \in Sources : t # s => seal(f, n, D).closed[t] = d.closed[t]
           /\ seal(f, n, D).receipts[n] = D /\ D # None /\ seal(f, n, D).objs = f.objs
      <4>1. D \in SUBSET Ids /\ d.closed[s] = None /\ f.receipts = d.receipts
        BY <1>0, <2>1, <3>13 DEF D
      <4>2. \A o \in DOMAIN d.intents[n].objects \cap Live(f) : f.objs[o].age # d.intents[n].objects[o].age
        BY <3>15 DEF D
      <4> QED
        BY <3>14, <3>15, <4>1, <4>2, SealEvolves
    <3>17. ASSUME NEW o \in Live(d), f.objs[o] # d.objs[o]
           PROVE  OwnedBy(d, o, s) /\ o \in D /\ i.objects[o] = d.objs[o]
      <4>1. o \in D
        BY <3>13, <3>17 DEF Live
      <4> QED
        BY <2>1, <3>6, <3>7, <4>1, ClaimsOwned
    <3>18. PICK e : e = seal(f, n, D)
      OBVIOUS
    <3>19. retire_source(d, n) = e
      BY <3>1, <3>12, <3>18
    <3>20. ASSUME NEW o \in Live(d), e.objs[o] # d.objs[o]
           PROVE  /\ OwnedBy(d, o, s) /\ d.receipts[n] = None /\ e.receipts[n] # None /\ o \in e.receipts[n]
                  /\ i.objects[o] = d.objs[o]
      BY <2>1, <3>16, <3>17, <3>18, <3>20
    <3>21. Takes(d, e, n)
      BY <3>16, <3>18, <3>20 DEF Takes
    <3> QED
      BY <3>19, <3>21
  <2> QED
    BY <2>2, <2>3
<1> QED
  BY <1>1, <1>2
\* ---- Reviews ------------------------------------------------------------------------------------
\* A new intent about objects that are there; everything else is as before.
Notes(d, e) == Evolves(d, e) /\ e.closed = d.closed /\ e.objs = d.objs
\* Nothing is noted when nothing changes.
LEMMA NotesNothing == ASSUME NEW d, Healthy(d) PROVE Notes(d, d)
<1>1. Calm(d, d)
  BY SMTT(30) DEF Healthy, Calm, Tables
<1> QED
  BY <1>1, CalmEvolves DEF Notes
\* Writing an intent is a note.
LEMMA IntentNotes ==
  ASSUME NEW d, Healthy(d), NEW n \in Nonces, d.intents[n] = None, NEW i, i.source \in Sources,
         NEW S \in SUBSET Live(d), i.objects = _snapshot(d, S)
  PROVE  Notes(d, [d EXCEPT !.intents[n] = i])
<1> DEFINE x == [d.intents EXCEPT ![n] = i]
           e == [d EXCEPT !.intents = x]
<1>0. Tables(d)
  BY DEF Healthy
<1>1. e = [d EXCEPT !.intents[n] = i]
  OBVIOUS
<1>2. Columns(e, d.objs, d.claims, d.created, x, d.receipts, d.closed, d.bound, d.age, d.may)
  BY <1>0, OneColumn
<1>3. x = [m \in Nonces |-> x[m]] /\ x[n] = i /\ \A m \in Nonces : m # n => x[m] = d.intents[m]
  BY <1>0 DEF Tables
<1> HIDE DEF x, e
<1>4. Tables(e)
  BY <1>0, <1>2, <1>3 DEF Columns, Tables
<1>5. IntentIs(e, i)
  <2>1. ASSUME NEW o \in DOMAIN i.objects PROVE o \in Ids /\ i.objects[o] \in GuardObject /\ i.objects[o].age <= e.age[o]
    <3>1. o \in S /\ i.objects[o] = d.objs[o]
      BY DEF _snapshot
    <3>2. o \in Ids /\ d.objs[o] # None
      BY <3>1 DEF Live
    <3> QED
      BY <1>0, <1>2, <3>1, <3>2 DEF Columns, Healthy, Tables
  <2> QED
    BY <2>1 DEF IntentIs
<1>6. Calm(d, d)
  BY SMTT(30) DEF Healthy, Calm, Tables
<1>7. e.objs = d.objs /\ e.claims = d.claims /\ e.age = d.age /\ e.closed = d.closed /\ e.intents = x
  BY <1>2 DEF Columns
<1>8. \A m \in Nonces : IF d.intents[m] # None THEN e.intents[m] = d.intents[m]
                        ELSE e.intents[m] # None => IntentIs(e, e.intents[m])
  BY <1>3, <1>5, <1>7
<1>9. Evolves(d, e)
  BY <1>4, <1>6, <1>7, <1>8 DEF Evolves, Calm
<1> QED
  BY <1>1, <1>7, <1>9 DEF Notes

\* So is writing a reviewed one.
LEMMA ReviewedNotes ==
  ASSUME NEW d, Healthy(d), NEW n \in Nonces, NEW format, NEW s \in Sources, NEW c, NEW inv,
         NEW S \in SUBSET Live(d), inv.objects = _snapshot(d, S)
  PROVE  Notes(d, Reviewed(d, n, format, s, c, inv))
<1>1. CASE Reviewed(d, n, format, s, c, inv) = d
  BY <1>1, NotesNothing
<1>2. CASE Reviewed(d, n, format, s, c, inv) # d
  <2>1. PICK i : i = Intent(format, s, c, inv)
    OBVIOUS
  <2>2. i.source = s /\ i.objects = inv.objects
    BY <2>1 DEF Intent
  <2>3. d.intents[n] = None /\ Reviewed(d, n, format, s, c, inv) = [d EXCEPT !.intents[n] = i]
    BY <1>2, <2>1 DEF Reviewed
  <2> QED
    BY <2>2, <2>3, IntentNotes, SMTT(30)
<1> QED
  BY <1>1, <1>2

\* Each of the three reviews lists objects that are there.
LEMMA ReviewsNote ==
  ASSUME NEW d, Healthy(d), NEW n \in Nonces, NEW s \in Sources
  PROVE  /\ \A c \in Clusters : Notes(d, review_source(d, n, s, c))
         /\ \A c, root : root \in Live(d) => Notes(d, review(d, n, s, c, root))
         /\ Notes(d, review_archive(d, n, s))
<1>0. Tables(d)
  BY DEF Healthy
<1>1. ASSUME NEW c \in Clusters PROVE Notes(d, review_source(d, n, s, c))
  <2> DEFINE inv == _confirmed_inventory(d, s, c, {})
  <2>1. CASE c \in Live(d)
    <3>1. InScope(d, c) \subseteq Live(d)
      <4>1. PICK B : B = {o \in OfKind(d, "device") : d.objs[o].cluster = c} \cup
                         {o \in OfKind(d, "vm") : d.objs[o].cluster = c \/ d.objs[o].up \in {x \in OfKind(d, "device") : d.objs[x].cluster = c}}
        OBVIOUS
      <4>2. B \subseteq Live(d) /\ B \in SUBSET Ids
        BY <4>1 DEF OfKind, Live
      <4>3. Cascade(d, B) \subseteq Live(d)
        BY <1>0, <4>2, NulledCascade
      <4> QED
        BY <2>1, <4>1, <4>3 DEF InScope
    <3>2. inv.objects = _snapshot(d, InScope(d, c))
      BY <2>1 DEF _confirmed_inventory, _inventory, Inventory
    <3> QED
      BY <3>1, <3>2, ReviewedNotes DEF review_source
  <2>2. CASE c \notin Live(d)
    <3>1. inv.objects = _snapshot(d, {}) /\ {} \in SUBSET Live(d)
      BY <2>2 DEF _confirmed_inventory, Inventory
    <3> QED
      BY <3>1, ReviewedNotes DEF review_source
  <2> QED
    BY <2>1, <2>2
<1>2. ASSUME NEW c, NEW root, root \in Live(d) PROVE Notes(d, review(d, n, s, c, root))
  <2>1. Cascade(d, {root}) \subseteq Live(d)
    <3>1. {root} \in SUBSET Ids /\ {root} \subseteq Live(d)
      BY <1>2 DEF Live
    <3> QED
      BY <1>0, <3>1, NulledCascade
  <2>2. OneRoot(d, s, c, root).objects = _snapshot(d, Cascade(d, {root}))
    BY DEF OneRoot, Inventory, _closure
  <2> QED
    BY <2>1, <2>2, ReviewedNotes DEF review
<1>3. Notes(d, review_archive(d, n, s))
  <2>1. PICK i : i = [format |-> 4, source |-> s, cluster |-> None, roots |-> {}, objects |-> _snapshot(d, {}),
                      print |-> None, retained |-> audit_source(d, s)]
    OBVIOUS
  <2>2. i.source = s /\ i.objects = _snapshot(d, {}) /\ {} \in SUBSET Live(d)
    BY <2>1
  <2>3. review_archive(d, n, s) = d \/ (d.intents[n] = None /\ review_archive(d, n, s) = [d EXCEPT !.intents[n] = i])
    BY <2>1 DEF review_archive
  <2> QED
    BY <2>2, <2>3, IntentNotes, NotesNothing, SMTT(30)
<1> QED
  BY <1>1, <1>2, <1>3
\* ---- A replaced VM, and what users do. -------------------------------------------------------------
\* One object is rewritten in its generation.
LEMMA EditCalm ==
  ASSUME NEW d, Healthy(d), NEW o \in Live(d), NEW x \in GuardObject, x.age = d.objs[o].age
  PROVE  Calm(d, [d EXCEPT !.objs[o] = x])
<1> DEFINE y == [d.objs EXCEPT ![o] = x]
           e == [d EXCEPT !.objs = y]
<1>0. Tables(d) /\ o \in Ids /\ d.objs[o] # None
  BY DEF Healthy, Live
<1>1. e = [d EXCEPT !.objs[o] = x]
  OBVIOUS
<1>2. Columns(e, y, d.claims, d.created, d.intents, d.receipts, d.closed, d.bound, d.age, d.may)
  BY <1>0, OneColumn
<1>3. y \in [Ids -> {None} \cup GuardObject]
  BY <1>0 DEF Tables
<1> HIDE DEF e
<1>4. Tables(e)
  BY <1>0, <1>2, <1>3 DEF Columns, Tables
<1>5. e.intents = d.intents /\ e.closed = d.closed /\ e.objs = y /\ e.claims = d.claims /\ e.age = d.age
  BY <1>2 DEF Columns
<1>6. Calm(d, e)
  BY <1>0, <1>4, <1>5, ObjectCalm
<1> QED
  BY <1>1, <1>6

\* vm_replacement.apply: the reviewed VM gets the identity, what was under it goes.
LEMMA ReplaceCalm ==
  ASSUME NEW d, Healthy(d), NEW ev, ev.ok, NEW new \in SourceIds
  PROVE  LET e == replace(d, ev, new) IN
         /\ Calm(d, e)
         /\ \A o \in Live(d) : e.objs[o] # d.objs[o] =>
              \E s : OwnedBy(d, o, s) /\ o \in DOMAIN ev.objects /\ ev.objects[o] = d.objs[o]
<1> DEFINE v == ev.vm
           S == Cascade(d, {v})
           f == Deleted(d, S \ {v})
<1>0. Tables(d)
  BY DEF Healthy
<1>1. CASE replace(d, ev, new) = d
  <2>1. Calm(d, d)
    BY SMTT(30) DEF Healthy, Calm, Tables
  <2> QED
    BY <1>1, <2>1
<1>2. CASE replace(d, ev, new) # d
  <2>1. PICK entry : entry = [kind |-> "vm-replacement", source |-> ev.source, obj |-> v, digest |-> ev]
    OBVIOUS
  <2>2. /\ v \in Live(d) /\ _evidence(d, v, ev.source, ev.cluster) = ev
        /\ replace(d, ev, new) = [Deleted(d, ev.children) EXCEPT !.objs[v].ids = {new}, !.created["replace"] = entry]
    BY <1>2, <2>1 DEF replace
  <2>3. PICK b : b = (/\ _claims(d, S, ev.source, ev.cluster) /\ Cardinality(d.objs[v].ids) = 1 /\ d.objs[v].cluster = ev.cluster
                      /\ assert_open(d, ev.source) /\ \A o \in S \ {v} : d.objs[o].text = 0)
    OBVIOUS
  <2>4. _evidence(d, v, ev.source, ev.cluster) =
          [ok |-> b, source |-> ev.source, cluster |-> ev.cluster, vm |-> v, objects |-> _snapshot(d, S), children |-> S \ {v}]
    BY <2>3 DEF _evidence, _closure
  <2>5. ev.ok = b /\ ev.objects = _snapshot(d, S) /\ ev.children = S \ {v}
    BY <2>2, <2>4, SMTT(30)
  <2>6. b
    BY <2>5
  <2>7. _claims(d, S, ev.source, ev.cluster) /\ d.closed[ev.source] = None
    BY <2>3, <2>6 DEF assert_open
  <2>8. v \in Ids /\ S \subseteq Live(d) /\ S \ {v} \in SUBSET Ids /\ Nulled(d, S \ {v}) = {} /\ v \in S
    <3>1. {v} \in SUBSET Ids /\ {v} \subseteq Live(d)
      BY <2>2 DEF Live
    <3>2. Nulled(d, S \ {v}) = {} /\ S \subseteq Live(d) /\ S \subseteq Ids
      BY <1>0, <3>1, NulledCascade
    <3> QED
      BY <3>1, <3>2 DEF Cascade
  <2>9. /\ Tables(f) /\ f.objs[v] = d.objs[v] /\ f.created = d.created /\ f.closed = d.closed /\ f.intents = d.intents /\ f.age = d.age
        /\ \A o \in Ids : f.claims[o] = d.claims[o] \/ f.claims[o] = None
        /\ Calm(d, f) /\ \A o \in Ids : f.objs[o] # d.objs[o] => o \in S
    <3>0. PICK T : T = S \ {v}
      OBVIOUS
    <3>5. T \in SUBSET Ids /\ Nulled(d, T) = {} /\ f = Deleted(d, T) /\ v \notin T /\ T \subseteq S
      BY <2>8, <3>0
    <3> HIDE DEF S, f
    <3>7. T \in SUBSET Ids /\ f = Deleted(d, T)
      BY <3>5
    <3>1. /\ Tables(f) /\ f.intents = d.intents /\ f.closed = d.closed /\ f.age = d.age
          /\ \A o \in Ids : f.objs[o] = IF o \in T THEN None ELSE IF o \in Nulled(d, T) THEN [d.objs[o] EXCEPT !.cluster = None] ELSE d.objs[o]
          /\ \A o \in Ids : f.claims[o] = IF o \in T THEN None ELSE d.claims[o]
      BY <1>0, <3>7, DeletedIs, SMTT(30)
    <3>2. f.objs[v] = d.objs[v] /\ \A o \in Ids : f.objs[o] # d.objs[o] => o \in S
      <4>1. \A o \in Ids : f.objs[o] = IF o \in T THEN None ELSE d.objs[o]
        BY <3>1, <3>5
      <4>2. f.objs[v] = d.objs[v]
        BY <2>8, <3>5, <4>1
      <4>3. \A o \in Ids : f.objs[o] # d.objs[o] => o \in S
        BY <3>5, <4>1
      <4> QED
        BY <4>2, <4>3
    <3>6. \A o \in Ids : f.claims[o] = IF o \in T THEN None ELSE d.claims[o]
      BY <1>0, <3>5, DeletedIs, SMTT(30)
    <3>3. /\ Tables(f) /\ f.created = d.created /\ f.closed = d.closed /\ f.intents = d.intents /\ f.age = d.age
          /\ \A o \in Ids : f.claims[o] = d.claims[o] \/ f.claims[o] = None
      BY <1>0, <3>5, <3>6, DeletedIs, SMTT(30)
    <3>4. Calm(d, f)
      BY <3>5, DeletedCalm
    <3> QED
      BY <3>2, <3>3, <3>4
  <2>10. PICK g : g = f
    OBVIOUS
  <2>11. PICK w : w = [g.objs[v] EXCEPT !.ids = {new}]
    OBVIOUS
  <2>12. w \in GuardObject /\ w.age = d.objs[v].age /\ d.objs[v] # None /\ w # None
    <3>1. g.objs[v] \in GuardObject /\ g.objs[v] = d.objs[v] /\ d.objs[v] # None
      BY <1>0, <2>2, <2>8, <2>9, <2>10 DEF Tables, Live
    <3>2. w \in GuardObject /\ w.age = d.objs[v].age
      BY <2>11, <3>1 DEF GuardObject
    <3> QED
      BY <3>1, <3>2, GuardNoneAssumption
  <2> DEFINE x == [g.objs EXCEPT ![v] = w]
             y == [g.created EXCEPT !["replace"] = entry]
             e == [g EXCEPT !.objs = x, !.created = y]
  <2>13. replace(d, ev, new) = e
    <3>1. replace(d, ev, new) = [g EXCEPT !.objs[v].ids = {new}, !.created["replace"] = entry]
      BY <2>2, <2>5, <2>10
    <3> QED
      BY <3>1, <2>11
  <2>14. Columns(e, x, g.claims, y, g.intents, g.receipts, g.closed, g.bound, g.age, g.may)
    BY <2>9, <2>10, TwoColumns
  <2>15. /\ x \in [Ids -> {None} \cup GuardObject] /\ x[v] = w /\ \A o \in Ids : o # v => x[o] = g.objs[o]
         /\ y = [m \in AskNonces \cup {"replace"} |-> y[m]]
    BY <2>8, <2>9, <2>10, <2>12 DEF Tables
  <2> HIDE DEF e, x, y, f, S
  <2>16. Tables(e)
    BY <2>9, <2>10, <2>14, <2>15 DEF Columns, Tables
  <2>17. e.objs = x /\ e.claims = g.claims /\ e.intents = d.intents /\ e.closed = d.closed /\ e.age = d.age
    BY <2>9, <2>10, <2>14 DEF Columns
  <2>18. \A o \in Ids : e.objs[o] # None => /\ e.objs[o].age <= e.age[o]
                                            /\ \/ d.objs[o] # None /\ e.objs[o].age = d.objs[o].age
                                               \/ e.objs[o].age > d.age[o]
    BY <2>8, <2>9, <2>10, <2>12, <2>15, <2>17 DEF Calm, Healthy
  <2>19. \A o \in Ids : e.claims[o] # None => /\ e.objs[o] # None /\ e.claims[o].age = e.objs[o].age
                                              /\ e.claims[o] = d.claims[o] \/ d.closed[e.claims[o].source] = None
    BY <2>8, <2>9, <2>10, <2>12, <2>15, <2>17, SMTT(30) DEF Calm
  <2>20. \A o \in Ids : d.age[o] <= e.age[o]
    BY <1>0, <2>17, SMTT(30) DEF Tables
  <2>21. Calm(d, e)
    BY <2>16, <2>17, <2>18, <2>19, <2>20 DEF Calm
  <2>22. ASSUME NEW o \in Live(d), e.objs[o] # d.objs[o]
         PROVE  OwnedBy(d, o, ev.source) /\ o \in DOMAIN ev.objects /\ ev.objects[o] = d.objs[o]
    <3>1. o \in S
      BY <2>8, <2>9, <2>10, <2>15, <2>17, <2>22 DEF Live
    <3>2. OwnedBy(d, o, ev.source)
      BY <2>7, <3>1, ClaimsOwned
    <3> QED
      BY <2>5, <3>1, <3>2 DEF _snapshot
  <2> QED
    BY <2>13, <2>21, <2>22
<1> QED
  BY <1>1, <1>2
\* ---- The locks and the steps --------------------------------------------------------------------------
\* DeletesOwned, of one step.
Careful ==
  used'[3] = used[3] => \A o \in Live(db) : db'.objs[o] # db.objs[o] =>
       /\ db.claims[o] # None /\ db.claims[o].age = db.objs[o].age /\ o \notin db.bound
       /\ LET c == db.claims[o] IN
            /\ db.closed[c.source] = None /\ _scope(db, o) = c.cluster /\ _owners(db.objs[o], c.source)
            /\ \/ \E n \in Nonces : /\ db.receipts[n] = None /\ db'.receipts[n] # None /\ o \in db'.receipts[n]
                                    /\ db.intents[n].source = c.source /\ db.intents[n].objects[o] = db.objs[o]
               \/ evidence # None /\ o \in DOMAIN evidence.objects /\ evidence.objects[o] = db.objs[o]
\* Taking is careful.
LEMMA TakesCareful == ASSUME NEW n \in Nonces, Takes(db, db', n) PROVE Careful
BY DEF Takes, OwnedBy, Careful
\* Unchanged objects are careful.
LEMMA SameCareful == ASSUME db'.objs = db.objs PROVE Careful
BY DEF Careful

\* The records of a worker at work, and their fields.
LEMMA States ==
  /\ Idle.step = "idle"
  /\ \A x \in Inserting : /\ x.step \in {"enter", "insert"} /\ x.req \in Requests /\ x.source \in Sources /\ x.nonce \in AskNonces
                         /\ [x EXCEPT !.step = "insert"] \in Inserting /\ [x EXCEPT !.step = "insert"].step = "insert"
                         /\ [x EXCEPT !.step = "insert"].req = x.req /\ [x EXCEPT !.step = "insert"].source = x.source
  /\ \A x \in Retiring : /\ x.step = "fenced" /\ x.what \in {"retire", "retire_source", "archive", "review"} /\ x.nonce \in Nonces
                         /\ x.source \in Sources
BY DEF Idle, Inserting, Retiring
\* A budget is spent, and the third one shows it.
LEMMA Spends ==
  ASSUME used \in [1..3 -> Nat], NEW n \in 1..3, Spend(n)
  PROVE  used' \in [1..3 -> Nat] /\ (n = 3 => used'[3] # used[3])
BY SMTT(30) DEF Spend

\* A step of the tables that hands out no lock.
LEMMA TablesStep ==
  ASSUME GuardIInv, Evolves(db, db'), world' = world, evidence' = evidence, used' \in [1..3 -> Nat],
         at' \in [Procs -> {Idle} \cup Inserting \cup Retiring], \A q \in Procs : at'[q] = at[q] \/ at'[q] = Idle,
         \A q \in Procs : at'[q].step = "insert" => db'.closed[at[q].source] = db.closed[at[q].source]
  PROVE  GuardIInv'
<1>1. Healthy(db')
  BY EvolvesHealthy DEF GuardIInv
<1>2. ASSUME NEW q \in Procs PROVE Locked(q)'
  <2>1. CASE at'[q] = Idle
    BY <2>1, States DEF Locked, Holding
  <2>2. CASE at'[q] = at[q] /\ at[q] # Idle
    <3>1. Locked(q) /\ at[q] \in Inserting \cup Retiring
      BY <2>2 DEF GuardIInv
    <3>2. at[q].step = "insert" => db'.closed[at[q].source] = None
      BY <2>2, <3>1 DEF Locked
    <3>3. ASSUME at[q].step = "fenced", at[q].what # "review"
          PROVE  db'.intents[at[q].nonce] = db.intents[at[q].nonce]
      <4>1. at[q].nonce \in Nonces /\ db.intents[at[q].nonce] # None
        BY <3>1, <3>3, States DEF Locked
      <4> QED
        BY <4>1 DEF Evolves
    <3>4. ASSUME NEW r \in Procs, q # r, Holding(q)', Holding(r)' PROVE at'[q].source # at'[r].source
      <4>1. at'[r] = at[r]
        BY <3>4, States DEF Holding
      <4> QED
        BY <2>2, <3>1, <3>4, <4>1 DEF Locked, Holding
    <3> QED
      BY <2>2, <3>1, <3>2, <3>3, <3>4 DEF Locked
  <2> QED
    BY <2>1, <2>2
<1> QED
  BY <1>1, <1>2 DEF GuardIInv

\* Steps that hand out a lock leave the tables alone; the lock is free.
LEMMA LockStep ==
  ASSUME GuardIInv, db' = db, world' = world, evidence' = evidence, used' \in [1..3 -> Nat],
         NEW p \in Procs, NEW x \in Inserting \cup Retiring, at' = [at EXCEPT ![p] = x],
         x.step \in {"enter", "insert"} => x.req.source = x.source,
         x.step = "insert" => db.closed[x.source] = None,
         x.step = "fenced" /\ x.what # "review" => /\ db.intents[x.nonce] # None /\ db.intents[x.nonce].source = x.source
                                                  /\ db.intents[x.nonce].format = Formats[x.what],
         x.step \in {"insert", "fenced"} => NamespaceFree(p, x.source)
  PROVE  GuardIInv'
<1>1. at' \in [Procs -> {Idle} \cup Inserting \cup Retiring] /\ at'[p] = x /\ \A q \in Procs : q # p => at'[q] = at[q]
  BY DEF GuardIInv
<1>2. ASSUME NEW q \in Procs, NEW r \in Procs, q # r, Holding(q)', Holding(r)' PROVE at'[q].source # at'[r].source
  <2>1. CASE q = p
    BY <1>1, <1>2, <2>1 DEF Holding, NamespaceFree
  <2>2. CASE r = p
    BY <1>1, <1>2, <2>2 DEF Holding, NamespaceFree
  <2>3. CASE q # p /\ r # p
    BY <1>1, <1>2, <2>3, SMTT(30) DEF GuardIInv, Locked, Holding
  <2> QED
    BY <2>1, <2>2, <2>3
<1>3. ASSUME NEW q \in Procs PROVE Locked(q)'
  <2>1. CASE q = p
    BY <1>1, <1>2, <2>1 DEF Locked
  <2>2. CASE q # p
    <3>1. Locked(q) /\ at'[q] = at[q]
      BY <1>1, <2>2 DEF GuardIInv
    <3> QED
      BY <1>2, <3>1 DEF Locked
  <2> QED
    BY <2>1, <2>2
<1> QED
  BY <1>1, <1>3 DEF GuardIInv
\* CreateOwned.post: the request, the locks, the insertion.
LEMMA PostStep == ASSUME GuardIInv, NEW p \in Procs, NEW r \in Requests, Post(p, r) PROVE GuardIInv' /\ Careful
<1>1. PICK x : x = [step |-> "enter", req |-> r, source |-> r.source, nonce |-> r.nonce]
  OBVIOUS
<1>2. x \in Inserting /\ x.step = "enter" /\ x.req = r /\ x.source = r.source
  BY <1>1, GuardAssumption DEF Inserting, AskNonces
<1>3. at' = [at EXCEPT ![p] = x] /\ db' = db /\ world' = world /\ evidence' = evidence /\ used' \in [1..3 -> Nat]
  BY <1>1, Spends, SMTT(30) DEF Post, Moves, GuardIInv
<1>4. GuardIInv'
  BY <1>2, <1>3, LockStep
<1> QED
  BY <1>3, <1>4, SameCareful
\* A worker enters its transaction.
LEMMA EnterStep == ASSUME GuardIInv, NEW p \in Procs, Enter(p) PROVE GuardIInv' /\ Careful
<1>1. /\ at[p].step = "enter" /\ NamespaceFree(p, at[p].source) /\ at[p] \in Inserting /\ at[p].req.source = at[p].source
      /\ db' = db /\ world' = world /\ evidence' = evidence /\ used' = used
  BY States DEF Enter, GuardIInv, Locked
<1>2. CASE at' = [at EXCEPT ![p] = Idle]
  <2>1. at' \in [Procs -> {Idle} \cup Inserting \cup Retiring] /\ \A q \in Procs : at'[q] = at[q] \/ at'[q] = Idle
    BY <1>2 DEF GuardIInv
  <2>2. Evolves(db, db')
    BY <1>1, NotesNothing DEF Notes, GuardIInv
  <2> QED
    BY <1>1, <2>1, <2>2, TablesStep, SameCareful DEF GuardIInv
<1>3. CASE at' = [at EXCEPT ![p] = [at[p] EXCEPT !.step = "insert"]] /\ assert_open(db, at[p].source)
  <2>1. PICK x : x = [at[p] EXCEPT !.step = "insert"]
    OBVIOUS
  <2>2. x \in Inserting /\ x.step = "insert" /\ x.req = at[p].req /\ x.source = at[p].source
    BY <1>1, <2>1, States
  <2>3. at' = [at EXCEPT ![p] = x] /\ used' \in [1..3 -> Nat] /\ db.closed[x.source] = None
    BY <1>1, <1>3, <2>1, <2>2 DEF GuardIInv, assert_open
  <2>4. GuardIInv'
    BY <1>1, <2>2, <2>3, LockStep
  <2> QED
    BY <1>1, <2>4, SameCareful
<1> QED
  BY <1>2, <1>3 DEF Enter, Moves
\* The insert of the object, with its claim.
LEMMA InsertStep == ASSUME GuardIInv, NEW p \in Procs, Insert(p) PROVE GuardIInv' /\ Careful
<1>1. /\ at[p].step = "insert" /\ at[p] \in Inserting /\ at[p].req.source = at[p].source /\ db.closed[at[p].source] = None
      /\ world' = world /\ evidence' = evidence /\ used' = used /\ at' = [at EXCEPT ![p] = Idle]
  BY States DEF Insert, Moves, GuardIInv, Locked
<1>2. PICK o \in Ids : db.age[o] = 0 /\ KindOf[o] = at[p].req.kind /\ db' = create_owned(db, at[p].req, o)
  BY DEF Insert
<1>3. at[p].req \in Requests /\ Healthy(db) /\ db.closed[at[p].req.source] = None
  BY <1>1, States DEF GuardIInv
<1>4. Calm(db, db') /\ \A x \in Live(db) : db'.objs[x] = db.objs[x]
  BY <1>2, <1>3, CreateCalm
<1>5. Evolves(db, db') /\ db'.closed = db.closed
  BY <1>3, <1>4, CalmEvolves DEF Calm
<1>6. at' \in [Procs -> {Idle} \cup Inserting \cup Retiring] /\ \A q \in Procs : at'[q] = at[q] \/ at'[q] = Idle
  BY <1>1 DEF GuardIInv
<1>7. GuardIInv'
  BY <1>1, <1>5, <1>6, TablesStep DEF GuardIInv
<1> QED
  BY <1>4, <1>7 DEF Careful

\* The namespace lock of a retirement, and the review of an archive.
LEMMA FenceStep ==
  ASSUME GuardIInv, NEW p \in Procs, NEW n \in Nonces, NEW what \in DOMAIN Formats, Fence(p, n, what) PROVE GuardIInv' /\ Careful
<1>1. PICK x : x = [step |-> "fenced", what |-> what, nonce |-> n, source |-> db.intents[n].source]
  OBVIOUS
<1>2. db.intents[n].source \in Sources
  BY DEF Fence, GuardIInv, Healthy, IntentIs
<1>3. what \in {"retire", "retire_source", "archive"}
  BY DEF Formats
<1>4. x \in Retiring /\ x.step = "fenced" /\ x.what = what /\ x.nonce = n /\ x.source = db.intents[n].source
  BY <1>1, <1>2, <1>3 DEF Retiring
<1>5. /\ at' = [at EXCEPT ![p] = x] /\ db' = db /\ world' = world /\ evidence' = evidence /\ used' \in [1..3 -> Nat]
      /\ db.intents[n] # None /\ db.intents[n].format = Formats[what] /\ NamespaceFree(p, x.source)
  BY <1>1, <1>4, Spends, SMTT(30) DEF Fence, Moves, GuardIInv
<1>6. GuardIInv'
  BY <1>4, <1>5, LockStep
<1> QED
  BY <1>5, <1>6, SameCareful
\* A review takes the fence of its source.
LEMMA FenceReviewStep ==
  ASSUME GuardIInv, NEW p \in Procs, NEW n \in Nonces, NEW s \in Sources, FenceReview(p, n, s) PROVE GuardIInv' /\ Careful
<1>1. PICK x : x = [step |-> "fenced", what |-> "review", nonce |-> n, source |-> s]
  OBVIOUS
<1>2. x \in Retiring /\ x.step = "fenced" /\ x.what = "review" /\ x.source = s
  BY <1>1 DEF Retiring
<1>3. /\ at' = [at EXCEPT ![p] = x] /\ db' = db /\ world' = world /\ evidence' = evidence /\ used' \in [1..3 -> Nat]
      /\ NamespaceFree(p, x.source)
  BY <1>1, <1>2, Spends, SMTT(30) DEF FenceReview, Moves, GuardIInv
<1>4. GuardIInv'
  BY <1>2, <1>3, LockStep
<1> QED
  BY <1>3, <1>4, SameCareful

\* Behind the fence: whoever else holds a lock holds the one of another source.
LEMMA ExecuteStep == ASSUME GuardIInv, NEW p \in Procs, Execute(p) PROVE GuardIInv' /\ Careful
<1> DEFINE n == at[p].nonce
<1>1. /\ at[p].step = "fenced" /\ at[p] \in Retiring /\ n \in Nonces /\ at[p].source \in Sources /\ Healthy(db)
      /\ at[p].what \in {"retire", "retire_source", "archive", "review"}
      /\ world' = world /\ evidence' = evidence /\ used' = used /\ at' = [at EXCEPT ![p] = Idle]
  BY States DEF Execute, Moves, GuardIInv
<1>2. at[p].what # "review" => /\ db.intents[n] # None /\ db.intents[n].source = at[p].source
                               /\ db.intents[n].format = Formats[at[p].what]
  BY <1>1 DEF GuardIInv, Locked
<1>3. CASE at[p].what # "review"
  <2>1. Takes(db, db', n)
    <3>1. CASE at[p].what = "retire"
      <4>1. db' = retire(db, n)
        BY <3>1 DEF Execute
      <4> QED
        BY <1>1, <1>2, <3>1, <4>1, RetireTakes
    <3>2. CASE at[p].what = "retire_source"
      <4>1. db' = retire_source(db, n) /\ db.intents[n].format = 2
        BY <1>2, <3>2, SMTT(30) DEF Execute, Formats
      <4> QED
        BY <1>1, <1>2, <3>2, <4>1, RetireSourceTakes
    <3>3. CASE at[p].what = "archive"
      <4>1. db' = archive_source(db, n) /\ db.intents[n].format = 4
        BY <1>2, <3>3, SMTT(30) DEF Execute, Formats
      <4> QED
        BY <1>1, <1>2, <3>3, <4>1, ArchiveTakes
    <3> QED
      BY <1>1, <1>3, <3>1, <3>2, <3>3
  <2>2. at' \in [Procs -> {Idle} \cup Inserting \cup Retiring] /\ \A q \in Procs : at'[q] = at[q] \/ at'[q] = Idle
    BY <1>1 DEF GuardIInv
  <2>3. ASSUME NEW q \in Procs, at'[q].step = "insert" PROVE db'.closed[at[q].source] = db.closed[at[q].source]
    <3>1. q # p /\ at[q].step = "insert" /\ at[q] \in Inserting
      BY <1>1, <2>2, <2>3, States DEF GuardIInv
    <3>2. at[q].source # at[p].source /\ at[q].source \in Sources
      BY <1>1, <3>1, States DEF GuardIInv, Locked, Holding
    <3> QED
      BY <1>2, <1>3, <2>1, <3>2 DEF Takes
  <2>4. GuardIInv'
    BY <1>1, <2>1, <2>2, <2>3, TablesStep DEF GuardIInv, Takes
  <2> QED
    BY <1>1, <2>1, <2>4, TakesCareful
<1>4. CASE at[p].what = "review"
  <2>1. db' = review_archive(db, n, at[p].source)
    BY <1>4 DEF Execute
  <2>2. Notes(db, db')
    BY <1>1, <2>1, ReviewsNote
  <2>3. at' \in [Procs -> {Idle} \cup Inserting \cup Retiring] /\ \A q \in Procs : at'[q] = at[q] \/ at'[q] = Idle
    BY <1>1 DEF GuardIInv
  <2>4. GuardIInv'
    BY <1>1, <2>2, <2>3, TablesStep DEF GuardIInv, Notes
  <2> QED
    BY <2>2, <2>4, SameCareful DEF Notes
<1> QED
  BY <1>3, <1>4
\* A worker rolls back.
LEMMA GiveUpStep == ASSUME GuardIInv, NEW p \in Procs, GiveUp(p) PROVE GuardIInv' /\ Careful
<1>1. at' = [at EXCEPT ![p] = Idle] /\ db' = db /\ world' = world /\ evidence' = evidence /\ used' = used /\ Healthy(db)
  BY DEF GiveUp, Moves, GuardIInv
<1>2. Evolves(db, db')
  BY <1>1, NotesNothing DEF Notes
<1>3. at' \in [Procs -> {Idle} \cup Inserting \cup Retiring] /\ \A q \in Procs : at'[q] = at[q] \/ at'[q] = Idle
  BY <1>1 DEF GuardIInv
<1>4. GuardIInv'
  BY <1>1, <1>2, <1>3, TablesStep DEF GuardIInv
<1> QED
  BY <1>1, <1>4, SameCareful
\* Reviews and the replacement pass only the database fence.
LEMMA ReviewStep ==
  ASSUME GuardIInv, NEW n \in Nonces, NEW s \in Sources, NEW c \in Clusters,
         ReviewSource(n, s, c) \/ \E root \in Ids : Review(n, s, c, root)
  PROVE  GuardIInv' /\ Careful
<1>1. Healthy(db) /\ at' = at /\ world' = world /\ evidence' = evidence /\ used' \in [1..3 -> Nat]
  BY Spends, SMTT(30) DEF ReviewSource, Review, Fenced, GuardIInv
<1>2. Notes(db, db')
  <2>1. CASE ReviewSource(n, s, c)
    BY <1>1, <2>1, ReviewsNote DEF ReviewSource, Fenced
  <2>2. ASSUME NEW root \in Ids, Review(n, s, c, root) PROVE Notes(db, db')
    <3>1. root \in Live(db) /\ db' = review(db, n, s, c, root)
      BY <2>2 DEF Review, Fenced
    <3> QED
      BY <1>1, <3>1, ReviewsNote
  <2> QED
    BY <2>1, <2>2
<1>3. GuardIInv'
  BY <1>1, <1>2, TablesStep DEF GuardIInv, Notes
<1> QED
  BY <1>2, <1>3, SameCareful DEF Notes
\* The review of a replacement.
LEMMA ReviewReplacementStep ==
  ASSUME GuardIInv, NEW v \in Ids, NEW s \in Sources, NEW c \in Clusters, ReviewReplacement(v, s, c) PROVE GuardIInv' /\ Careful
<1>1. db' = db /\ at' = at /\ world' = world /\ evidence'.ok /\ used' \in [1..3 -> Nat]
  BY Spends, SMTT(30) DEF ReviewReplacement, GuardIInv
<1>2. \A p \in Procs : Locked(p)'
  BY <1>1 DEF GuardIInv, Locked, Holding
<1> QED
  BY <1>1, <1>2, SameCareful DEF GuardIInv
\* The replacement.
LEMMA ReplaceStep == ASSUME GuardIInv, NEW i \in Bound.tags, Replace(i) PROVE GuardIInv' /\ Careful
<1>1. /\ Healthy(db) /\ evidence # None /\ evidence.ok /\ i \in SourceIds /\ db' = replace(db, evidence, i)
      /\ at' = at /\ world' = world /\ evidence' = evidence /\ used' \in [1..3 -> Nat]
  BY Spends, GuardAssumption, SMTT(30) DEF Replace, Fenced, GuardIInv, Bound
<1>2. /\ Calm(db, db')
      /\ \A o \in Live(db) : db'.objs[o] # db.objs[o] =>
           \E s : OwnedBy(db, o, s) /\ o \in DOMAIN evidence.objects /\ evidence.objects[o] = db.objs[o]
  BY <1>1, ReplaceCalm
<1>3. Evolves(db, db') /\ db'.closed = db.closed
  BY <1>1, <1>2, CalmEvolves DEF Calm
<1>4. GuardIInv'
  BY <1>1, <1>3, TablesStep DEF GuardIInv
<1>5. Careful
  BY <1>1, <1>2, SMTT(30) DEF Careful, OwnedBy
<1> QED
  BY <1>4, <1>5

\* NetBox users: whatever they do, no claim survives its object, and no lock is theirs.
LEMMA EditsStep == ASSUME GuardIInv, NEW d, Calm(db, d), Edits(d) PROVE GuardIInv' /\ Careful
<1>1. Healthy(db) /\ db' = d /\ at' = at /\ world' = world /\ evidence' = evidence /\ used' \in [1..3 -> Nat] /\ used'[3] # used[3]
  BY Spends, SMTT(30) DEF Edits, GuardIInv
<1>2. Evolves(db, db') /\ db'.closed = db.closed
  BY <1>1, CalmEvolves DEF Calm
<1>3. GuardIInv'
  BY <1>1, <1>2, TablesStep DEF GuardIInv
<1> QED
  BY <1>1, <1>3 DEF Careful
\* A user writes an object.
LEMMA UserWriteStep == ASSUME GuardIInv, NEW o \in Live(db), UserWrite(o) PROVE GuardIInv' /\ Careful
<1>1. Healthy(db) /\ db.objs[o] \in GuardObject
  BY DEF GuardIInv, Healthy, Tables, Live
<1>2. PICK x : x = [db.objs[o] EXCEPT !.text = 1]
  OBVIOUS
<1>3. x \in GuardObject /\ x.age = db.objs[o].age
  BY <1>1, <1>2 DEF GuardObject
<1>4. Edits([db EXCEPT !.objs[o] = x])
  BY <1>2 DEF UserWrite
<1> QED
  BY <1>1, <1>3, <1>4, EditCalm, EditsStep
\* A user tags an object.
LEMMA TagStep == ASSUME GuardIInv, NEW o \in Live(db), NEW i \in Bound.tags, Tag(o, i) PROVE GuardIInv' /\ Careful
<1>1. Healthy(db) /\ db.objs[o] \in GuardObject /\ i \in SourceIds
  BY GuardAssumption DEF GuardIInv, Healthy, Tables, Live, Bound
<1>2. PICK x : x = [db.objs[o] EXCEPT !.ids = @ \cup {i}]
  OBVIOUS
<1>3. x \in GuardObject /\ x.age = db.objs[o].age
  BY <1>1, <1>2 DEF GuardObject
<1>4. Edits([db EXCEPT !.objs[o] = x])
  BY <1>2 DEF Tag
<1> QED
  BY <1>1, <1>3, <1>4, EditCalm, EditsStep
\* A user moves an object to another cluster.
LEMMA MoveStep == ASSUME GuardIInv, NEW o \in Live(db), NEW c \in Clusters, Move(o, c) PROVE GuardIInv' /\ Careful
<1>1. Healthy(db) /\ db.objs[o] \in GuardObject
  BY DEF GuardIInv, Healthy, Tables, Live
<1>2. PICK x : x = [db.objs[o] EXCEPT !.cluster = c]
  OBVIOUS
<1>3. x \in GuardObject /\ x.age = db.objs[o].age
  BY <1>1, <1>2 DEF GuardObject
<1>4. Edits([db EXCEPT !.objs[o] = x])
  BY <1>2 DEF Move
<1> QED
  BY <1>1, <1>3, <1>4, EditCalm, EditsStep
\* A user deletes an object.
LEMMA UserDeleteStep == ASSUME GuardIInv, NEW o \in Live(db), UserDelete(o) PROVE GuardIInv' /\ Careful
<1>1. Healthy(db) /\ Tables(db) /\ {o} \in SUBSET Ids
  BY DEF GuardIInv, Healthy, Live
<1>2. Cascade(db, {o}) \in SUBSET Ids
  BY <1>1, NulledCascade
<1>3. Calm(db, Deleted(db, Cascade(db, {o})))
  BY <1>1, <1>2, DeletedCalm
<1> QED
  BY <1>3, EditsStep DEF UserDelete
\* A provider's binding and a permission change touch no object.
LEMMA BindStep == ASSUME GuardIInv, NEW o \in Live(db), BindTo(o) PROVE GuardIInv' /\ Careful
<1>1. PICK x : x = db.bound \cup {o}
  OBVIOUS
<1>2. PICK e : e = [db EXCEPT !.bound = x]
  OBVIOUS
<1>3. Tables(db) /\ Healthy(db) /\ x \subseteq Ids
  BY <1>1 DEF GuardIInv, Healthy, Tables, Live
<1>4. Columns(e, db.objs, db.claims, db.created, db.intents, db.receipts, db.closed, x, db.age, db.may)
  BY <1>2, <1>3, OneColumn
<1>5. Tables(e)
  BY <1>3, <1>4 DEF Columns, Tables
<1>6. Calm(db, db)
  BY <1>3, SMTT(30) DEF Healthy, Calm, Tables
<1>7. Calm(db, e)
  BY <1>4, <1>5, <1>6 DEF Columns, Calm
<1>8. Edits(e)
  BY <1>1, <1>2 DEF BindTo
<1> QED
  BY <1>7, <1>8, EditsStep
\* The permission is revoked.
LEMMA RevokeStep == ASSUME GuardIInv, Revoke PROVE GuardIInv' /\ Careful
<1>1. PICK x : x = ~db.may
  OBVIOUS
<1>2. PICK e : e = [db EXCEPT !.may = x]
  OBVIOUS
<1>3. Tables(db) /\ Healthy(db) /\ x \in BOOLEAN
  BY <1>1 DEF GuardIInv, Healthy
<1>4. Columns(e, db.objs, db.claims, db.created, db.intents, db.receipts, db.closed, db.bound, db.age, x)
  BY <1>2, <1>3, OneColumn
<1>5. Tables(e)
  BY <1>3, <1>4 DEF Columns, Tables
<1>6. Calm(db, db)
  BY <1>3, SMTT(30) DEF Healthy, Calm, Tables
<1>7. Calm(db, e)
  BY <1>4, <1>5, <1>6 DEF Columns, Calm
<1>8. Edits(e)
  BY <1>1, <1>2 DEF Revoke
<1> QED
  BY <1>7, <1>8, EditsStep
\* A re-created object has a generation of its own.
LEMMA RecreateStep == ASSUME GuardIInv, NEW o \in Ids, Recreate(o) PROVE GuardIInv' /\ Careful
<1>1. PICK x : x = [Bound.arrivals[o] EXCEPT !.age = db.age[o] + 1]
  OBVIOUS
<1>2. /\ o \in DOMAIN Bound.arrivals /\ Bound.arrivals[o] \in GuardObject /\ db.objs[o] = None
      /\ Tables(db) /\ Healthy(db) /\ db.age[o] \in Nat
  BY GuardAssumption DEF Recreate, Bound, GuardIInv, Healthy, Tables, Live
<1>3. x \in GuardObject /\ x.age = db.age[o] + 1
  BY <1>1, <1>2, SMTT(30) DEF GuardObject
<1> DEFINE y == [db.objs EXCEPT ![o] = x]
           z == [db.age EXCEPT ![o] = x.age]
<1>4. PICK e : e = [db EXCEPT !.objs = y, !.age = z]
  OBVIOUS
<1>5. y \in [Ids -> {None} \cup GuardObject] /\ z \in [Ids -> Nat]
  BY <1>2, <1>3, SMTT(30) DEF Tables
<1>6. Edits(e)
  <2>1. e = [db EXCEPT !.objs[o] = x, !.age[o] = @ + 1]
    BY <1>3, <1>4
  <2> QED
    BY <1>1, <2>1 DEF Recreate
<1> HIDE DEF y, z
<1>7. Columns(e, y, db.claims, db.created, db.intents, db.receipts, db.closed, db.bound, z, db.may)
  BY <1>2, <1>4, TwoColumns
<1>8. Tables(e)
  BY <1>2, <1>5, <1>7 DEF Columns, Tables
<1>9. Calm(db, e)
  <2>1. e.intents = db.intents /\ e.closed = db.closed /\ e.objs = y /\ e.claims = db.claims /\ e.age = z
    BY <1>7 DEF Columns
  <2> QED
    BY <1>2, <1>3, <1>8, <2>1, ObjectCalm DEF y, z
<1> QED
  BY <1>6, <1>9, EditsStep

\* What users do.
LEMMA UsersStep == ASSUME GuardIInv, Users PROVE GuardIInv' /\ Careful
<1>1. ASSUME NEW o \in Live(db), UserWrite(o) \/ BindTo(o) \/ UserDelete(o) PROVE GuardIInv' /\ Careful
  BY <1>1, UserWriteStep, BindStep, UserDeleteStep
<1>2. ASSUME NEW o \in Live(db), \E c \in Clusters \cap Live(db) : Move(o, c) PROVE GuardIInv' /\ Careful
  BY <1>2, MoveStep
<1>3. ASSUME NEW o \in Live(db), \E i \in Bound.tags : Tag(o, i) PROVE GuardIInv' /\ Careful
  BY <1>3, TagStep
<1>4. ASSUME NEW o \in Ids, Recreate(o) PROVE GuardIInv' /\ Careful
  BY <1>4, RecreateStep
<1> QED
  BY <1>1, <1>2, <1>3, <1>4, RevokeStep DEF Users
\* What a request does.
LEMMA RequestedStep == ASSUME GuardIInv, NEW p \in Procs, Requested(p) PROVE GuardIInv' /\ Careful
BY PostStep, EnterStep, InsertStep, ExecuteStep, GiveUpStep, FenceStep, FenceReviewStep DEF Requested

\* At the start there are objects and claims, all in their first generation, and no intent.
LEMMA InitGuard == ASSUME GuardInit PROVE GuardIInv
<1>1. PICK w \in DOMAIN Worlds : w = world
  BY DEF GuardInit
<1>2. /\ Bound.objs \in [Ids -> {None} \cup GuardObject] /\ Bound.claims \in [Ids -> {None} \cup GuardClaim]
      /\ \A o \in Ids : /\ Bound.objs[o] # None => Bound.objs[o].age = 1
                        /\ Bound.claims[o] # None => Bound.objs[o] # None /\ Bound.claims[o].age = 1
  BY <1>1, GuardAssumption DEF Bound
<1>3. PICK a, b, c, f, g, h, k :
        /\ a = Bound.objs /\ b = Bound.claims /\ c = [n \in AskNonces \cup {"replace"} |-> None] /\ f = [n \in Nonces |-> None]
        /\ g = [n \in Nonces |-> None] /\ h = [s \in Sources |-> None]
        /\ k = [o \in Ids |-> IF Bound.objs[o] = None THEN 0 ELSE 1]
  OBVIOUS
<1>4. db = [objs |-> a, claims |-> b, created |-> c, intents |-> f, receipts |-> g, closed |-> h, bound |-> {}, age |-> k, may |-> TRUE]
  BY <1>3 DEF GuardInit, AskNonces
<1>5. Columns(db, a, b, c, f, g, h, {}, k, TRUE)
  BY <1>4 DEF Columns
<1>6. /\ c = [n \in AskNonces \cup {"replace"} |-> c[n]] /\ f = [n \in Nonces |-> f[n]] /\ g \in [Nonces -> {None} \cup SUBSET Ids]
      /\ h \in [Sources -> {None} \cup Nonces] /\ k \in [Ids -> Nat]
  BY <1>3
<1>7. Tables(db)
  BY <1>2, <1>3, <1>5, <1>6 DEF Columns, Tables
<1>8. /\ \A n \in Nonces : db.intents[n] = None
      /\ \A s \in Sources : db.closed[s] = None
      /\ \A o \in Ids : db.objs[o] # None => db.objs[o].age <= db.age[o]
      /\ \A o \in Ids : db.claims[o] # None => db.objs[o] # None /\ db.claims[o].age = db.objs[o].age
  BY <1>2, <1>3, <1>5, SMTT(30) DEF Columns
<1>9. Healthy(db)
  BY <1>7, <1>8 DEF Healthy
<1>10. at = [p \in Procs |-> Idle] /\ evidence = None /\ used \in [1..3 -> Nat]
  BY DEF GuardInit
<1>11. \A p \in Procs : Locked(p)
  BY <1>10, States DEF Locked, Holding
<1> QED
  BY <1>1, <1>9, <1>10, <1>11 DEF GuardIInv
\* Every step keeps the invariant, and is careful.
LEMMA StepGuard == ASSUME GuardIInv, [GuardNext]_gvars PROVE GuardIInv' /\ (GuardNext => Careful)
<1>1. CASE GuardNext
  <2>1. ASSUME NEW n \in Nonces, NEW s \in Sources, NEW c \in Clusters,
               ReviewSource(n, s, c) \/ \E root \in Ids : Review(n, s, c, root)
        PROVE  GuardIInv' /\ Careful
    BY <2>1, ReviewStep
  <2>2. ASSUME NEW v \in Ids, NEW s \in Sources, NEW c \in Clusters, ReviewReplacement(v, s, c) PROVE GuardIInv' /\ Careful
    BY <2>2, ReviewReplacementStep
  <2> QED
    BY <1>1, <2>1, <2>2, RequestedStep, ReplaceStep, UsersStep DEF GuardNext
<1>2. CASE UNCHANGED gvars
  <2>1. db' = db /\ at' = at /\ world' = world /\ evidence' = evidence /\ used' = used
    BY <1>2 DEF gvars
  <2>2. \A p \in Procs : Locked(p)'
    BY <2>1 DEF GuardIInv, Locked, Holding
  <2>3. GuardIInv'
    BY <2>1, <2>2 DEF GuardIInv
  <2> QED
    BY <2>1, <2>3, SameCareful
<1> QED
  BY <1>1, <1>2

\* ---- The theorems -----------------------------------------------------------------------------------------
\* The inductive invariant: claims and intents are of generations there were, closures hold what they closed
\* over, and no two requests hold the lock of one source.
THEOREM GuardInvariant == GuardSpec => []GuardIInv
<1>1. GuardIInv /\ [GuardNext]_gvars => GuardIInv'
  BY StepGuard
<1> QED
  BY <1>1, InitGuard, PTL DEF GuardSpec

\* "Permanent namespace fence" (service.py, source_closure.py): a source a retirement closed owns nothing and
\* what was reviewed is gone for good, however late a creation of it commits; an archive keeps what it retained.
THEOREM ClosedSourceStaysEmpty == GuardSpec => []ClosedIsEmpty
<1>1. GuardIInv => ClosedIsEmpty
  BY DEF GuardIInv, Healthy, ClosedIs, ClosedIsEmpty, ClaimsLive, Live
<1> QED
  BY <1>1, GuardInvariant, PTL

\* Guard's requests delete or change nothing but what its source created, in that generation, unbound and as it
\* was reviewed, while the source is open.
THEOREM OnlyOwnedDeleted == GuardSpec => DeletesOwned
<1>1. GuardIInv /\ [GuardNext]_gvars => [Careful]_gvars
  BY StepGuard
<1> QED
  BY <1>1, GuardInvariant, PTL DEF GuardSpec, DeletesOwned, Careful
=============================================================================
