-------------------------- MODULE DeploymentProofs --------------------------
(***************************************************************************)
(* Proofs about Deployment, for any releases' schema, any sources, any     *)
(* bundle and any number of faults: whatever the installer, the backup,    *)
(* the restore and the update do, and wherever they raise or are killed,   *)
(* what is served is whole, a published bundle is one moment, and a window *)
(* gives back what it took.  First what calm steps preserve (a tool that   *)
(* moves, services that stop, data nobody serves); then one lemma per step *)
(* of each tool, the faults, the first state, and the theorems.            *)
(***************************************************************************)
EXTENDS Deployment, FiniteSetTheorems, TLAPS
USE ZenonT(30)

\* ---- Steps of the tools, and the lock. ----------------------------------------
\* A tool goes on, takes the lock, or frees it: the others are where they were, and who
\* held the lock holds it.
LEMMA Moves ==
  ASSUME ActorsIn, NEW t \in Actors, t \in Crew, NEW l, l \in Places(t), Goto(t, l), UNCHANGED scene,
         \/ UNCHANGED lock /\ (l \in Holding(t) => pc[t] \in Holding(t))
         \/ lock = None /\ lock' = t
         \/ Release(t) /\ l \notin Holding(t)
  PROVE  ActorsIn' /\ pc'[t] = l /\ \A u \in Actors \ {t} : pc'[u] = pc[u]
<1>1. pc = [u \in Actors |-> pc[u]] /\ pc' = [pc EXCEPT ![t] = l]
  BY DEF ActorsIn, Goto
<1>2. pc'[t] = l /\ \A u \in Actors \ {t} : pc'[u] = pc[u]
  BY <1>1
<1>3. pc' = [u \in Actors |-> pc'[u]]
  BY <1>1
<1>4. Crew' = Crew
  BY DEF Crew
<1>5. \A u \in Actors : pc'[u] \in Places(u) /\ (pc'[u] # "idle" => u \in Crew)
  BY <1>2 DEF ActorsIn
<1>6. ASSUME NEW u \in Actors, pc'[u] \in Holding(u) PROVE lock' = u
  <2>1. u # t => lock = u /\ u # None
    BY <1>2, <1>6, DeploymentAssumption DEF ActorsIn
  <2>2. u = t => l \in Holding(t)
    BY <1>2, <1>6
  <2> QED
    BY <2>1, <2>2, SMTT(30) DEF ActorsIn, Release
<1> QED
  BY <1>2, <1>3, <1>4, <1>5, <1>6 DEF ActorsIn

\* Nobody moves and the lock stays.
LEMMA Rests == ASSUME ActorsIn, UNCHANGED <<scene, pc, lock>> PROVE ActorsIn'
BY DEF ActorsIn, Crew, Actors

\* Which scene a tool at work is in.
LEMMA AtWork ==
  ASSUME ActorsIn, DeployTypeOK
  PROVE  /\ pc["install"] # "idle" => "install" \in Crew /\ scene \in {"live", "first", "test"}
         /\ pc["backup"] # "idle" => "backup" \in Crew /\ scene = "live"
         /\ pc["restore"] # "idle" => "restore" \in Crew /\ scene = "target"
         /\ pc["update"] # "idle" => "update" \in Crew /\ scene = "test"
         /\ "run" \in Crew
<1>1. \A t \in Actors : pc[t] # "idle" => t \in Crew
  BY DEF ActorsIn
<1> QED
  BY <1>1, SMTT(30) DEF Crew, DeployTypeOK, Actors, Tools

\* A tool that is offered belongs to the scene.
LEMMA OfferedCrew == ASSUME DeployTypeOK, NEW t, Offered(t)
                     PROVE  t \in Crew /\ t \in Actors /\ t # "run"
BY DEF Offered, Crew, DeployTypeOK, Actors, Tools

\* Who holds the lock excludes the others.
LEMMA Alone ==
  ASSUME ActorsIn, NEW t \in Actors, NEW u \in Actors, t # u, pc[t] \in Holding(t)
  PROVE  lock = t /\ pc[u] \notin Holding(u)
BY DEF ActorsIn

\* ---- What calm steps preserve. --------------------------------------------------
\* Services only stop, and nothing is changed that a host's soundness rests on.
Stops == /\ svc' \in [Services -> Links]
         /\ \A s \in Services : svc'[s] # None => svc'[s] = svc[s]
DbCalm == /\ db'.rev = db.rev /\ db'.granted = db.granted /\ db'.role = db.role
          /\ db'.plan = db.plan /\ db'.session = db.session /\ db'.dirty = db.dirty
Calm == /\ UNCHANGED <<scene, releases, current, config>> /\ Stops /\ DbCalm
        /\ files'.pw = files.pw /\ files'.env = files.env

\* What is unchanged is calm.
LEMMA SameStops == ASSUME DeployTypeOK, UNCHANGED svc PROVE Stops
BY DEF Stops, DeployTypeOK
\* So is an unchanged database.
LEMMA SameDb == ASSUME UNCHANGED db PROVE DbCalm
BY DEF DbCalm

\* Calm steps keep the host sound.
LEMMA CalmHost == ASSUME HostIs, Calm PROVE HostIs'
<1>1. /\ scene' = scene /\ releases' = releases /\ current' = current /\ config' = config
      /\ files'.pw = files.pw /\ files'.env = files.env /\ DbCalm
      /\ \A s \in Services : svc'[s] # None => svc'[s] = svc[s]
  BY DEF Calm, Stops
<1>2. Granted => Granted'
  BY <1>1 DEF Granted, DbCalm
<1>3. \A s \in Services : svc'[s] # None => files'.pw = "t" /\ db'.role = "t" /\ files'.env = Groups
  BY <1>1 DEF HostIs, DbCalm
<1>4. \A s \in Services : svc'[s] = New => Granted'
  BY <1>1, <1>2, DeploymentAssumption DEF HostIs, Releases
<1>5. scene = "first" => \A s \in Services : svc'[s] # Old
  BY <1>1, DeploymentAssumption DEF HostIs, Releases
<1>6. current' = New => Granted'
  BY <1>1, <1>2 DEF HostIs
<1> QED
  BY <1>1, <1>3, <1>4, <1>5, <1>6 DEF HostIs, DbCalm

\* Services that only stop leave the runtime off.
LEMMA StopsOff == ASSUME Stops, Off PROVE Off'
BY DEF Stops, Off

\* Calm steps of others keep what the installer knows.
LEMMA CalmInstall ==
  ASSUME InstallIs, Calm, pc'["install"] = pc["install"], mem'["install"] = mem["install"],
         faults'.killed = 0 => faults.killed = 0
  PROVE  InstallIs'
<1>1. /\ scene' = scene /\ releases' = releases /\ current' = current /\ config' = config
      /\ files'.pw = files.pw /\ files'.env = files.env /\ DbCalm
  BY DEF Calm
<1>2. Granted => Granted'
  BY <1>1 DEF Granted, DbCalm
<1>3. ~Off' => ~Off
  BY StopsOff DEF Calm
<1>4. ASSUME NEW m, SnapIs(m) PROVE SnapIs(m)'
  BY <1>1, <1>4 DEF SnapIs
<1>5. PICK m : m = mem["install"]
  OBVIOUS
<1>6. PICK p : p = pc["install"]
  OBVIOUS
<1>7. p \in Snapped => SnapIs(m)'
  BY <1>4, <1>5, <1>6 DEF InstallIs
<1> QED
  BY <1>1, <1>2, <1>3, <1>5, <1>6, <1>7, SMTT(30) DEF InstallIs, DbCalm

\* A backup's window, when nothing it takes changes, and when it is not open.
LEMMA CalmWindow ==
  ASSUME WindowIs, pc'["backup"] = pc["backup"], mem'["backup"] = mem["backup"],
         (UNCHANGED db /\ Stops) \/ pc["backup"] \notin Holding("backup") \/ (~Off /\ UNCHANGED svc)
  PROVE  WindowIs'
<1>1. PICK p : p = pc["backup"]
  OBVIOUS
<1>2. PICK b : b = mem["backup"].stage
  OBVIOUS
<1>3. UNCHANGED db => metadata(db) = metadata(db)'
  BY DEF metadata
<1>4. Off /\ Stops => Off'
  BY StopsOff
<1>5. CASE UNCHANGED db /\ Stops
  BY <1>1, <1>2, <1>3, <1>4, <1>5 DEF WindowIs
<1>6. CASE pc["backup"] \notin Holding("backup")
  BY <1>1, <1>2, <1>6 DEF WindowIs, Holding
<1>7. CASE ~Off /\ UNCHANGED svc
  BY <1>1, <1>2, <1>7 DEF WindowIs
<1> QED
  BY <1>5, <1>6, <1>7

\* The test stand beside a step of a run or of the installer.
LEMMA CalmStand ==
  ASSUME StandIs, UNCHANGED <<timer, netbox, svc>>, pc'["update"] = pc["update"],
         mem'["update"] = mem["update"], pc'["run"] \in {pc["run"], "idle"} \/ netbox.up,
         \/ pc'["install"] = pc["install"] /\ mem'["install"] = mem["install"]
         \/ /\ pc["install"] \notin {"idle", "done"} /\ pc'["install"] \notin {"idle", "start", "enable", "quiesce"}
            /\ ~mem'["install"].start
  PROVE  StandIs'
<1>1. Off' = Off /\ NewGuard' = NewGuard
  BY DEF Off, NewGuard
<1>2. PICK p : p = pc["update"]
  OBVIOUS
<1>3. CASE pc'["install"] = pc["install"] /\ mem'["install"] = mem["install"]
  BY <1>1, <1>2, <1>3 DEF StandIs
<1>4. CASE /\ pc["install"] \notin {"idle", "done"} /\ pc'["install"] \notin {"idle", "start", "enable", "quiesce"}
           /\ ~mem'["install"].start
  <2>1. p \in {"installing"} \cup Ended /\ p \notin {"start", "verify", "reconcile", "done"} /\ \A s \in Services : svc[s] # New
    BY <1>2, <1>4 DEF StandIs, Ended
  <2> QED
    BY <1>1, <1>2, <1>4, <2>1 DEF StandIs
<1> QED
  BY <1>3, <1>4

\* The target beside a step of a run or of its API.
LEMMA CalmTarget ==
  ASSUME TargetIs, UNCHANGED <<timer, svc, releases, current, config, bundles>>, pc'["restore"] = pc["restore"],
         mem'["restore"] = mem["restore"], files'.env = files.env,
         /\ db'.rev = db.rev /\ db'.granted = db.granted /\ db'.role = db.role /\ db'.dirty = db.dirty
         /\ db'.plan # db.plan => db'.plan # "restored"
         /\ db'.session # db.session => db'.session # "restored",
         UNCHANGED db \/ ~Off,
         pc'["run"] \in {pc["run"], "idle"} \/ ~Off
  PROVE  TargetIs'
<1>1. Off' = Off /\ Bundle' = Bundle /\ (Granted => Granted')
  BY DEF Off, Bundle, Granted
<1>2. PICK p : p = pc["restore"]
  OBVIOUS
<1>3. ~Off => ~db.dirty
  BY DEF TargetIs
<1>4. p = "drop" => EmptyTarget'
  BY <1>2 DEF TargetIs, EmptyTarget, Holding
<1>5. db'.dirty => Off' /\ pc'["run"] = "idle"
  BY <1>1, <1>3 DEF TargetIs
<1> QED
  BY <1>1, <1>2, <1>4, <1>5 DEF TargetIs

\* ---- Steps of the installer. ---------------------------------------------------
Memorized(t) == mem' = [mem EXCEPT ![t] = mem'[t]]

\* A tool writes its own memory, and no other tool's.
LEMMA OtherMemory == ASSUME DeployTypeOK, NEW t \in Tools, NEW m, Keep(t, m)
                     PROVE  mem'[t] = m /\ Memorized(t) /\ \A u \in Tools \ {t} : mem'[u] = mem[u]
<1>1. mem = [u \in Tools |-> mem[u]] /\ mem' = [mem EXCEPT ![t] = m]
  BY DEF DeployTypeOK, Keep
<1>2. mem'[t] = m /\ \A u \in Tools \ {t} : mem'[u] = mem[u]
  BY <1>1
<1> QED
  BY <1>1, <1>2 DEF Memorized
\* Or none.
LEMMA SameMemory == ASSUME DeployTypeOK, UNCHANGED mem, NEW t \in Tools PROVE Memorized(t)
BY DEF DeployTypeOK, Memorized

\* What is left to show of a step of the installer: its own facts.
LEMMA InstallerStep ==
  ASSUME DeployIInv, "install" \in Crew, NEW l \in Places("install"), Goto("install", l),
         \/ UNCHANGED lock /\ (l \in Holding("install") => pc["install"] \in Holding("install"))
         \/ lock = None /\ lock' = "install"
         \/ Release("install") /\ l \notin Holding("install"),
         UNCHANGED <<scene, bundles, netbox>>, Memorized("install"), DeployTypeOK',
         pc'["install"] = l => HostIs' /\ InstallIs',
         UNCHANGED <<db, svc>> \/ pc["install"] \in Holding("install"),
         scene = "test" => /\ UNCHANGED <<svc, timer>> /\ l \notin {"idle", "start", "enable", "quiesce"}
                           /\ pc["install"] \notin {"idle", "done"} /\ ~mem'["install"].start
  PROVE  DeployIInv'
<1>0. DeployTypeOK /\ ActorsIn /\ BundleSound
  BY DEF DeployIInv
<1>1. scene \in {"live", "first", "test"} /\ "install" \in Actors
  BY <1>0 DEF Crew, DeployTypeOK, Actors, Tools
<1>2. ActorsIn' /\ pc'["install"] = l /\ \A u \in Actors \ {"install"} : pc'[u] = pc[u]
  BY <1>0, <1>1, Moves
<1>3. \A u \in {"backup", "update"} : pc'[u] = pc[u] /\ mem'[u] = mem[u]
  <2>1. mem = [u \in Tools |-> mem[u]]
    BY <1>0 DEF DeployTypeOK
  <2>2. \A u \in {"backup", "update"} : mem'[u] = mem[u]
    BY <2>1 DEF Memorized, Tools
  <2> QED
    BY <1>2, <2>2 DEF Actors, Tools
<1>4. scene = "live" => WindowIs'
  <2>1. Stops \/ pc["install"] \in Holding("install")
    BY <1>0, SameStops
  <2>2. pc["install"] \in Holding("install") => pc["backup"] \notin Holding("backup")
    BY <1>0, Alone DEF Actors, Tools
  <2>3. scene = "live" => WindowIs
    BY DEF DeployIInv
  <2> QED
    BY <1>3, <2>1, <2>2, <2>3, CalmWindow
<1>5. scene = "test" => StandIs'
  <2>1. scene = "test" => StandIs
    BY DEF DeployIInv
  <2>2. pc'["run"] = pc["run"]
    BY <1>2 DEF Actors
  <2> QED
    BY <1>2, <1>3, <2>1, <2>2, CalmStand
<1>6. BundleSound'
  BY <1>0 DEF BundleSound
<1> QED
  BY <1>1, <1>2, <1>4, <1>5, <1>6 DEF DeployIInv

\* What a step of the installer starts from.
LEMMA Installing ==
  ASSUME DeployIInv, pc["install"] # "idle"
  PROVE  /\ DeployTypeOK /\ ActorsIn /\ HostIs /\ InstallIs
         /\ "install" \in Crew /\ scene \in {"live", "first", "test"}
         /\ pc["install"] \in Holding("install") => lock = "install"
         /\ scene = "test" => ~timer /\ ~mem["install"].start /\ pc["install"] \notin {"start", "enable", "quiesce"}
<1>1. DeployTypeOK /\ ActorsIn
  BY DEF DeployIInv
<1>2. "install" \in Crew /\ scene \in {"live", "first", "test"}
  BY <1>1, AtWork
<1>3. "install" \in Actors
  BY DEF Actors, Tools
<1>4. pc["install"] \in Holding("install") => lock = "install"
  BY <1>1, <1>3 DEF ActorsIn
<1>5. scene = "test" => StandIs
  BY DEF DeployIInv
<1> QED
  BY <1>1, <1>2, <1>4, <1>5 DEF DeployIInv, StandIs

\* Preflight of the installer: it reads what is active.
LEMMA PreflightStep == ASSUME DeployIInv, InstallPreflight PROVE DeployIInv'
<1>0. DeployTypeOK /\ Offered("install") /\ pc["install"] = "idle"
  BY DEF DeployIInv, InstallPreflight, Start, At
<1>1. "install" \in Crew /\ scene \in {"live", "first"}
  BY <1>0, OfferedCrew DEF Offered, DeployTypeOK
<1>2. HostIs /\ InstallIs
  BY <1>1 DEF DeployIInv
<1>3. PICK l \in {"copy", "failed"} : Goto("install", l)
  BY DEF InstallPreflight, Start
<1>4. UNCHANGED <<scene, bundles, netbox, faults, releases, current, config, files, db, svc, timer, lock, mem>>
  BY DEF InstallPreflight, Host, disk
<1>5. DeployTypeOK'
  BY <1>0, <1>4 DEF DeployTypeOK
<1>6. HostIs'
  BY <1>2, <1>4 DEF HostIs, Granted
<1>7. pc'["install"] = l => InstallIs'
  BY <1>0, <1>2, <1>3, <1>4 DEF InstallIs, Snapped, Holding
<1>8. l \in Places("install") /\ l \notin Holding("install")
  BY <1>3 DEF Places, Holding, Ended
<1>9. Memorized("install")
  BY <1>0, <1>4, SameMemory DEF Tools
<1> QED
  BY <1>1, <1>3, <1>4, <1>5, <1>6, <1>7, <1>8, <1>9, InstallerStep

\* A new release is copied.
LEMMA ReleaseStep == ASSUME DeployIInv, InstallRelease PROVE DeployIInv'
<1>0. pc["install"] = "copy"
  BY DEF InstallRelease, At
<1>1. /\ DeployTypeOK /\ HostIs /\ InstallIs /\ "install" \in Crew
      /\ scene = "test" => ~timer /\ ~mem["install"].start
  BY <1>0, Installing
<1>2. UNCHANGED <<scene, bundles, netbox, faults, current, config, files, db, svc, timer, lock, mem>>
  BY DEF InstallRelease, Host
<1>3. PICK l \in {"copying", "stage", "failed"} :
         /\ Goto("install", l)
         /\ releases' \in [Releases -> {"absent", "partial", "whole"}]
         /\ \A r \in Releases : releases[r] = "whole" => releases'[r] = "whole"
         /\ l = "stage" => releases'[New] = "whole"
  <2>1. CASE releases[New] = "absent" /\ Goto("install", "copying") /\ releases' = [releases EXCEPT ![New] = "partial"]
    BY <1>1, <2>1 DEF DeployTypeOK, Releases
  <2>2. CASE releases[New] = "whole" /\ Goto("install", "stage") /\ UNCHANGED releases
    BY <1>1, <2>2 DEF DeployTypeOK, Releases
  <2>3. CASE releases[New] = "partial" /\ Goto("install", "failed") /\ UNCHANGED releases
    BY <1>1, <2>3 DEF DeployTypeOK, Releases
  <2> QED
    BY <2>1, <2>2, <2>3 DEF InstallRelease
<1>4. DeployTypeOK'
  BY <1>1, <1>2, <1>3 DEF DeployTypeOK
<1>5. HostIs'
  <2>1. current # None => releases'[current] = "whole"
    BY <1>1, <1>3 DEF HostIs, DeployTypeOK, Links
  <2> QED
    BY <1>1, <1>2, <2>1 DEF HostIs, Granted
<1>6. pc'["install"] = l => InstallIs'
  BY <1>0, <1>1, <1>2, <1>3 DEF InstallIs, Snapped, Holding
<1>7. l \in Places("install") /\ l \notin Holding("install")
  BY <1>3 DEF Places, Holding, Ended
<1>8. Memorized("install")
  BY <1>1, <1>2, SameMemory DEF Tools
<1> QED
  BY <1>0, <1>1, <1>2, <1>3, <1>4, <1>5, <1>6, <1>7, <1>8, InstallerStep

\* A release that is already there is compared.
LEMMA CopiedStep == ASSUME DeployIInv, Copied PROVE DeployIInv'
<1>0. pc["install"] = "copying" /\ Goto("install", "stage")
  BY DEF Copied, Step, At
<1>1. /\ DeployTypeOK /\ HostIs /\ InstallIs /\ "install" \in Crew
      /\ scene = "test" => ~timer /\ ~mem["install"].start
  BY <1>0, Installing
<1>2. UNCHANGED <<scene, bundles, netbox, faults, current, config, files, db, svc, timer, lock, mem>>
  BY DEF Copied, Host
<1>3. /\ releases' \in [Releases -> {"absent", "partial", "whole"}]
      /\ \A r \in Releases : releases[r] = "whole" => releases'[r] = "whole"
      /\ releases'[New] = "whole"
  BY <1>1 DEF Copied, DeployTypeOK, Releases
<1>4. DeployTypeOK'
  BY <1>1, <1>2, <1>3 DEF DeployTypeOK
<1>5. HostIs'
  <2>1. current # None => releases'[current] = "whole"
    BY <1>1, <1>3 DEF HostIs, DeployTypeOK, Links
  <2> QED
    BY <1>1, <1>2, <2>1 DEF HostIs, Granted
<1>6. pc'["install"] = "stage" => InstallIs'
  BY <1>0, <1>1, <1>2, <1>3 DEF InstallIs, Snapped, Holding
<1>7. "stage" \in Places("install") /\ "stage" \notin Holding("install")
  BY DEF Places, Holding
<1>8. Memorized("install")
  BY <1>1, <1>2, SameMemory DEF Tools
<1> QED
  BY <1>0, <1>1, <1>2, <1>4, <1>5, <1>6, <1>7, <1>8, InstallerStep

\* The layout is prepared, and the passwords that are missing are written.
LEMMA LayoutStep == ASSUME DeployIInv, PrepareLayout PROVE DeployIInv'
<1>0. PICK l \in {"lock", "timer"} : pc["install"] = "stage" /\ Goto("install", l)
  BY DEF PrepareLayout, Step, At
<1>1. /\ DeployTypeOK /\ HostIs /\ InstallIs /\ "install" \in Crew
      /\ scene = "test" => ~timer /\ ~mem["install"].start
  BY <1>0, Installing
<1>2. UNCHANGED <<scene, bundles, netbox, faults, releases, current, config, db, svc, timer, lock>>
  BY DEF PrepareLayout, Host
<1>3. files' \in Stores /\ files'.pw = "t" /\ files'.env = Groups /\ files'.src = files.src
  BY <1>1 DEF PrepareLayout, DeployTypeOK, Stores, ensure_secret, HostIs, Passwords
<1>4. generate_configuration(config.dsn, files'.pw) = "t"
  BY <1>1, <1>3 DEF generate_configuration, HostIs
<1>5. PICK m : m = [mem["install"] EXCEPT !.stage = "t", !.prev = current, !.snap = config]
  OBVIOUS
<1>6. m \in Memory(Passwords) /\ m.stage = "t" /\ m.prev = current /\ m.snap = config /\ m.start = mem["install"].start
  BY <1>1, <1>5 DEF DeployTypeOK, Memory, Passwords
<1>7. Keep("install", m)
  BY <1>4, <1>5 DEF PrepareLayout
<1>8. mem'["install"] = m /\ Memorized("install") /\ \A u \in Tools \ {"install"} : mem'[u] = mem[u]
  BY <1>1, <1>7, OtherMemory DEF Tools
<1>9. DeployTypeOK'
  <2>1. mem' = [u \in Tools |-> mem'[u]]
    BY <1>1, <1>7 DEF Keep, DeployTypeOK
  <2> QED
    BY <1>1, <1>2, <1>3, <1>6, <1>8, <2>1 DEF DeployTypeOK, Tools
<1>10. HostIs'
  BY <1>1, <1>2, <1>3 DEF HostIs, Granted
<1>11. SnapIs(m)'
  BY <1>0, <1>1, <1>2, <1>3, <1>6 DEF SnapIs, HostIs, InstallIs, DeployTypeOK
<1>13. pc'["install"] = l => InstallIs'
  BY <1>0, <1>1, <1>2, <1>6, <1>8, <1>11 DEF InstallIs, Snapped, Holding
<1>14. l \in Places("install") /\ l \notin Holding("install")
  BY <1>0 DEF Places, Holding, Ended
<1> QED
  BY <1>0, <1>1, <1>2, <1>6, <1>8, <1>9, <1>10, <1>13, <1>14, InstallerStep

\* The timer is stopped.
LEMMA InstallTimerStep == ASSUME DeployIInv, stop_timer("install", "timer", "lock") PROVE DeployIInv'
<1>0. pc["install"] = "timer" /\ Goto("install", "lock") /\ timer' = FALSE
  BY DEF stop_timer, Step, At
<1>1. /\ DeployTypeOK /\ HostIs /\ InstallIs /\ "install" \in Crew
      /\ scene = "test" => ~timer /\ ~mem["install"].start
  BY <1>0, Installing
<1>2. UNCHANGED <<scene, bundles, netbox, faults, releases, current, config, files, db, svc, lock>>
  BY DEF stop_timer, Host, disk
<1>3. PICK m : m = [mem["install"] EXCEPT !.was = timer]
  OBVIOUS
<1>4. m \in Memory(Passwords) /\ m.stage = mem["install"].stage /\ m.prev = mem["install"].prev /\ m.snap = mem["install"].snap
      /\ m.start = mem["install"].start
  BY <1>1, <1>3 DEF DeployTypeOK, Memory
<1>5. Keep("install", m)
  BY <1>3 DEF stop_timer
<1>6. mem'["install"] = m /\ Memorized("install") /\ \A u \in Tools \ {"install"} : mem'[u] = mem[u]
  BY <1>1, <1>5, OtherMemory DEF Tools
<1>7. DeployTypeOK'
  <2>1. mem' = [u \in Tools |-> mem'[u]]
    BY <1>1, <1>5 DEF Keep, DeployTypeOK
  <2> QED
    BY <1>0, <1>1, <1>2, <1>4, <1>6, <2>1 DEF DeployTypeOK, Tools
<1>8. HostIs'
  BY <1>1, <1>2 DEF HostIs, Granted
<1>9. SnapIs(m)'
  BY <1>0, <1>1, <1>2, <1>4 DEF SnapIs, InstallIs, Snapped
<1>10. pc'["install"] = "lock" => InstallIs'
  BY <1>0, <1>1, <1>2, <1>4, <1>6, <1>9 DEF InstallIs, Snapped, Holding, Off
<1>11. "lock" \in Places("install") /\ "lock" \notin Holding("install")
  BY DEF Places, Holding
<1>12. scene = "test" => timer' = timer
  BY <1>0, <1>1 DEF DeployTypeOK
<1> QED
  BY <1>0, <1>1, <1>2, <1>4, <1>6, <1>7, <1>8, <1>10, <1>11, <1>12, InstallerStep

\* The lock is taken.
LEMMA InstallLockStep == ASSUME DeployIInv, shared_apply_lock("install", "lock", "roles") PROVE DeployIInv'
<1>0. pc["install"] = "lock" /\ Goto("install", "roles") /\ lock = None /\ lock' = "install"
  BY DEF shared_apply_lock, Step, At
<1>1. /\ DeployTypeOK /\ HostIs /\ InstallIs /\ "install" \in Crew
      /\ scene = "test" => ~timer /\ ~mem["install"].start
  BY <1>0, Installing
<1>2. UNCHANGED <<scene, bundles, netbox, faults, releases, current, config, files, db, svc, timer, mem>>
  BY DEF shared_apply_lock, Host, disk
<1>3. DeployTypeOK'
  BY <1>0, <1>1, <1>2 DEF DeployTypeOK, Actors, Tools
<1>4. HostIs'
  BY <1>1, <1>2 DEF HostIs, Granted
<1>5. pc'["install"] = "roles" => InstallIs'
  BY <1>0, <1>1, <1>2 DEF InstallIs, Snapped, Holding, SnapIs, Off
<1>6. "roles" \in Places("install")
  BY DEF Places
<1>7. Memorized("install")
  BY <1>1, <1>2, SameMemory DEF Tools
<1> QED
  BY <1>0, <1>1, <1>2, <1>3, <1>4, <1>5, <1>6, <1>7, InstallerStep

\* The roles get their passwords.
LEMMA RolesStep == ASSUME DeployIInv, DbRoles PROVE DeployIInv'
<1>0. pc["install"] = "roles" /\ Goto("install", "migrate")
  BY DEF DbRoles, Step, At
<1>1. /\ DeployTypeOK /\ HostIs /\ InstallIs /\ "install" \in Crew
      /\ scene = "test" => ~timer /\ ~mem["install"].start /\ pc["install"] \notin {"start", "enable", "quiesce"}
  BY <1>0, Installing
<1>2. UNCHANGED <<scene, bundles, netbox, faults, releases, current, config, files, svc, timer, lock, mem>>
  BY DEF DbRoles, Host, disk
<1>3. /\ db' \in Dbs /\ db'.role = "t" /\ db'.rev = db.rev /\ db'.granted = db.granted
      /\ db'.plan = db.plan /\ db'.session = db.session /\ db'.dirty = db.dirty
  <2>1. files.pw = "t"
    BY <1>0, <1>1 DEF InstallIs, SnapIs, Snapped
  <2>2. db' = [db EXCEPT !.role = "t"]
    BY <2>1 DEF DbRoles, bootstrap_roles
  <2> QED
    BY <1>1, <2>2 DEF DeployTypeOK, Dbs, Passwords
<1>4. DeployTypeOK'
  BY <1>0, <1>1, <1>2, <1>3 DEF DeployTypeOK
<1>5. HostIs'
  BY <1>1, <1>2, <1>3 DEF HostIs, Granted
<1>6. pc'["install"] = "migrate" => InstallIs'
  BY <1>0, <1>1, <1>2, <1>3 DEF InstallIs, Snapped, Holding, SnapIs, Off, Granted
<1>7. "migrate" \in Places("install") /\ "roles" \in Holding("install")
  BY DEF Places, Holding, Ended
<1>8. Memorized("install")
  BY <1>1, <1>2, SameMemory DEF Tools
<1> QED
  BY <1>0, <1>1, <1>2, <1>4, <1>5, <1>6, <1>7, <1>8, InstallerStep

\* The schema moves to the head.
LEMMA MigrateStep == ASSUME DeployIInv, MigrateStack PROVE DeployIInv'
<1>0. pc["install"] = "migrate" /\ Goto("install", "grants")
  BY DEF MigrateStack, Step, At
<1>1. /\ DeployTypeOK /\ HostIs /\ InstallIs /\ "install" \in Crew
      /\ scene = "test" => ~timer /\ ~mem["install"].start /\ pc["install"] \notin {"start", "enable", "quiesce"}
  BY <1>0, Installing
<1>2. UNCHANGED <<scene, bundles, netbox, faults, releases, current, config, files, svc, timer, lock, mem>>
  BY DEF MigrateStack, Host, disk
<1>3. /\ db' \in Dbs /\ db'.rev = HeadRev /\ db'.role = db.role /\ db'.granted = db.granted
      /\ db'.plan = db.plan /\ db'.session = db.session /\ db'.dirty = db.dirty
  <2>1. db' = [db EXCEPT !.rev = HeadRev] /\ HeadRev \in Nat
    BY DeploymentAssumption DEF MigrateStack, migrate, Need
  <2> QED
    BY <1>1, <2>1 DEF DeployTypeOK, Dbs
<1>4. DeployTypeOK'
  BY <1>0, <1>1, <1>2, <1>3 DEF DeployTypeOK
<1>5. HostIs'
  BY <1>1, <1>2, <1>3, DeploymentAssumption, SMTT(30) DEF HostIs, Granted
<1>6. pc'["install"] = "grants" => InstallIs'
  BY <1>0, <1>1, <1>2, <1>3 DEF InstallIs, Snapped, Holding, SnapIs, Off, Granted
<1>7. "grants" \in Places("install") /\ "migrate" \in Holding("install")
  BY DEF Places, Holding, Ended
<1>8. Memorized("install")
  BY <1>1, <1>2, SameMemory DEF Tools
<1> QED
  BY <1>0, <1>1, <1>2, <1>4, <1>5, <1>6, <1>7, <1>8, InstallerStep

\* The tables of the head are granted.
LEMMA GrantStep == ASSUME DeployIInv, GrantStack PROVE DeployIInv'
<1>0. pc["install"] = "grants" /\ Goto("install", "publish")
  BY DEF GrantStack, Step, At
<1>1. /\ DeployTypeOK /\ HostIs /\ InstallIs /\ "install" \in Crew
      /\ scene = "test" => ~timer /\ ~mem["install"].start /\ pc["install"] \notin {"start", "enable", "quiesce"}
  BY <1>0, Installing
<1>2. UNCHANGED <<scene, bundles, netbox, faults, releases, current, config, files, svc, timer, lock, mem>>
  BY DEF GrantStack, Host, disk
<1>3. /\ db' \in Dbs /\ db'.rev = HeadRev /\ db'.granted = HeadRev /\ db'.role = db.role
      /\ db'.plan = db.plan /\ db'.session = db.session /\ db'.dirty = db.dirty
  <2>1. db.rev = HeadRev
    BY <1>0, <1>1 DEF InstallIs
  <2>2. db' = [db EXCEPT !.granted = HeadRev] /\ HeadRev \in Nat
    BY <2>1, DeploymentAssumption DEF GrantStack, apply_grants
  <2> QED
    BY <1>1, <2>1, <2>2 DEF DeployTypeOK, Dbs
<1>4. DeployTypeOK'
  BY <1>0, <1>1, <1>2, <1>3 DEF DeployTypeOK
<1>5. HostIs'
  BY <1>1, <1>2, <1>3, DeploymentAssumption, SMTT(30) DEF HostIs, Granted
<1>6. pc'["install"] = "publish" => InstallIs'
  BY <1>0, <1>1, <1>2, <1>3 DEF InstallIs, Snapped, Holding, SnapIs, Off, Granted
<1>7. "publish" \in Places("install") /\ "grants" \in Holding("install")
  BY DEF Places, Holding, Ended
<1>8. Memorized("install")
  BY <1>1, <1>2, SameMemory DEF Tools
<1> QED
  BY <1>0, <1>1, <1>2, <1>4, <1>5, <1>6, <1>7, <1>8, InstallerStep

\* The configuration is published, and the one before remembered.
LEMMA PublishStep == ASSUME DeployIInv, PublishConfiguration PROVE DeployIInv'
<1>0. pc["install"] = "publish"
  BY DEF PublishConfiguration, At
<1>1. /\ DeployTypeOK /\ HostIs /\ InstallIs /\ "install" \in Crew
      /\ scene = "test" => ~timer /\ ~mem["install"].start
  BY <1>0, Installing
<1>2. UNCHANGED <<scene, bundles, netbox, faults, releases, current, files, db, svc, timer, lock, mem>>
  BY DEF PublishConfiguration, Host
<1>a. mem["install"].stage = "t" /\ SnapIs(mem["install"]) /\ db.role = "t"
  BY <1>0, <1>1 DEF InstallIs, Snapped, Holding
<1>3. PICK l \in {"publish", "activate"} :
         /\ Goto("install", l) /\ config' \in Configs /\ config'.dsn = "t"
         /\ l = "activate" => \A f \in Files : config'.by[f] = New
  <2>1. PICK f \in Files :
           /\ config' = [by |-> [config.by EXCEPT ![f] = New], dsn |-> mem["install"].stage]
           /\ Goto("install", IF \A g \in Files \ {f} : config.by[g] = New THEN "activate" ELSE "publish")
    BY DEF PublishConfiguration
  <2>2. config.by \in [Files -> Links] /\ New \in Links
    BY <1>1 DEF DeployTypeOK, Configs, Links, Releases
  <2>3. config' \in Configs /\ config'.dsn = "t"
    BY <1>a, <2>1, <2>2 DEF Configs, Passwords
  <2>4. (\A g \in Files \ {f} : config.by[g] = New) => \A g \in Files : config'.by[g] = New
    BY <2>1, <2>2
  <2> QED
    BY <2>1, <2>3, <2>4
<1>4. DeployTypeOK'
  BY <1>1, <1>2, <1>3 DEF DeployTypeOK
<1>5. HostIs'
  BY <1>1, <1>2, <1>3, <1>a DEF HostIs, Granted, SnapIs
<1>6. pc'["install"] = l => InstallIs'
  BY <1>0, <1>1, <1>2, <1>3 DEF InstallIs, Snapped, Holding, SnapIs, Off, Granted
<1>7. l \in Places("install") /\ "publish" \in Holding("install")
  BY <1>3 DEF Places, Holding, Ended
<1>8. Memorized("install")
  BY <1>1, <1>2, SameMemory DEF Tools
<1> QED
  BY <1>0, <1>1, <1>2, <1>3, <1>4, <1>5, <1>6, <1>7, <1>8, InstallerStep

\* The configuration is already what would be published.
LEMMA RepublishStep == ASSUME DeployIInv, Republished PROVE DeployIInv'
<1>0. pc["install"] = "publish" /\ Goto("install", "activate")
  BY DEF Republished, Step, At
<1>1. /\ DeployTypeOK /\ HostIs /\ InstallIs /\ "install" \in Crew
      /\ scene = "test" => ~timer /\ ~mem["install"].start /\ pc["install"] \notin {"start", "enable", "quiesce"}
  BY <1>0, Installing
<1>2. UNCHANGED <<scene, bundles, netbox, faults, releases, current, config, files, svc, timer, lock, mem, db>>
  BY DEF Republished, Host, disk
<1>3. \A f \in Files : config.by[f] = New
  BY DEF Republished
<1>4. DeployTypeOK'
  BY <1>0, <1>1, <1>2, <1>3 DEF DeployTypeOK
<1>5. HostIs'
  BY <1>1, <1>2 DEF HostIs, Granted
<1>6. pc'["install"] = "activate" => InstallIs'
  BY <1>0, <1>1, <1>2, <1>3 DEF InstallIs, Snapped, Holding, SnapIs, Off, Granted
<1>7. "activate" \in Places("install") /\ "publish" \in Holding("install")
  BY DEF Places, Holding, Ended
<1>8. Memorized("install")
  BY <1>1, <1>2, SameMemory DEF Tools
<1> QED
  BY <1>0, <1>1, <1>2, <1>4, <1>5, <1>6, <1>7, <1>8, InstallerStep

\* The link moves to the new release.
LEMMA ActivateStep == ASSUME DeployIInv, ActivateRelease PROVE DeployIInv'
<1>0. pc["install"] = "activate"
  BY DEF ActivateRelease, Step, At
<1>1. /\ DeployTypeOK /\ HostIs /\ InstallIs /\ "install" \in Crew
      /\ scene = "test" => ~timer /\ ~mem["install"].start
  BY <1>0, Installing
<1>2. UNCHANGED <<scene, bundles, netbox, faults, releases, config, files, db, svc, timer, lock>> /\ current' = New
  BY DEF ActivateRelease, Host
<1>3. PICK l \in {"start", "release"} : Goto("install", l) /\ (l = "start" => mem["install"].start)
  BY DEF ActivateRelease, Step
<1>4. PICK m : m = [mem["install"] EXCEPT !.switched = TRUE]
  OBVIOUS
<1>5. m \in Memory(Passwords) /\ m.prev = mem["install"].prev /\ m.snap = mem["install"].snap
      /\ m.start = mem["install"].start /\ m.switched = TRUE
  BY <1>1, <1>4 DEF DeployTypeOK, Memory
<1>6. Keep("install", m)
  BY <1>4 DEF ActivateRelease
<1>7. mem'["install"] = m /\ Memorized("install") /\ \A u \in Tools \ {"install"} : mem'[u] = mem[u]
  BY <1>1, <1>6, OtherMemory DEF Tools
<1>8. DeployTypeOK'
  <2>1. mem' = [u \in Tools |-> mem'[u]]
    BY <1>1, <1>6 DEF Keep, DeployTypeOK
  <2>2. New \in Links
    BY DEF Links, Releases
  <2> QED
    BY <1>1, <1>2, <1>5, <1>7, <2>1, <2>2 DEF DeployTypeOK, Tools
<1>a. releases[New] = "whole" /\ Granted
  BY <1>0, <1>1 DEF InstallIs, Holding
<1>9. HostIs'
  BY <1>1, <1>2, <1>a, DeploymentAssumption DEF HostIs, Granted
<1>10. SnapIs(m)'
  BY <1>0, <1>1, <1>2, <1>5 DEF SnapIs, InstallIs, Snapped
<1>11. pc'["install"] = l => InstallIs'
  BY <1>0, <1>1, <1>2, <1>3, <1>5, <1>7, <1>10 DEF InstallIs, Snapped, Holding, Off, Granted
<1>12. l \in Places("install") /\ "activate" \in Holding("install")
  BY <1>3 DEF Places, Holding
<1> QED
  BY <1>0, <1>1, <1>2, <1>3, <1>5, <1>7, <1>8, <1>9, <1>11, <1>12, InstallerStep

\* The runtime starts with the release in use.
LEMMA StartStep == ASSUME DeployIInv, StartRuntime PROVE DeployIInv'
<1>0. pc["install"] = "start" /\ Goto("install", "enable")
  BY DEF StartRuntime, Step, At
<1>1. /\ DeployTypeOK /\ HostIs /\ InstallIs /\ "install" \in Crew
      /\ scene = "test" => ~timer /\ ~mem["install"].start /\ pc["install"] \notin {"start", "enable", "quiesce"}
  BY <1>0, Installing
<1>2. UNCHANGED <<scene, bundles, netbox, faults, releases, current, config, files, db, timer, lock, mem>>
  BY DEF StartRuntime, Host, disk
<1>3. svc' = [s \in Services |-> New] /\ svc' \in [Services -> Links]
  BY DEF StartRuntime, Links, Releases
<1>4. DeployTypeOK'
  BY <1>0, <1>1, <1>2, <1>3 DEF DeployTypeOK
<1>5. HostIs'
  <2>1. Granted /\ config.dsn = "t"
    BY <1>0, <1>1 DEF InstallIs, Holding, HostIs, Files
  <2> QED
    BY <1>1, <1>2, <1>3, <2>1, DeploymentAssumption DEF HostIs, Granted
<1>6. pc'["install"] = "enable" => InstallIs'
  BY <1>0, <1>1, <1>2, <1>3 DEF InstallIs, Snapped, Holding, SnapIs, Off, Granted
<1>7. "enable" \in Places("install") /\ "start" \in Holding("install")
  BY DEF Places, Holding, Ended
<1>8. Memorized("install")
  BY <1>1, <1>2, SameMemory DEF Tools
<1> QED
  BY <1>0, <1>1, <1>2, <1>4, <1>5, <1>6, <1>7, <1>8, InstallerStep

\* The runtime is stopped before the roll back.
LEMMA QuiesceStep == ASSUME DeployIInv, QuiesceRuntime PROVE DeployIInv'
<1>0. pc["install"] = "quiesce" /\ Goto("install", "rollback")
  BY DEF QuiesceRuntime, Step, At
<1>1. /\ DeployTypeOK /\ HostIs /\ InstallIs /\ "install" \in Crew
      /\ scene = "test" => ~timer /\ ~mem["install"].start /\ pc["install"] \notin {"start", "enable", "quiesce"}
  BY <1>0, Installing
<1>2. UNCHANGED <<scene, bundles, netbox, faults, releases, current, config, files, db, timer, lock, mem>>
  BY DEF QuiesceRuntime, Host, disk
<1>3. Stops
  <2>1. PICK S \in SUBSET Services : svc' = [s \in Services |-> IF s \in S THEN None ELSE svc[s]]
    BY DEF QuiesceRuntime, Stopped
  <2> QED
    BY <1>1, <2>1 DEF Stops, DeployTypeOK, Links
<1>4. DeployTypeOK'
  BY <1>0, <1>1, <1>2, <1>3 DEF DeployTypeOK, Stops
<1>5. HostIs'
  BY <1>1, <1>2, <1>3, SameDb, CalmHost DEF Calm
<1>6. pc'["install"] = "rollback" => InstallIs'
  BY <1>0, <1>1, <1>2 DEF InstallIs, Snapped, Holding, SnapIs, Granted
<1>7. "rollback" \in Places("install") /\ "quiesce" \in Holding("install")
  BY DEF Places, Holding, Ended
<1>8. Memorized("install")
  BY <1>1, <1>2, SameMemory DEF Tools
<1> QED
  BY <1>0, <1>1, <1>2, <1>4, <1>5, <1>6, <1>7, <1>8, InstallerStep

\* The timer runs again, and the installer is done.
LEMMA EnableStep == ASSUME DeployIInv, EnableTimer PROVE DeployIInv'
<1>0. pc["install"] \in {"enable", "release"} /\ Goto("install", "done") /\ Release("install")
  BY DEF EnableTimer, At
<1>1. /\ DeployTypeOK /\ HostIs /\ InstallIs /\ "install" \in Crew
      /\ scene = "test" => ~timer /\ ~mem["install"].start /\ pc["install"] \notin {"start", "enable", "quiesce"}
  BY <1>0, Installing
<1>2. UNCHANGED <<scene, bundles, netbox, faults, releases, current, config, files, db, svc, mem>>
  BY DEF EnableTimer, Host, disk
<1>3. timer' \in BOOLEAN /\ (scene = "test" => timer' = timer)
  BY <1>1 DEF EnableTimer, At, DeployTypeOK
<1>4. DeployTypeOK'
  BY <1>0, <1>1, <1>2, <1>3 DEF DeployTypeOK, Release
<1>5. HostIs'
  BY <1>1, <1>2 DEF HostIs, Granted
<1>6. pc'["install"] = "done" => InstallIs'
  BY <1>0, <1>1, <1>2 DEF InstallIs, Snapped, Holding, Granted
<1>7. "done" \in Places("install") /\ "done" \notin Holding("install")
  BY DEF Places, Holding, Ended
<1>8. Memorized("install")
  BY <1>1, <1>2, SameMemory DEF Tools
<1> QED
  BY <1>0, <1>1, <1>2, <1>3, <1>4, <1>5, <1>6, <1>7, <1>8, InstallerStep

\* An activation is taken back: the link, the configuration and, on a host that had one, the runtime.
LEMMA RollbackStep == ASSUME DeployIInv, RollbackActivation PROVE DeployIInv'
<1>0. pc["install"] = "rollback" /\ Goto("install", "failed") /\ Release("install")
  BY DEF RollbackActivation, Step, At
<1>1. /\ DeployTypeOK /\ HostIs /\ InstallIs /\ "install" \in Crew
      /\ scene = "test" => ~timer /\ ~mem["install"].start
  BY <1>0, Installing
<1>2. UNCHANGED <<scene, bundles, netbox, faults, releases, files, db, svc, timer, mem>>
  BY DEF RollbackActivation, Host
<1>3. PICK m : m = mem["install"]
  OBVIOUS
<1>4. /\ SnapIs(m) /\ db.role = "t" /\ Granted /\ releases[New] = "whole"
      /\ m.prev \in Links
  BY <1>0, <1>1, <1>3 DEF InstallIs, Snapped, Holding, DeployTypeOK, Memory
<1>5. current' = m.prev /\ config' = m.snap
  BY <1>0, <1>1, <1>3 DEF RollbackActivation, InstallIs
<1>6. DeployTypeOK'
  BY <1>0, <1>1, <1>2, <1>4, <1>5 DEF DeployTypeOK, Release, SnapIs
<1>7. HostIs'
  BY <1>1, <1>2, <1>4, <1>5 DEF HostIs, Granted, SnapIs
<1>8. pc'["install"] = "failed" => InstallIs'
  BY <1>0, <1>2, <1>4, <1>5 DEF InstallIs, Snapped, Holding, SnapIs
<1>9. "failed" \in Places("install") /\ "failed" \notin Holding("install")
  BY DEF Places, Holding, Ended
<1>10. Memorized("install")
  BY <1>1, <1>2, SameMemory DEF Tools
<1> QED
  BY <1>0, <1>1, <1>2, <1>6, <1>7, <1>8, <1>9, <1>10, InstallerStep

\* The handler of activate_prepared takes over.
LEMMA HandlerStep ==
  ASSUME DeployIInv, RaiseActivation, UNCHANGED <<scene, bundles, netbox, releases, config, files, db, timer, lock>>,
         faults' \in [raised : Nat, killed : Nat], faults'.killed = faults.killed
  PROVE  DeployIInv'
<1>1. CASE Step("install", "start", "quiesce")
  <2>0. pc["install"] = "start" /\ Goto("install", "quiesce") /\ UNCHANGED <<current, mem>>
    BY <1>1 DEF RaiseActivation, Step, At
  <2>1. /\ DeployTypeOK /\ HostIs /\ InstallIs /\ "install" \in Crew /\ scene # "test"
    BY <2>0, Installing
  <2>2. PICK S \in SUBSET Services : svc' = [s \in Services |-> IF s \in S THEN New ELSE svc[s]]
    BY <2>0 DEF RaiseActivation
  <2>3. svc' \in [Services -> Links] /\ \A s \in Services : svc'[s] \in {New, svc[s]}
    BY <2>1, <2>2 DEF DeployTypeOK, Links, Releases
  <2>4. Granted /\ config.dsn = "t"
    BY <2>0, <2>1 DEF InstallIs, Holding, HostIs, Files
  <2>5. DeployTypeOK'
    BY <2>0, <2>1, <2>3 DEF DeployTypeOK
  <2>6. HostIs'
    BY <2>0, <2>1, <2>3, <2>4, DeploymentAssumption DEF HostIs, Granted
  <2>7. pc'["install"] = "quiesce" => InstallIs'
    BY <2>0, <2>1 DEF InstallIs, Snapped, Holding, SnapIs, Granted
  <2>8. "quiesce" \in Places("install") /\ "start" \in Holding("install")
    BY DEF Places, Holding
  <2>9. Memorized("install")
    BY <2>0, <2>1, SameMemory DEF Tools
  <2> QED
    BY <2>0, <2>1, <2>5, <2>6, <2>7, <2>8, <2>9, InstallerStep
<1>2. CASE pc["install"] \in {"publish", "activate"} /\ Goto("install", "rollback")
  <2>0. /\ DeployTypeOK /\ HostIs /\ InstallIs /\ "install" \in Crew
        /\ scene = "test" => ~timer /\ ~mem["install"].start
    BY <1>2, Installing
  <2>1. PICK done \in {TRUE, FALSE} :
           /\ At("install", "publish") => ~done
           /\ current' = IF done THEN New ELSE current
           /\ Keep("install", [mem["install"] EXCEPT !.switched = done])
    BY <1>2 DEF RaiseActivation, Step, At
  <2>2. UNCHANGED svc
    BY <1>2 DEF RaiseActivation, Step, At
  <2>3. PICK m : m = [mem["install"] EXCEPT !.switched = done]
    OBVIOUS
  <2>4. /\ m \in Memory(Passwords) /\ m.prev = mem["install"].prev /\ m.snap = mem["install"].snap
        /\ m.start = mem["install"].start /\ m.switched = done
    BY <2>0, <2>3 DEF DeployTypeOK, Memory
  <2>5. mem'["install"] = m /\ Memorized("install") /\ \A u \in Tools \ {"install"} : mem'[u] = mem[u]
    BY <2>0, <2>1, <2>3, OtherMemory DEF Tools
  <2>6. current' \in {New, current} /\ (~done => current' = current)
    BY <2>1
  <2>7. DeployTypeOK'
    <3>1. mem' = [u \in Tools |-> mem'[u]]
      BY <2>0, <2>1 DEF Keep, DeployTypeOK
    <3>2. New \in Links
      BY DEF Links, Releases
    <3> QED
      BY <2>0, <2>2, <2>4, <2>5, <2>6, <3>1, <3>2 DEF DeployTypeOK, Tools
  <2>8. releases[New] = "whole" /\ Granted
    BY <1>2, <2>0 DEF InstallIs, Holding
  <2>9. HostIs'
    BY <2>0, <2>2, <2>6, <2>8, DeploymentAssumption DEF HostIs, Granted
  <2>10. SnapIs(m)'
    BY <1>2, <2>0, <2>4 DEF SnapIs, InstallIs, Snapped
  <2>11. m.switched \/ current' = m.prev
    BY <1>2, <2>0, <2>4, <2>6 DEF InstallIs
  <2>12. pc'["install"] = "rollback" => InstallIs'
    BY <1>2, <2>0, <2>2, <2>4, <2>5, <2>8, <2>10, <2>11 DEF InstallIs, Snapped, Holding, Off, Granted
  <2>13. "rollback" \in Places("install") /\ pc["install"] \in Holding("install")
    BY <1>2 DEF Places, Holding
  <2> QED
    BY <1>2, <2>0, <2>2, <2>4, <2>5, <2>7, <2>9, <2>12, <2>13, InstallerStep
<1> QED
  BY <1>1, <1>2 DEF RaiseActivation

\* An installer that stops at once.
LEMMA InstallerEnds ==
  ASSUME DeployIInv, pc["install"] \notin {"idle", "done"}, NEW l \in {"failed", "killed", "copy"}, Goto("install", l),
         UNCHANGED lock \/ Release("install"),
         UNCHANGED <<scene, bundles, netbox, releases, current, config, files, db, svc, timer>>,
         faults' \in [raised : Nat, killed : Nat],
         IF l = "killed" THEN faults'.killed # 0 ELSE faults'.killed = faults.killed,
         l \in {"failed", "copy"} => pc["install"] \notin {"publish", "activate", "rollback"},
         Memorized("install"), mem'["install"] \in Memory(Passwords),
         scene = "test" => ~mem'["install"].start
  PROVE  DeployIInv'
<1>1. DeployTypeOK /\ HostIs /\ InstallIs /\ "install" \in Crew
  BY Installing
<1>2. DeployTypeOK'
  <2>1. mem = [u \in Tools |-> mem[u]] /\ mem' = [mem EXCEPT !["install"] = mem'["install"]]
    BY <1>1 DEF DeployTypeOK, Memorized
  <2>2. mem' = [u \in Tools |-> mem'[u]] /\ \A u \in Tools \ {"install"} : mem'[u] = mem[u]
    BY <2>1
  <2>3. lock' \in {None} \cup Actors
    BY <1>1 DEF DeployTypeOK, Release
  <2> QED
    BY <1>1, <2>2, <2>3 DEF DeployTypeOK, Tools
<1>3. HostIs'
  BY <1>1 DEF HostIs, Granted
<1>4. pc'["install"] = l => InstallIs'
  <2>1. l = "killed" => InstallIs' \/ pc'["install"] # l
    BY <1>1 DEF InstallIs, Snapped, Holding
  <2>2. l # "killed" => InstallIs' \/ pc'["install"] # l
    BY <1>1 DEF InstallIs, Snapped, Holding
  <2> QED
    BY <2>1, <2>2
<1>5. l \in Places("install") /\ l \notin Holding("install") /\ l \notin {"idle", "start", "enable", "quiesce"}
  BY DEF Places, Holding, Ended
<1> QED
  BY <1>1, <1>2, <1>3, <1>4, <1>5, InstallerStep

\* A tool that starts remembers nothing.
LEMMA NoMemory == NoMem \in Memory({None}) /\ NoMem.stage = None /\ ~NoMem.was
BY DEF NoMem, Memory, Links

\* A tool that ended is run again.
LEMMA RerunStep == ASSUME DeployIInv, Rerun PROVE DeployIInv'
<1>1. /\ pc["install"] \in {"failed", "killed"} /\ scene # "test" /\ Goto("install", "copy")
      /\ UNCHANGED <<scene, bundles, netbox, faults, releases, current, config, files, db, svc, timer, lock>>
  BY DEF Rerun, Host, disk
<1>2. DeployTypeOK
  BY DEF DeployIInv
<1>3. PICK m : m = [NoMem EXCEPT !.again = TRUE]
  OBVIOUS
<1>4. m \in Memory(Passwords)
  BY <1>3 DEF NoMem, Memory, Passwords, Links
<1>5. mem'["install"] = m /\ Memorized("install")
  BY <1>2, <1>3, OtherMemory DEF Rerun, Tools
<1> QED
  BY <1>1, <1>2, <1>4, <1>5, InstallerEnds DEF DeployTypeOK

\* ---- Steps of the backup. -------------------------------------------------------
\* Services stop or start with the release in use, on a host that has one.
Serves == /\ svc' \in [Services -> Links]
          /\ \A s \in Services : svc'[s] \in {None, svc[s], current}

\* Services that start with the release in use keep the host sound.
LEMMA ServesHost ==
  ASSUME HostIs, scene # "first", UNCHANGED <<scene, releases, current, config, files, db>>, Serves
  PROVE  HostIs'
<1>1. config.dsn = "t"
  BY DEF HostIs
<1>2. \A s \in Services : svc'[s] = New => Granted'
  BY DeploymentAssumption DEF HostIs, Granted, Serves, Releases
<1>3. current' = New => Granted'
  BY DEF HostIs, Granted
<1> QED
  BY <1>1, <1>2, <1>3 DEF HostIs

\* What the installer knows does not depend on the services.
LEMMA ServesInstall ==
  ASSUME InstallIs, scene # "first", UNCHANGED <<scene, releases, current, config, files, db>>,
         pc'["install"] = pc["install"], mem'["install"] = mem["install"], faults'.killed = 0 => faults.killed = 0
  PROVE  InstallIs'
<1>1. PICK m : m = mem["install"]
  OBVIOUS
<1>2. PICK p : p = pc["install"]
  OBVIOUS
<1>3. p \in Snapped => SnapIs(m)' /\ m.snap.dsn = "t"
  BY <1>1, <1>2 DEF InstallIs, SnapIs
<1> QED
  BY <1>1, <1>2, <1>3, SMTT(30) DEF InstallIs, Granted

\* To stop is a way to serve.
LEMMA StopsServe == ASSUME Stops PROVE Serves
BY DEF Stops, Serves

\* What is left to show of a step of the backup: its window and its bundles.
LEMMA BackupStep ==
  ASSUME DeployIInv, scene = "live", NEW l \in Places("backup"), Goto("backup", l),
         \/ UNCHANGED lock /\ (l \in Holding("backup") => pc["backup"] \in Holding("backup"))
         \/ lock = None /\ lock' = "backup"
         \/ Release("backup") /\ l \notin Holding("backup"),
         UNCHANGED <<scene, netbox, releases, current, config, files, db>>, timer' \in BOOLEAN, Serves,
         faults' \in [raised : Nat, killed : Nat], faults'.killed = 0 => faults.killed = 0,
         Memorized("backup"), mem'["backup"] \in Memory({None} \cup Stagings),
         BundleSound', pc'["backup"] = l => WindowIs'
  PROVE  DeployIInv'
<1>1. DeployTypeOK /\ ActorsIn /\ HostIs /\ InstallIs
  BY DEF DeployIInv
<1>2. "backup" \in Crew /\ "backup" \in Actors
  BY DEF Crew, Actors, Tools
<1>3. ActorsIn' /\ pc'["backup"] = l /\ \A u \in Actors \ {"backup"} : pc'[u] = pc[u]
  BY <1>1, <1>2, Moves
<1>4. mem' = [u \in Tools |-> mem'[u]] /\ \A u \in Tools \ {"backup"} : mem'[u] = mem[u]
  <2>1. mem = [u \in Tools |-> mem[u]] /\ mem' = [mem EXCEPT !["backup"] = mem'["backup"]]
    BY <1>1 DEF DeployTypeOK, Memorized
  <2> QED
    BY <2>1
<1>5. lock' \in {None} \cup Actors
  BY <1>1, <1>2 DEF DeployTypeOK, Release
<1>6. DeployTypeOK'
  BY <1>1, <1>4, <1>5 DEF DeployTypeOK, Tools, Serves
<1>7. HostIs'
  BY <1>1, ServesHost
<1>8. pc'["install"] = pc["install"] /\ mem'["install"] = mem["install"]
  BY <1>3, <1>4 DEF Actors, Tools
<1>9. InstallIs'
  BY <1>1, <1>8, ServesInstall
<1> QED
  BY <1>3, <1>6, <1>7, <1>9 DEF DeployIInv

\* What a step of the backup starts from.
LEMMA BackingUp ==
  ASSUME DeployIInv, pc["backup"] # "idle"
  PROVE  /\ DeployTypeOK /\ BundleSound /\ scene = "live" /\ WindowIs /\ mem["backup"].stage \in Stagings
         /\ pc["backup"] \in Holding("backup") => lock = "backup"
<1>1. DeployTypeOK /\ ActorsIn /\ BundleSound
  BY DEF DeployIInv
<1>2. scene = "live"
  BY <1>1, AtWork
<1>3. "backup" \in Actors
  BY DEF Actors, Tools
<1> QED
  BY <1>1, <1>2, <1>3 DEF DeployIInv, WindowIs, ActorsIn

\* The empty staging is one.
LEMMA NoBundleStaged == NoBundle \in Stagings
BY DEF NoBundle, Stagings

\* Preflight of the backup.
LEMMA BackupPreflightStep == ASSUME DeployIInv, BackupPreflight PROVE DeployIInv'
<1>0. DeployTypeOK /\ BundleSound /\ Offered("backup") /\ pc["backup"] = "idle"
  BY DEF DeployIInv, BackupPreflight, Start, At
<1>1. scene = "live"
  BY <1>0 DEF Offered, DeployTypeOK
<1>2. PICK l \in {"timer", "failed"} : Goto("backup", l)
  BY DEF BackupPreflight, Start
<1>3. UNCHANGED <<scene, bundles, netbox, faults, releases, current, config, files, db, svc, timer, lock>>
  BY DEF BackupPreflight, Host, disk
<1>4. PICK m : m = [NoMem EXCEPT !.stage = NoBundle]
  OBVIOUS
<1>5. m \in Memory({None} \cup Stagings) /\ m.stage = NoBundle /\ ~m.was /\ ~m.window
  BY <1>4, NoBundleStaged DEF NoMem, Memory, Links
<1>6. mem'["backup"] = m /\ Memorized("backup")
  BY <1>0, <1>4, OtherMemory DEF BackupPreflight, Tools
<1>7. pc'["backup"] = l => WindowIs'
  BY <1>2, <1>5, <1>6, NoBundleStaged DEF WindowIs
<1>8. l \in Places("backup") /\ l \notin Holding("backup")
  BY <1>2 DEF Places, Holding, Ended
<1>9. Serves /\ BundleSound'
  BY <1>0, <1>3, SameStops, StopsServe DEF BundleSound
<1> QED
  BY <1>0, <1>1, <1>2, <1>3, <1>5, <1>6, <1>7, <1>8, <1>9, BackupStep DEF DeployTypeOK

\* The backup stops the timer.
LEMMA BackupTimerStep == ASSUME DeployIInv, stop_timer("backup", "timer", "lock") PROVE DeployIInv'
<1>0. pc["backup"] = "timer" /\ Goto("backup", "lock") /\ timer' = FALSE
  BY DEF stop_timer, Step, At
<1>1. DeployTypeOK /\ BundleSound /\ scene = "live" /\ mem["backup"].stage \in Stagings
  BY <1>0, BackingUp
<1>3. UNCHANGED <<scene, bundles, netbox, faults, releases, current, config, files, db, svc, lock>>
  BY DEF stop_timer, Host, disk
<1>4. PICK m : m = [mem["backup"] EXCEPT !.was = timer]
  OBVIOUS
<1>5. m \in Memory({None} \cup Stagings) /\ m.stage = mem["backup"].stage /\ ~m.window
  BY <1>0, <1>1, <1>4, BackingUp DEF DeployTypeOK, Memory, WindowIs
<1>6. mem'["backup"] = m /\ Memorized("backup")
  BY <1>1, <1>4, OtherMemory DEF stop_timer, Tools
<1>7. pc'["backup"] = "lock" => WindowIs'
  BY <1>1, <1>5, <1>6 DEF WindowIs
<1>8. "lock" \in Places("backup") /\ "lock" \notin Holding("backup")
  BY DEF Places, Holding
<1>9. Serves /\ BundleSound'
  BY <1>1, <1>3, SameStops, StopsServe DEF BundleSound
<1> QED
  BY <1>0, <1>1, <1>3, <1>5, <1>6, <1>7, <1>8, <1>9, BackupStep DEF DeployTypeOK

\* The backup takes the lock.
LEMMA BackupLockStep == ASSUME DeployIInv, shared_apply_lock("backup", "lock", "pause") PROVE DeployIInv'
<1>0. pc["backup"] = "lock" /\ Goto("backup", "pause") /\ lock = None /\ lock' = "backup"
  BY DEF shared_apply_lock, Step, At
<1>1. DeployTypeOK /\ BundleSound /\ scene = "live" /\ mem["backup"].stage \in Stagings
  BY <1>0, BackingUp
<1>3. UNCHANGED <<scene, bundles, netbox, faults, releases, current, config, files, db, svc, timer, mem>>
  BY DEF shared_apply_lock, Host, disk
<1>6. mem'["backup"] \in Memory({None} \cup Stagings) /\ Memorized("backup")
  BY <1>1, <1>3, SameMemory DEF Tools, DeployTypeOK
<1>7. pc'["backup"] = "pause" => WindowIs'
  BY <1>0, <1>1, <1>3, BackingUp DEF WindowIs
<1>8. "pause" \in Places("backup")
  BY DEF Places
<1>9. Serves /\ BundleSound'
  BY <1>1, <1>3, SameStops, StopsServe DEF BundleSound
<1> QED
  BY <1>0, <1>1, <1>3, <1>6, <1>7, <1>8, <1>9, BackupStep DEF DeployTypeOK

\* The backup stops the services.
LEMMA BackupOpens == ASSUME DeployIInv, OpenWindow("backup", "metadata") PROVE DeployIInv'
<1>0. pc["backup"] = "pause" /\ Goto("backup", "metadata")
  BY DEF OpenWindow, Step, At
<1>1. DeployTypeOK /\ BundleSound /\ scene = "live" /\ mem["backup"].stage \in Stagings
  BY <1>0, BackingUp
<1>3. /\ UNCHANGED <<scene, bundles, netbox, faults, releases, current, config, files, db, timer, lock>>
      /\ svc' = [s \in Services |-> None]
  BY DEF OpenWindow, Host, disk, Stopped
<1>4. PICK m : m = [mem["backup"] EXCEPT !.up = {s \in Services : svc[s] # None}, !.window = TRUE]
  OBVIOUS
<1>5. m \in Memory({None} \cup Stagings) /\ m.stage = mem["backup"].stage
  BY <1>1, <1>4 DEF DeployTypeOK, Memory
<1>6. mem'["backup"] = m /\ Memorized("backup")
  BY <1>1, <1>4, OtherMemory DEF OpenWindow, Tools
<1>7. pc'["backup"] = "metadata" => WindowIs'
  BY <1>1, <1>3, <1>5, <1>6 DEF WindowIs, Off
<1>8. "metadata" \in Places("backup") /\ "pause" \in Holding("backup")
  BY DEF Places, Holding
<1>9. Serves /\ BundleSound'
  BY <1>1, <1>3 DEF BundleSound, Serves, Links
<1> QED
  BY <1>0, <1>1, <1>3, <1>5, <1>6, <1>7, <1>8, <1>9, BackupStep DEF DeployTypeOK

\* A part is staged: what is left to show is the window.
LEMMA StagedStep ==
  ASSUME DeployIInv, NEW b \in Stagings, NEW p \in Holding("backup"), NEW l \in Holding("backup"), Stage(b, p, l),
         /\ l \notin {"pause", "metadata"} /\ p \in {"metadata", "dump", "archive", "references"}
         /\ l \in {"dump", "archive", "references", "publish"} => b.meta = metadata(db)
         /\ l \in {"archive", "references", "publish"} => b.dump = db
         /\ l = "publish" => b.refs = db.sources
  PROVE  DeployIInv'
<1>0. pc["backup"] = p /\ Goto("backup", l)
  BY DEF Stage, Step, At
<1>1. DeployTypeOK /\ BundleSound /\ scene = "live" /\ Off
  BY <1>0, BackingUp DEF WindowIs
<1>3. UNCHANGED <<scene, bundles, netbox, faults, releases, current, config, files, db, svc, timer, lock>>
  BY DEF Stage, Host, disk
<1>4. PICK m : m = [mem["backup"] EXCEPT !.stage = b]
  OBVIOUS
<1>5. m \in Memory({None} \cup Stagings) /\ m.stage = b
  BY <1>1, <1>4 DEF DeployTypeOK, Memory
<1>6. mem'["backup"] = m /\ Memorized("backup")
  BY <1>1, <1>4, OtherMemory DEF Stage, Tools
<1>a. metadata(db)' = metadata(db) /\ Off'
  BY <1>1, <1>3 DEF metadata, Off
<1>b. l \notin {"timer", "lock", "pause"}
  BY DEF Holding
<1>7. pc'["backup"] = l => WindowIs'
  BY <1>3, <1>5, <1>6, <1>a, <1>b DEF WindowIs
<1>8. l \in Places("backup")
  BY DEF Places, Holding
<1>9. Serves /\ BundleSound'
  BY <1>1, <1>3, SameStops, StopsServe DEF BundleSound
<1> QED
  BY <1>0, <1>1, <1>3, <1>5, <1>6, <1>7, <1>8, <1>9, BackupStep DEF DeployTypeOK

\* Metadata counts finite tables.
LEMMA MetaTyped == ASSUME NEW d \in Dbs PROVE metadata(d) \in Metas
<1>1. IsFiniteSet(d.sources) /\ d.rev \in Nat /\ d.runs \in Nat
  BY FS_Subset, DeploymentAssumption DEF Dbs
<1>2. Cardinality(d.sources) \in Nat
  BY <1>1, FS_CardinalityType
<1> QED
  BY <1>1, <1>2 DEF metadata, Metas

\* The parts of a bundle, taken one by one while the window is open.
LEMMA TakeSteps ==
  ASSUME DeployIInv, TakeMetadata \/ TakeDump \/ TakeArchive \/ TakeReferences
  PROVE  DeployIInv'
<1>0. pc["backup"] \in {"metadata", "dump", "archive", "references"}
  BY DEF TakeMetadata, TakeDump, TakeArchive, TakeReferences, Stage, Step, At
<1>1. DeployTypeOK /\ WindowIs /\ mem["backup"].stage \in Stagings
  BY <1>0, BackingUp
<1>2. PICK c : c = mem["backup"].stage
  OBVIOUS
<1>3. c \in Stagings
  BY <1>1, <1>2
<1>4. {"metadata", "dump", "archive", "references", "publish"} \subseteq Holding("backup")
  BY DEF Holding
<1>5. CASE TakeMetadata
  <2>1. PICK b : b = [c EXCEPT !.meta = metadata(db)]
    OBVIOUS
  <2>2. metadata(db) \in Metas
    BY <1>1, MetaTyped DEF DeployTypeOK
  <2>3. b \in Stagings /\ b.meta = metadata(db)
    BY <1>3, <2>1, <2>2 DEF Stagings
  <2>4. Stage(b, "metadata", "dump")
    BY <1>2, <1>5, <2>1 DEF TakeMetadata
  <2> QED
    BY <1>4, <2>3, <2>4, StagedStep
<1>6. CASE TakeDump
  <2>0. pc["backup"] = "dump"
    BY <1>6 DEF TakeDump, Stage, Step, At
  <2>1. PICK b : b = [c EXCEPT !.dump = db]
    OBVIOUS
  <2>2. db \in Dbs /\ c.meta = metadata(db)
    BY <1>1, <1>2, <2>0 DEF DeployTypeOK, WindowIs
  <2>3. b \in Stagings /\ b.meta = metadata(db) /\ b.dump = db
    BY <1>3, <2>1, <2>2 DEF Stagings
  <2>4. Stage(b, "dump", "archive")
    BY <1>2, <1>6, <2>1 DEF TakeDump
  <2> QED
    BY <1>4, <2>3, <2>4, StagedStep
<1>7. CASE TakeArchive
  <2>0. pc["backup"] = "archive"
    BY <1>7 DEF TakeArchive, Stage, Step, At
  <2>1. PICK b : b = [c EXCEPT !.files = files]
    OBVIOUS
  <2>2. files \in Stores /\ c.meta = metadata(db) /\ c.dump = db
    BY <1>1, <1>2, <2>0 DEF DeployTypeOK, WindowIs
  <2>3. b \in Stagings /\ b.meta = metadata(db) /\ b.dump = db
    BY <1>3, <2>1, <2>2 DEF Stagings
  <2>4. Stage(b, "archive", "references")
    BY <1>2, <1>7, <2>1 DEF TakeArchive
  <2> QED
    BY <1>4, <2>3, <2>4, StagedStep
<1>8. CASE TakeReferences
  <2>0. pc["backup"] = "references"
    BY <1>8 DEF TakeReferences, Stage, Step, At
  <2>1. PICK b : b = [c EXCEPT !.refs = db.sources]
    OBVIOUS
  <2>2. db.sources \in SUBSET Sources /\ c.meta = metadata(db) /\ c.dump = db
    BY <1>1, <1>2, <2>0 DEF DeployTypeOK, WindowIs, Dbs
  <2>3. b \in Stagings /\ b.meta = metadata(db) /\ b.dump = db /\ b.refs = db.sources
    BY <1>3, <2>1, <2>2 DEF Stagings
  <2>4. Stage(b, "references", "publish")
    BY <1>2, <1>8, <2>1 DEF TakeReferences
  <2> QED
    BY <1>4, <2>3, <2>4, StagedStep
<1> QED
  BY <1>5, <1>6, <1>7, <1>8

\* The bundle is published.
LEMMA BundleStep == ASSUME DeployIInv, PublishBundle PROVE DeployIInv'
<1>0. pc["backup"] = "publish" /\ Goto("backup", "exit")
  BY DEF PublishBundle, Step, At
<1>1. DeployTypeOK /\ BundleSound /\ scene = "live" /\ WindowIs /\ mem["backup"].stage \in Stagings
  BY <1>0, BackingUp
<1>2. PICK b : b = mem["backup"].stage
  OBVIOUS
<1>3. /\ UNCHANGED <<scene, netbox, faults, releases, current, config, files, db, svc, timer, lock, mem>>
      /\ bundles' = bundles \cup {b} /\ b.refs \subseteq b.files.src
  BY <1>2 DEF PublishBundle, disk, verify_bundle
<1>4. b.meta = metadata(db) /\ b.dump = db /\ b.refs = db.sources
  BY <1>0, <1>1, <1>2 DEF WindowIs
<1>5. b.meta = metadata(b.dump) /\ b.refs = b.dump.sources /\ b.refs \subseteq b.files.src
  BY <1>3, <1>4 DEF metadata
<1>6. mem'["backup"] \in Memory({None} \cup Stagings) /\ Memorized("backup")
  BY <1>1, <1>3, SameMemory DEF Tools, DeployTypeOK
<1>7. pc'["backup"] = "exit" => WindowIs'
  BY <1>1, <1>3 DEF WindowIs
<1>8. "exit" \in Places("backup") /\ "publish" \in Holding("backup")
  BY DEF Places, Holding
<1>9. BundleSound'
  BY <1>1, <1>3, <1>5 DEF BundleSound
<1>10. Serves
  BY <1>1, <1>3, SameStops, StopsServe
<1> QED
  BY <1>0, <1>1, <1>3, <1>6, <1>7, <1>8, <1>9, <1>10, BackupStep DEF DeployTypeOK

\* The window closes.
LEMMA BackupCloses == ASSUME DeployIInv, NEW l \in {"done", "failed"}, CloseWindow("backup", l) PROVE DeployIInv'
<1>0. pc["backup"] = "exit" /\ Goto("backup", l) /\ Release("backup")
  BY DEF CloseWindow, Step, At
<1>1. DeployTypeOK /\ BundleSound /\ scene = "live" /\ mem["backup"].stage \in Stagings
  BY <1>0, BackingUp
<1>3. /\ UNCHANGED <<scene, bundles, netbox, faults, releases, current, config, files, db, mem>>
      /\ svc' = [s \in Services |-> IF s \in mem["backup"].up THEN current ELSE svc[s]]
      /\ timer' = (timer \/ mem["backup"].was)
  BY DEF CloseWindow, Host, disk
<1>4. Serves
  BY <1>1, <1>3 DEF Serves, DeployTypeOK
<1>5. timer' \in BOOLEAN
  BY <1>3
<1>6. mem'["backup"] \in Memory({None} \cup Stagings) /\ Memorized("backup")
  BY <1>1, <1>3, SameMemory DEF Tools, DeployTypeOK
<1>7. pc'["backup"] = l => WindowIs'
  BY <1>1, <1>3 DEF WindowIs
<1>8. l \in Places("backup") /\ l \notin Holding("backup")
  BY DEF Places, Holding, Ended
<1>9. BundleSound'
  BY <1>1, <1>3 DEF BundleSound
<1> QED
  BY <1>0, <1>1, <1>3, <1>4, <1>5, <1>6, <1>7, <1>8, <1>9, BackupStep DEF DeployTypeOK

\* A backup that stops, at once or by closing its window.
LEMMA BackupEnds ==
  ASSUME DeployIInv, pc["backup"] # "idle", NEW l \in {"failed", "killed", "exit"}, Goto("backup", l),
         l = "exit" => pc["backup"] \in Holding("backup") /\ UNCHANGED lock,
         UNCHANGED lock \/ Release("backup"), Stops, timer' \in BOOLEAN,
         UNCHANGED <<scene, bundles, netbox, releases, current, config, files, db>>,
         faults' \in [raised : Nat, killed : Nat], faults'.killed = 0 => faults.killed = 0,
         Memorized("backup"), mem'["backup"] \in Memory({None} \cup Stagings), mem'["backup"].stage \in Stagings
  PROVE  DeployIInv'
<1>1. DeployTypeOK /\ BundleSound /\ scene = "live"
  BY BackingUp
<1>2. pc'["backup"] = l => WindowIs'
  BY DEF WindowIs
<1>3. l \in Places("backup") /\ (l # "exit" => l \notin Holding("backup"))
  BY DEF Places, Holding, Ended
<1>4. BundleSound' /\ Serves
  BY <1>1, StopsServe DEF BundleSound
<1> QED
  BY <1>1, <1>2, <1>3, <1>4, BackupStep

\* The backup's handler: the staging is dropped, the window still closes.
LEMMA BackupHandler ==
  ASSUME DeployIInv, RaiseBackup, UNCHANGED <<scene, bundles, netbox, releases, current, config, files, db, svc, timer, lock>>,
         faults' \in [raised : Nat, killed : Nat], faults'.killed = faults.killed
  PROVE  DeployIInv'
<1>0. pc["backup"] \in {"metadata", "dump", "archive", "references", "publish"} /\ Goto("backup", "exit")
  BY DEF RaiseBackup, Handled
<1>1. DeployTypeOK
  BY DEF DeployIInv
<1>2. PICK m : m = [mem["backup"] EXCEPT !.stage = NoBundle]
  OBVIOUS
<1>3. m \in Memory({None} \cup Stagings) /\ m.stage \in Stagings
  BY <1>1, <1>2, NoBundleStaged DEF DeployTypeOK, Memory
<1>4. mem'["backup"] = m /\ Memorized("backup")
  BY <1>1, <1>2, OtherMemory DEF RaiseBackup, Tools
<1>5. pc["backup"] \in Holding("backup") /\ Stops /\ timer' \in BOOLEAN
  BY <1>0, <1>1, SameStops DEF Holding, DeployTypeOK
<1> QED
  BY <1>0, <1>3, <1>4, <1>5, BackupEnds

\* ---- Steps of the restore. ------------------------------------------------------
\* What is left to show of a step of the restore: what holds of the target.
LEMMA RestoreStep ==
  ASSUME DeployIInv, scene = "target", NEW l \in Places("restore"), Goto("restore", l),
         \/ UNCHANGED lock /\ (l \in Holding("restore") => pc["restore"] \in Holding("restore"))
         \/ lock = None /\ lock' = "restore"
         \/ Release("restore") /\ l \notin Holding("restore"),
         UNCHANGED <<scene, bundles, netbox>>, DeployTypeOK',
         pc'["restore"] = l /\ pc'["run"] = pc["run"] => TargetIs'
  PROVE  DeployIInv'
<1>1. DeployTypeOK /\ ActorsIn /\ BundleSound
  BY DEF DeployIInv
<1>2. "restore" \in Crew /\ "restore" \in Actors /\ "run" \in Actors
  BY DEF Crew, Actors, Tools
<1>3. ActorsIn' /\ pc'["restore"] = l /\ \A u \in Actors \ {"restore"} : pc'[u] = pc[u]
  BY <1>1, <1>2, Moves
<1>4. BundleSound'
  BY <1>1 DEF BundleSound
<1> QED
  BY <1>2, <1>3, <1>4 DEF DeployIInv

\* What a step of the restore starts from.
LEMMA Restoring ==
  ASSUME DeployIInv, scene = "target"
  PROVE  /\ DeployTypeOK /\ TargetIs /\ Bundle \in bundles /\ Bundle.dump \in Dbs /\ Bundle.files \in Stores
         /\ pc["restore"] \in Holding("restore") => lock = "restore" /\ pc["run"] = "idle"
<1>1. DeployTypeOK /\ ActorsIn /\ TargetIs
  BY DEF DeployIInv
<1>2. "restore" \in Actors /\ "run" \in Actors
  BY DEF Actors, Tools
<1>3. pc["restore"] \in Holding("restore") => lock = "restore" /\ pc["run"] \notin Holding("run")
  BY <1>1, <1>2, Alone
<1>4. pc["run"] \notin Holding("run") => pc["run"] = "idle"
  BY <1>1, <1>2 DEF ActorsIn, Places, Holding
<1>5. Bundle \in bundles
  BY <1>1 DEF TargetIs, Bundle
<1> QED
  BY <1>1, <1>3, <1>4, <1>5 DEF TargetIs

\* A restore works on a target.
LEMMA RestoreWorks == ASSUME DeployIInv, pc["restore"] # "idle" PROVE scene = "target"
BY AtWork DEF DeployIInv

\* A restore that has not opened its window, or that stops.
LEMMA RestoreOutside ==
  ASSUME DeployIInv, scene = "target", NEW l \in {"timer", "lock", "pause", "failed", "killed"}, Goto("restore", l),
         \/ UNCHANGED lock /\ l # "pause"
         \/ lock = None /\ lock' = "restore"
         \/ Release("restore") /\ l # "pause",
         UNCHANGED <<scene, bundles, netbox, releases, current, config, files, db>>, Stops, timer' = FALSE,
         faults' \in [raised : Nat, killed : Nat], Memorized("restore"), mem'["restore"] \in Memory({None})
  PROVE  DeployIInv'
<1>1. DeployTypeOK /\ TargetIs
  BY Restoring
<1>2. DeployTypeOK'
  <2>1. mem = [u \in Tools |-> mem[u]] /\ mem' = [mem EXCEPT !["restore"] = mem'["restore"]]
    BY <1>1 DEF DeployTypeOK, Memorized
  <2>2. mem' = [u \in Tools |-> mem'[u]] /\ \A u \in Tools \ {"restore"} : mem'[u] = mem[u]
    BY <2>1
  <2>3. lock' \in {None} \cup Actors
    BY <1>1 DEF DeployTypeOK, Release, Actors, Tools
  <2> QED
    BY <1>1, <2>2, <2>3 DEF DeployTypeOK, Tools, Stops
<1>3. Off => Off'
  BY StopsOff
<1>4. pc'["restore"] = l /\ pc'["run"] = pc["run"] => TargetIs'
  BY <1>1, <1>3 DEF TargetIs, Holding, Loading, Granted
<1>5. l \in Places("restore") /\ (l # "pause" => l \notin Holding("restore"))
  BY DEF Places, Holding, Ended
<1> QED
  BY <1>2, <1>4, <1>5, RestoreStep

\* A restore that is refused leaves all as it was.
LEMMA RefuseRestore == ASSUME DeployIInv, scene = "target", Refuse("restore") PROVE DeployIInv'
<1>1. DeployTypeOK /\ ~timer
  BY Restoring DEF TargetIs
<1>2. /\ Goto("restore", "failed") /\ Release("restore")
      /\ UNCHANGED <<scene, bundles, netbox, faults, releases, current, config, files, db, svc, timer, mem>>
  BY DEF Refuse, Host, disk
<1>3. Memorized("restore") /\ mem'["restore"] \in Memory({None}) /\ Stops /\ timer' = FALSE
  BY <1>1, <1>2, SameMemory, SameStops DEF DeployTypeOK, Tools
<1> QED
  BY <1>1, <1>2, <1>3, RestoreOutside DEF DeployTypeOK

\* The checks before a restore.
LEMMA RestoreChecksStep == ASSUME DeployIInv, RestoreChecks \/ RestoreRefused PROVE DeployIInv'
<1>1. scene = "target"
  BY DEF RestoreChecks, RestoreRefused, Start, Offered, DeployIInv, DeployTypeOK
<1>2. CASE RestoreRefused
  BY <1>1, <1>2, RefuseRestore DEF RestoreRefused
<1>3. CASE RestoreChecks
  <2>1. DeployTypeOK /\ ~timer
    BY <1>1, Restoring DEF TargetIs
  <2>2. /\ Goto("restore", "timer")
        /\ UNCHANGED <<scene, bundles, netbox, faults, releases, current, config, files, db, svc, timer, lock, mem>>
    BY <1>3 DEF RestoreChecks, Start, Host, disk
  <2>3. Memorized("restore") /\ mem'["restore"] \in Memory({None}) /\ Stops /\ timer' = FALSE
    BY <2>1, <2>2, SameMemory, SameStops DEF DeployTypeOK, Tools
  <2> QED
    BY <1>1, <2>1, <2>2, <2>3, RestoreOutside DEF DeployTypeOK
<1> QED
  BY <1>2, <1>3

\* The restore stops the timer.
LEMMA RestoreTimerStep == ASSUME DeployIInv, stop_timer("restore", "timer", "lock") PROVE DeployIInv'
<1>0. pc["restore"] = "timer" /\ Goto("restore", "lock") /\ timer' = FALSE
  BY DEF stop_timer, Step, At
<1>1. DeployTypeOK /\ scene = "target"
  BY <1>0, RestoreWorks DEF DeployIInv
<1>2. UNCHANGED <<scene, bundles, netbox, faults, releases, current, config, files, db, svc, lock>>
  BY DEF stop_timer, Host, disk
<1>3. PICK m : m = [mem["restore"] EXCEPT !.was = timer]
  OBVIOUS
<1>4. m \in Memory({None})
  BY <1>1, <1>3 DEF DeployTypeOK, Memory
<1>5. mem'["restore"] = m /\ Memorized("restore") /\ Stops
  BY <1>1, <1>2, <1>3, OtherMemory, SameStops DEF stop_timer, Tools
<1> QED
  BY <1>0, <1>1, <1>2, <1>4, <1>5, RestoreOutside DEF DeployTypeOK

\* The restore takes the lock.
LEMMA RestoreLockStep == ASSUME DeployIInv, shared_apply_lock("restore", "lock", "pause") PROVE DeployIInv'
<1>0. pc["restore"] = "lock" /\ Goto("restore", "pause") /\ lock = None /\ lock' = "restore"
  BY DEF shared_apply_lock, Step, At
<1>1. DeployTypeOK /\ scene = "target" /\ ~timer
  BY <1>0, RestoreWorks, Restoring DEF TargetIs
<1>2. UNCHANGED <<scene, bundles, netbox, faults, releases, current, config, files, db, svc, timer, mem>>
  BY DEF shared_apply_lock, Host, disk
<1>3. Memorized("restore") /\ mem'["restore"] \in Memory({None}) /\ Stops /\ timer' = FALSE
  BY <1>1, <1>2, SameMemory, SameStops DEF DeployTypeOK, Tools
<1> QED
  BY <1>0, <1>1, <1>2, <1>3, RestoreOutside DEF DeployTypeOK

\* The restore stops the services.
LEMMA RestoreOpens == ASSUME DeployIInv, OpenWindow("restore", "recheck") PROVE DeployIInv'
<1>0. pc["restore"] = "pause" /\ Goto("restore", "recheck")
  BY DEF OpenWindow, Step, At
<1>1. DeployTypeOK /\ scene = "target" /\ TargetIs
  BY <1>0, RestoreWorks, Restoring
<1>2. /\ UNCHANGED <<scene, bundles, netbox, faults, releases, current, config, files, db, timer, lock>>
      /\ svc' = [s \in Services |-> None] /\ svc' \in [Services -> Links]
  BY DEF OpenWindow, Host, disk, Stopped, Links
<1>3. PICK m : m = [mem["restore"] EXCEPT !.up = {s \in Services : svc[s] # None}, !.window = TRUE]
  OBVIOUS
<1>4. m \in Memory({None})
  BY <1>1, <1>3 DEF DeployTypeOK, Memory
<1>5. mem'["restore"] = m /\ Keep("restore", m) /\ \A u \in Tools \ {"restore"} : mem'[u] = mem[u]
  BY <1>1, <1>3, OtherMemory DEF OpenWindow, Tools
<1>6. DeployTypeOK'
  <2>1. mem' = [u \in Tools |-> mem'[u]]
    BY <1>1, <1>5 DEF Keep, DeployTypeOK
  <2> QED
    BY <1>1, <1>2, <1>4, <1>5, <2>1 DEF DeployTypeOK, Tools
<1>7. Off'
  BY <1>2 DEF Off
<1>8. pc'["restore"] = "recheck" /\ pc'["run"] = pc["run"] => TargetIs'
  BY <1>1, <1>2, <1>7 DEF TargetIs, Loading
<1>9. "recheck" \in Places("restore") /\ "pause" \in Holding("restore")
  BY DEF Places, Holding
<1> QED
  BY <1>0, <1>1, <1>2, <1>6, <1>8, <1>9, RestoreStep

\* Inside the window: nothing runs, and what is left to show is what this step established.
LEMMA RestoreInside ==
  ASSUME DeployIInv, pc["restore"] \in Holding("restore") \ {"pause"}, NEW l \in Holding("restore") \ {"pause"},
         Goto("restore", l),
         UNCHANGED <<scene, bundles, netbox, faults, releases, current, svc, timer, lock, mem>>,
         db' \in Dbs /\ files' \in Stores /\ config' \in Configs /\ config'.by = config.by,
         l = "drop" => EmptyTarget',
         l \in {"load"} \cup Loading => db'.dirty,
         l \in Loading \ {"migrate"} => db'.rev = HeadRev,
         l \in Loading \ {"migrate", "grants"} => db'.granted = HeadRev,
         l \in Loading \ {"migrate", "grants", "reconcile"} => db'.plan # "restored",
         l \in {"compare", "roles", "publish", "start"} => db'.session # "restored",
         l \in {"publish", "start"} => db'.role = Bundle.files.pw,
         l = "start" => config'.dsn = Bundle.files.pw /\ files'.env = Groups
  PROVE  DeployIInv'
<1>0. pc["restore"] # "idle"
  BY DEF Holding
<1>1. DeployTypeOK /\ scene = "target" /\ TargetIs /\ pc["run"] = "idle"
  BY <1>0, RestoreWorks, Restoring
<1>2. DeployTypeOK'
  BY <1>1 DEF DeployTypeOK
<1>3. Off /\ Off' /\ Bundle' = Bundle
  BY <1>1 DEF TargetIs, Off, Bundle
<1>4. /\ l \in Loading \ {"migrate"} => db'.rev = HeadRev
      /\ l \in Loading \ {"migrate", "grants"} => Granted'
  BY DEF Granted
<1>5. pc'["restore"] = l /\ pc'["run"] = pc["run"] => TargetIs'
  BY <1>1, <1>3, <1>4 DEF TargetIs
<1>6. l \in Places("restore")
  BY DEF Places, Holding
<1> QED
  BY <1>1, <1>2, <1>5, <1>6, RestoreStep

\* The target is checked again, with the services stopped.
LEMMA RecheckStep == ASSUME DeployIInv, Recheck PROVE DeployIInv'
<1>0. pc["restore"] = "recheck"
  BY DEF Recheck, At
<1>1. DeployTypeOK /\ scene = "target"
  BY <1>0, RestoreWorks DEF DeployIInv
<1>2. CASE Foundation /\ EmptyTarget
  <2>1. /\ Goto("restore", "drop")
        /\ UNCHANGED <<scene, bundles, netbox, faults, releases, current, config, files, db, svc, timer, lock, mem>>
    BY <1>2 DEF Recheck, Host, disk
  <2>2. EmptyTarget'
    BY <1>2, <2>1 DEF EmptyTarget
  <2>3. "drop" \in Holding("restore") \ {"pause"} /\ "recheck" \in Holding("restore") \ {"pause"} /\ "drop" \notin Loading
    BY DEF Holding, Loading
  <2> QED
    BY <1>0, <1>1, <2>1, <2>2, <2>3, RestoreInside DEF DeployTypeOK
<1>3. CASE ~(Foundation /\ EmptyTarget)
  BY <1>1, <1>3, RefuseRestore DEF Recheck
<1> QED
  BY <1>2, <1>3

\* The foundation is dropped.
LEMMA DropStep == ASSUME DeployIInv, DropFoundation PROVE DeployIInv'
<1>0. pc["restore"] = "drop"
  BY DEF DropFoundation, At
<1>1. DeployTypeOK /\ scene = "target"
  BY <1>0, RestoreWorks DEF DeployIInv
<1>2. CASE Droppable
  <2>1. /\ Goto("restore", "load") /\ db' = [NoDb EXCEPT !.boot = db.boot, !.role = db.role, !.dirty = TRUE]
        /\ UNCHANGED <<scene, bundles, netbox, faults, releases, current, config, files, svc, timer, lock, mem>>
    BY <1>2 DEF DropFoundation, Host, disk
  <2>2. db.boot \in Passwords /\ db.role \in Passwords
    BY <1>1 DEF DeployTypeOK, Dbs
  <2>3. db' \in Dbs /\ db'.dirty
    BY <2>1, <2>2 DEF NoDb, Dbs
  <2>4. "load" \in Holding("restore") \ {"pause"} /\ "drop" \in Holding("restore") \ {"pause"} /\ "load" \notin Loading
    BY DEF Holding, Loading
  <2> QED
    BY <1>0, <1>1, <2>1, <2>3, <2>4, RestoreInside DEF DeployTypeOK
<1>3. CASE ~Droppable
  BY <1>1, <1>3, RefuseRestore DEF DropFoundation
<1> QED
  BY <1>2, <1>3

\* What a dump restores is a database.
LEMMA RestoredTyped ==
  ASSUME db \in Dbs, NEW d \in Dbs
  PROVE  Restored(d) \in Dbs /\ Restored(d).dirty /\ [Restored(d) EXCEPT !.runs = 0] \in Dbs
         /\ [Restored(d) EXCEPT !.runs = 0].dirty
<1>1. PICK p \in {"none", "READY", "restored", "STALE"} : p = IF d.plan = "READY" THEN "restored" ELSE d.plan
  BY DEF Dbs
<1>2. PICK s \in {"none", "own", "restored"} : s = IF d.session = "own" THEN "restored" ELSE d.session
  BY DEF Dbs
<1>3. PICK e : e = [d EXCEPT !.plan = p, !.session = s, !.granted = 0, !.boot = db.boot, !.role = db.role, !.dirty = TRUE]
  OBVIOUS
<1>4. db.boot \in Passwords /\ db.role \in Passwords
  BY DEF Dbs
<1>5. e \in Dbs /\ e.dirty
  BY <1>3, <1>4 DEF Dbs
<1>6. Restored(d) = e
  BY <1>1, <1>2, <1>3 DEF Restored
<1>7. [e EXCEPT !.runs = 0] \in Dbs /\ [e EXCEPT !.runs = 0].dirty
  BY <1>5 DEF Dbs
<1> QED
  BY <1>5, <1>6, <1>7

\* The dump is loaded.
LEMMA LoadStep == ASSUME DeployIInv, LoadDump PROVE DeployIInv'
<1>0. pc["restore"] = "load" /\ Goto("restore", "migrate")
  BY DEF LoadDump, Step, At
<1>1. DeployTypeOK /\ scene = "target" /\ Bundle.dump \in Dbs
  BY <1>0, RestoreWorks, Restoring
<1>2. /\ db' = Restored(Bundle.dump)
      /\ UNCHANGED <<scene, bundles, netbox, faults, releases, current, config, files, svc, timer, lock, mem>>
  BY DEF LoadDump, Host, disk
<1>3. db' \in Dbs /\ db'.dirty
  BY <1>1, <1>2, RestoredTyped DEF DeployTypeOK
<1>4. "load" \in Holding("restore") \ {"pause"} /\ "migrate" \in Holding("restore") \ {"pause"}
  BY DEF Holding
<1> QED
  BY <1>0, <1>1, <1>2, <1>3, <1>4, RestoreInside DEF DeployTypeOK

\* The steps on the loaded database.
LEMMA StageStep == ASSUME DeployIInv, RestoreStage PROVE DeployIInv'
<1>0. pc["restore"] \in {"migrate", "grants", "reconcile", "revoke"}
  BY DEF RestoreStage, Step, At
<1>1. /\ DeployTypeOK /\ scene = "target" /\ TargetIs /\ current = New /\ db \in Dbs
      /\ db.dirty /\ HeadRev \in Nat
  BY <1>0, RestoreWorks, Restoring, DeploymentAssumption DEF DeployTypeOK, TargetIs, Loading
<1>2. UNCHANGED <<scene, bundles, netbox, faults, releases, current, config, files, svc, timer, lock, mem>>
  BY DEF RestoreStage, Host, disk
<1>3. {"migrate", "grants", "reconcile", "revoke", "compare"} \subseteq Holding("restore") \ {"pause"}
  BY DEF Holding
<1>4. CASE Step("restore", "migrate", "grants") /\ db' = migrate(db, current)
  <2>1. db' = [db EXCEPT !.rev = HeadRev]
    BY <1>1, <1>4 DEF migrate, Need
  <2>2. db' \in Dbs /\ db'.rev = HeadRev /\ db'.dirty
    BY <1>1, <2>1 DEF Dbs
  <2>3. pc["restore"] = "migrate" /\ Goto("restore", "grants")
    BY <1>4 DEF Step, At
  <2> QED
    BY <1>1, <1>2, <1>3, <2>2, <2>3, RestoreInside DEF DeployTypeOK
<1>5. CASE Step("restore", "grants", "reconcile") /\ db' = apply_grants(db)
  <2>1. pc["restore"] = "grants" /\ Goto("restore", "reconcile")
    BY <1>5 DEF Step, At
  <2>2. db.rev = HeadRev
    BY <1>1, <2>1 DEF TargetIs, Loading
  <2>3. db' = [db EXCEPT !.granted = HeadRev]
    BY <1>5, <2>2 DEF apply_grants
  <2>4. db' \in Dbs /\ db'.rev = HeadRev /\ db'.granted = HeadRev /\ db'.dirty
    BY <1>1, <2>2, <2>3 DEF Dbs
  <2> QED
    BY <1>1, <1>2, <1>3, <2>1, <2>4, RestoreInside DEF DeployTypeOK
<1>6. CASE Step("restore", "reconcile", "revoke") /\ db' = reconcile_operations(db)
  <2>1. pc["restore"] = "reconcile" /\ Goto("restore", "revoke")
    BY <1>6 DEF Step, At
  <2>2. db.rev = HeadRev /\ db.granted = HeadRev
    BY <1>1, <2>1 DEF TargetIs, Loading, Granted
  <2>3. PICK p : p = IF db.plan = "restored" THEN "STALE" ELSE db.plan
    OBVIOUS
  <2>4. p \in {"none", "READY", "STALE"}
    BY <1>1, <2>3 DEF Dbs
  <2>5. db' = [db EXCEPT !.plan = p]
    BY <1>6, <2>3 DEF reconcile_operations
  <2>6. db' \in Dbs /\ db'.rev = HeadRev /\ db'.granted = HeadRev /\ db'.dirty /\ db'.plan # "restored"
    BY <1>1, <2>2, <2>4, <2>5 DEF Dbs
  <2> QED
    BY <1>1, <1>2, <1>3, <2>1, <2>6, RestoreInside DEF DeployTypeOK
<1>7. CASE Step("restore", "revoke", "compare") /\ db' = revoke_restored_auth(db)
  <2>1. pc["restore"] = "revoke" /\ Goto("restore", "compare")
    BY <1>7 DEF Step, At
  <2>2. db.rev = HeadRev /\ db.granted = HeadRev /\ db.plan # "restored"
    BY <1>1, <2>1 DEF TargetIs, Loading, Granted
  <2>3. PICK p : p = IF db.session = "restored" THEN "none" ELSE db.session
    OBVIOUS
  <2>4. p \in {"none", "own"}
    BY <1>1, <2>3 DEF Dbs
  <2>5. db' = [db EXCEPT !.session = p]
    BY <1>7, <2>3 DEF revoke_restored_auth
  <2>6. /\ db' \in Dbs /\ db'.rev = HeadRev /\ db'.granted = HeadRev /\ db'.dirty
        /\ db'.plan # "restored" /\ db'.session # "restored"
    BY <1>1, <2>2, <2>4, <2>5 DEF Dbs
  <2> QED
    BY <1>1, <1>2, <1>3, <2>1, <2>6, RestoreInside DEF DeployTypeOK
<1> QED
  BY <1>4, <1>5, <1>6, <1>7 DEF RestoreStage

\* What the database is once its four stages are done.
LEMMA Staged ==
  ASSUME DeployIInv, pc["restore"] \in {"compare", "roles", "publish", "start"}
  PROVE  /\ db.rev = HeadRev /\ db.granted = HeadRev /\ db.dirty /\ db.plan # "restored" /\ db.session # "restored"
         /\ pc["restore"] \in {"publish", "start"} => db.role = Bundle.files.pw
         /\ DeployTypeOK /\ TargetIs /\ scene = "target" /\ Bundle.files \in Stores
         /\ pc["restore"] \in Holding("restore") \ {"pause"}
<1>1. DeployTypeOK /\ scene = "target" /\ TargetIs /\ Bundle.files \in Stores
  BY RestoreWorks, Restoring
<1>2. pc["restore"] \in Loading \ {"migrate", "grants", "reconcile"} /\ pc["restore"] \in Holding("restore") \ {"pause"}
  BY DEF Loading, Holding
<1> QED
  BY <1>1, <1>2 DEF TargetIs, Granted

\* The loaded database is compared with the bundle's metadata.
LEMMA CompareStep == ASSUME DeployIInv, Compare PROVE DeployIInv'
<1>0. pc["restore"] = "compare"
  BY DEF Compare, At
<1>1. /\ db.rev = HeadRev /\ db.granted = HeadRev /\ db.dirty /\ db.plan # "restored" /\ db.session # "restored"
      /\ DeployTypeOK /\ scene = "target"
  BY <1>0, Staged
<1>2. CASE metadata(db) = [Bundle.meta EXCEPT !.rev = ToolHead] /\ db.sources = Bundle.refs
  <2>1. /\ Goto("restore", "roles")
        /\ UNCHANGED <<scene, bundles, netbox, faults, releases, current, config, files, db, svc, timer, lock, mem>>
    BY <1>2 DEF Compare, Host, disk
  <2>2. "roles" \in Holding("restore") \ {"pause"} /\ "compare" \in Holding("restore") \ {"pause"}
    BY DEF Holding
  <2> QED
    BY <1>0, <1>1, <2>1, <2>2, RestoreInside DEF DeployTypeOK
<1>3. CASE ~(metadata(db) = [Bundle.meta EXCEPT !.rev = ToolHead] /\ db.sources = Bundle.refs)
  BY <1>1, <1>3, RefuseRestore DEF Compare
<1> QED
  BY <1>2, <1>3

\* The roles get the target's passwords.
LEMMA PasswordStep == ASSUME DeployIInv, RestoreRoles PROVE DeployIInv'
<1>0. pc["restore"] = "roles" /\ Goto("restore", "publish")
  BY DEF RestoreRoles, Step, At
<1>1. /\ db.rev = HeadRev /\ db.granted = HeadRev /\ db.dirty /\ db.plan # "restored" /\ db.session # "restored"
      /\ DeployTypeOK /\ Bundle.files \in Stores /\ pc["restore"] \in Holding("restore") \ {"pause"}
  BY <1>0, Staged
<1>2. /\ db' = [db EXCEPT !.role = Bundle.files.pw, !.boot = Bundle.files.pw]
      /\ UNCHANGED <<scene, bundles, netbox, faults, releases, current, config, files, svc, timer, lock, mem>>
  BY DEF RestoreRoles, Host, disk, restore_role_passwords
<1>3. Bundle.files.pw \in Passwords
  BY <1>1 DEF Stores
<1>4. /\ db' \in Dbs /\ db'.role = Bundle.files.pw /\ db'.rev = HeadRev /\ db'.granted = HeadRev /\ db'.dirty
      /\ db'.plan # "restored" /\ db'.session # "restored"
  BY <1>1, <1>2, <1>3 DEF DeployTypeOK, Dbs
<1>5. "publish" \in Holding("restore") \ {"pause"}
  BY DEF Holding
<1> QED
  BY <1>0, <1>1, <1>2, <1>4, <1>5, RestoreInside DEF DeployTypeOK

\* The restored files are published.
LEMMA StateStep == ASSUME DeployIInv, PublishRestored PROVE DeployIInv'
<1>0. pc["restore"] = "publish" /\ Goto("restore", "start")
  BY DEF PublishRestored, Step, At
<1>1. /\ db.rev = HeadRev /\ db.granted = HeadRev /\ db.dirty /\ db.plan # "restored" /\ db.session # "restored"
      /\ db.role = Bundle.files.pw
      /\ DeployTypeOK /\ Bundle.files \in Stores /\ pc["restore"] \in Holding("restore") \ {"pause"}
  BY <1>0, Staged
<1>2. UNCHANGED <<scene, bundles, netbox, faults, releases, current, db, svc, timer, lock, mem>>
  BY DEF PublishRestored, Host
<1>3. PICK e : e = extend_tls(extend_bootstrap(extend_auth(extend_ui6(Bundle.files.env))))
  OBVIOUS
<1>4. e = Groups
  BY <1>1, <1>3 DEF extend_tls, extend_bootstrap, extend_auth, extend_ui6, Stores, Groups
<1>5. files' = [Bundle.files EXCEPT !.env = e] /\ config' = [config EXCEPT !.dsn = Bundle.files.pw]
  BY <1>3 DEF PublishRestored
<1>6. files' \in Stores /\ files'.env = Groups
  BY <1>1, <1>4, <1>5 DEF Stores
<1>7. config' \in Configs /\ config'.by = config.by /\ config'.dsn = Bundle.files.pw
  BY <1>1, <1>5 DEF DeployTypeOK, Configs, Stores
<1>8. "start" \in Holding("restore") \ {"pause"}
  BY DEF Holding
<1> QED
  BY <1>0, <1>1, <1>2, <1>6, <1>7, <1>8, RestoreInside DEF DeployTypeOK

\* The restored services start.
LEMMA RestartStep == ASSUME DeployIInv, StartRestored PROVE DeployIInv'
<1>0. pc["restore"] = "start" /\ Goto("restore", "done") /\ Release("restore")
  BY DEF StartRestored, Step, At
<1>1. /\ db.rev = HeadRev /\ db.granted = HeadRev /\ db.dirty /\ db.plan # "restored" /\ db.session # "restored"
      /\ db.role = Bundle.files.pw /\ DeployTypeOK /\ TargetIs /\ scene = "target"
  BY <1>0, Staged
<1>2. /\ UNCHANGED <<scene, bundles, netbox, faults, releases, current, config, files, timer, mem>>
      /\ svc' = [s \in Services |-> current] /\ db' = [db EXCEPT !.dirty = FALSE]
  BY DEF StartRestored, Host, disk
<1>3. /\ db' \in Dbs /\ db'.rev = HeadRev /\ db'.granted = HeadRev /\ ~db'.dirty /\ db'.plan = db.plan
      /\ db'.session = db.session /\ db'.role = db.role
  BY <1>1, <1>2 DEF DeployTypeOK, Dbs
<1>4. svc' \in [Services -> Links] /\ lock' \in {None} \cup Actors
  BY <1>0, <1>1, <1>2 DEF DeployTypeOK, Release
<1>5. DeployTypeOK'
  BY <1>1, <1>2, <1>3, <1>4 DEF DeployTypeOK
<1>6. config.dsn = Bundle.files.pw /\ files.env = Groups
  BY <1>0, <1>1 DEF TargetIs
<1>7. pc'["restore"] = "done" /\ pc'["run"] = pc["run"] => TargetIs'
  BY <1>1, <1>2, <1>3, <1>6 DEF TargetIs, Holding, Loading, Granted
<1>8. "done" \in Places("restore") /\ "done" \notin Holding("restore")
  BY DEF Places, Holding, Ended
<1> QED
  BY <1>0, <1>1, <1>2, <1>5, <1>7, <1>8, RestoreStep

\* The restore's handler: the services stop, the target stays quiesced.
LEMMA RestoreHandler ==
  ASSUME DeployIInv, RaiseRestore, Release("restore"),
         UNCHANGED <<scene, bundles, netbox, releases, current, config, files, timer, mem>>,
         faults' \in [raised : Nat, killed : Nat]
  PROVE  DeployIInv'
<1>0. pc["restore"] \in {"load", "start"} /\ Goto("restore", "failed")
  BY DEF RaiseRestore, Step, At
<1>1. DeployTypeOK /\ scene = "target" /\ TargetIs /\ Bundle.dump \in Dbs
  BY <1>0, RestoreWorks, Restoring
<1>2. Stops
  BY <1>1 DEF RaiseRestore, Stopped, Stops, DeployTypeOK, Links
<1>3. CASE UNCHANGED db
  <2>1. Memorized("restore") /\ mem'["restore"] \in Memory({None}) /\ timer' = FALSE
    BY <1>1, SameMemory DEF DeployTypeOK, Tools, TargetIs
  <2> QED
    BY <1>0, <1>1, <1>2, <1>3, <2>1, RestoreOutside
<1>4. CASE db' = [Restored(Bundle.dump) EXCEPT !.runs = 0]
  <2>1. db' \in Dbs /\ db'.dirty
    BY <1>1, <1>4, RestoredTyped DEF DeployTypeOK
  <2>2. lock' \in {None} \cup Actors
    BY <1>1 DEF DeployTypeOK, Release
  <2>3. DeployTypeOK'
    BY <1>1, <1>2, <2>1, <2>2 DEF DeployTypeOK, Stops
  <2>4. Off /\ pc["run"] = "idle"
    BY <1>0, <1>1 DEF TargetIs, Loading
  <2>5. Off'
    BY <1>2, <2>4, StopsOff
  <2>6. pc'["restore"] = "failed" /\ pc'["run"] = pc["run"] => TargetIs'
    BY <1>1, <2>4, <2>5 DEF TargetIs, Holding, Loading
  <2>7. "failed" \in Places("restore") /\ "failed" \notin Holding("restore")
    BY DEF Places, Holding, Ended
  <2> QED
    BY <1>0, <1>1, <2>3, <2>6, <2>7, RestoreStep
<1> QED
  BY <1>3, <1>4 DEF RaiseRestore

\* ---- Steps of the updater. ------------------------------------------------------
\* What is left to show of a step of the updater: the state of the test stand.
LEMMA StandStep ==
  ASSUME DeployIInv, scene = "test", NEW l \in Places("update"), Goto("update", l),
         \/ UNCHANGED lock /\ (l \in Holding("update") => pc["update"] \in Holding("update"))
         \/ lock = None /\ lock' = "update"
         \/ Release("update") /\ l \notin Holding("update"),
         UNCHANGED <<scene, bundles, releases, current, config, files, db, timer>>, Serves,
         netbox' \in [up : BOOLEAN, image : Releases, rev : Releases],
         faults' \in [raised : Nat, killed : Nat], faults'.killed = 0 => faults.killed = 0,
         Memorized("update"), mem'["update"] \in Memory({None}),
         pc'["update"] = l /\ pc'["install"] = pc["install"] /\ pc'["run"] = pc["run"]
           /\ mem'["install"] = mem["install"] => StandIs'
  PROVE  DeployIInv'
<1>1. DeployTypeOK /\ ActorsIn /\ BundleSound /\ HostIs /\ InstallIs
  BY DEF DeployIInv
<1>2. "update" \in Crew /\ "update" \in Actors
  BY DEF Crew, Actors, Tools
<1>3. ActorsIn' /\ pc'["update"] = l /\ \A u \in Actors \ {"update"} : pc'[u] = pc[u]
  BY <1>1, <1>2, Moves
<1>4. mem' = [u \in Tools |-> mem'[u]] /\ \A u \in Tools \ {"update"} : mem'[u] = mem[u]
  <2>1. mem = [u \in Tools |-> mem[u]] /\ mem' = [mem EXCEPT !["update"] = mem'["update"]]
    BY <1>1 DEF DeployTypeOK, Memorized
  <2> QED
    BY <2>1
<1>5. lock' \in {None} \cup Actors
  BY <1>1, <1>2 DEF DeployTypeOK, Release
<1>6. DeployTypeOK'
  BY <1>1, <1>4, <1>5 DEF DeployTypeOK, Tools, Serves
<1>7. HostIs'
  BY <1>1, ServesHost
<1>8. pc'["install"] = pc["install"] /\ mem'["install"] = mem["install"] /\ pc'["run"] = pc["run"]
  BY <1>3, <1>4 DEF Actors, Tools
<1>9. InstallIs'
  BY <1>1, <1>8, ServesInstall
<1>10. BundleSound'
  BY <1>1 DEF BundleSound
<1> QED
  BY <1>3, <1>6, <1>7, <1>8, <1>9, <1>10 DEF DeployIInv

\* What a step of the updater starts from.
LEMMA Updating ==
  ASSUME DeployIInv, pc["update"] # "idle"
  PROVE  /\ DeployTypeOK /\ scene = "test" /\ StandIs /\ HostIs /\ InstallIs
         /\ pc["update"] \in Holding("update") => lock = "update" /\ pc["run"] = "idle"
<1>1. DeployTypeOK /\ ActorsIn
  BY DEF DeployIInv
<1>2. scene = "test"
  BY <1>1, AtWork
<1>3. "update" \in Actors /\ "run" \in Actors
  BY DEF Actors, Tools
<1>4. pc["update"] \in Holding("update") => lock = "update" /\ pc["run"] \notin Holding("run")
  BY <1>1, <1>3, Alone
<1>5. pc["run"] \notin Holding("run") => pc["run"] = "idle"
  BY <1>1, <1>3 DEF ActorsIn, Places, Holding
<1> QED
  BY <1>1, <1>2, <1>4, <1>5 DEF DeployIInv

\* An update that ends leaves the stand as it was.
LEMMA UpdateEnds ==
  ASSUME DeployIInv, pc["update"] # "idle", NEW l \in {"failed", "killed"}, Goto("update", l), Release("update"),
         UNCHANGED <<scene, bundles, netbox, releases, current, config, files, db, svc, timer, mem>>,
         faults' \in [raised : Nat, killed : Nat], faults'.killed = 0 => faults.killed = 0
  PROVE  DeployIInv'
<1>1. DeployTypeOK /\ scene = "test" /\ StandIs
  BY Updating
<1>2. Serves /\ Memorized("update") /\ mem'["update"] \in Memory({None})
  BY <1>1, SameStops, StopsServe, SameMemory DEF DeployTypeOK, Tools
<1>3. Off' = Off /\ NewGuard' = NewGuard
  BY DEF Off, NewGuard
<1>4. pc'["update"] = l /\ pc'["install"] = pc["install"] /\ pc'["run"] = pc["run"] => StandIs'
  BY <1>1, <1>3 DEF StandIs, Ended
<1>5. l \in Places("update") /\ l \notin Holding("update")
  BY DEF Places, Holding, Ended
<1> QED
  BY <1>1, <1>2, <1>4, <1>5, StandStep DEF DeployTypeOK

\* Preflight of the update.
LEMMA UpdatePreflightStep == ASSUME DeployIInv, UpdatePreflight PROVE DeployIInv'
<1>0. /\ pc["update"] = "idle" /\ Goto("update", "pause") /\ DeployTypeOK /\ Offered("update")
      /\ UNCHANGED <<scene, bundles, netbox, faults, releases, current, config, files, db, svc, timer, lock>>
  BY DEF UpdatePreflight, Start, At, Host, disk, DeployIInv
<1>1. scene = "test" /\ StandIs
  BY <1>0 DEF Offered, DeployTypeOK, DeployIInv
<1>2. PICK g \in BOOLEAN : Keep("update", [NoMem EXCEPT !.window = g])
  BY DEF UpdatePreflight
<1>3. [NoMem EXCEPT !.window = g] \in Memory({None})
  BY DEF NoMem, Memory, Links
<1>4. mem'["update"] \in Memory({None}) /\ Memorized("update") /\ Serves
  BY <1>0, <1>2, <1>3, OtherMemory, SameStops, StopsServe DEF Tools
<1>5. Off' = Off /\ NewGuard' = NewGuard
  BY <1>0 DEF Off, NewGuard
<1>6. \A s \in Services : svc[s] # New
  BY <1>0, <1>1 DEF StandIs, Ended
<1>7. pc'["update"] = "pause" /\ pc'["install"] = pc["install"] /\ pc'["run"] = pc["run"]
        /\ mem'["install"] = mem["install"] => StandIs'
  BY <1>0, <1>1, <1>5, <1>6 DEF StandIs, Ended
<1>8. "pause" \in Places("update") /\ "pause" \notin Holding("update")
  BY DEF Places, Holding
<1> QED
  BY <1>0, <1>1, <1>4, <1>7, <1>8, StandStep DEF DeployTypeOK

\* The Guard stage, while everything is stopped and the updater has the lock.
LEMMA GuardedStep ==
  ASSUME DeployIInv, NEW p \in Holding("update"), NEW l \in Holding("update"), NEW n, GuardStep(p, l, n),
         n \in [up : BOOLEAN, image : Releases, rev : Releases],
         l \in {"preflight", "build", "stop"} => n.up
  PROVE  DeployIInv'
<1>0. /\ pc["update"] = p /\ Goto("update", l) /\ netbox' = n
      /\ UNCHANGED <<scene, bundles, faults, releases, current, config, files, db, svc, timer, lock, mem>>
  BY DEF GuardStep, Step, At, disk
<1>1. p # "idle" /\ p \in {"preflight", "build", "stop", "tag", "schema", "up", "check"} /\ l \in Places("update")
  BY DEF Holding, Places
<1>2. DeployTypeOK /\ scene = "test" /\ StandIs /\ pc["run"] = "idle"
  BY <1>0, <1>1, Updating
<1>3. Off /\ Off' /\ pc["install"] = "idle"
  BY <1>0, <1>1, <1>2 DEF StandIs, Off, Ended
<1>4. Serves /\ Memorized("update") /\ mem'["update"] \in Memory({None})
  BY <1>0, <1>2, SameStops, StopsServe, SameMemory DEF DeployTypeOK, Tools
<1>5. \A s \in Services : svc'[s] # New
  BY <1>3, DeploymentAssumption DEF Off, Releases
<1>6. l \in {"preflight", "build", "stop", "tag", "schema", "up", "check"}
  BY DEF Holding
<1>7. pc'["update"] = l /\ pc'["install"] = pc["install"] /\ pc'["run"] = pc["run"]
        /\ mem'["install"] = mem["install"] => StandIs'
  BY <1>0, <1>2, <1>3, <1>5, <1>6 DEF StandIs
<1> QED
  BY <1>0, <1>1, <1>2, <1>4, <1>7, StandStep DEF DeployTypeOK

\* The guarded steps of NetBox's update.
LEMMA GuardSteps ==
  ASSUME DeployIInv, GuardPreflight \/ GuardBuild \/ GuardPause \/ GuardTag \/ GuardMigrate \/ GuardUp
  PROVE  DeployIInv'
<1>1. DeployTypeOK
  BY DEF DeployIInv
<1>2. netbox \in [up : BOOLEAN, image : Releases, rev : Releases] /\ New \in Releases
  BY <1>1 DEF DeployTypeOK, Releases
<1>3. {"preflight", "build", "stop", "tag", "schema", "up", "check"} \subseteq Holding("update")
  BY DEF Holding
<1>4. pc["update"] \in {"preflight", "build"} => netbox.up
  BY Updating DEF StandIs
<1>5. CASE GuardPreflight
  BY <1>2, <1>3, <1>4, <1>5, GuardedStep DEF GuardPreflight, GuardStep, Step, At
<1>6. CASE GuardBuild
  BY <1>2, <1>3, <1>4, <1>6, GuardedStep DEF GuardBuild, GuardStep, Step, At
<1>7. CASE GuardPause
  <2>1. [netbox EXCEPT !.up = FALSE] \in [up : BOOLEAN, image : Releases, rev : Releases]
    BY <1>2
  <2> QED
    BY <1>3, <1>7, <2>1, GuardedStep DEF GuardPause
<1>8. CASE GuardTag
  <2>1. [netbox EXCEPT !.image = New] \in [up : BOOLEAN, image : Releases, rev : Releases]
    BY <1>2
  <2> QED
    BY <1>3, <1>8, <2>1, GuardedStep DEF GuardTag
<1>9. CASE GuardMigrate
  <2>1. [netbox EXCEPT !.rev = netbox.image] \in [up : BOOLEAN, image : Releases, rev : Releases]
    BY <1>2
  <2> QED
    BY <1>3, <1>9, <2>1, GuardedStep DEF GuardMigrate
<1>10. CASE GuardUp
  <2>1. [netbox EXCEPT !.up = TRUE] \in [up : BOOLEAN, image : Releases, rev : Releases]
    BY <1>2
  <2> QED
    BY <1>3, <1>10, <2>1, GuardedStep DEF GuardUp
<1> QED
  BY <1>5, <1>6, <1>7, <1>8, <1>9, <1>10

\* The updater goes on, and neither NetBox nor its memory changes.
LEMMA UpdateGoes ==
  ASSUME DeployIInv, pc["update"] # "idle", NEW l \in Places("update") \ {"idle"}, Goto("update", l),
         \/ UNCHANGED lock /\ (l \in Holding("update") => pc["update"] \in Holding("update"))
         \/ lock = None /\ lock' = "update"
         \/ Release("update") /\ l \notin Holding("update"),
         UNCHANGED <<scene, bundles, netbox, faults, releases, current, config, files, db, timer, mem>>, Serves,
         svc'["sched"] = svc["sched"],
         l \notin {"installing", "start", "verify", "reconcile", "done", "failed", "killed"} => pc["install"] = "idle",
         l \notin {"pause", "verify", "reconcile", "done", "failed", "killed"} => Off', netbox.up,
         l \in {"install", "installing", "start", "verify", "reconcile", "done"} => (mem["update"].window => NewGuard),
         l \in {"start", "verify", "reconcile", "done"} => pc["install"] = "done",
         l \in {"reconcile", "done"} => \A s \in {"api", "worker"} : svc'[s] = New,
         \A s \in Services : svc'[s] = New => /\ l \in {"verify", "reconcile"} \cup Ended /\ pc["install"] = "done"
                                              /\ mem["update"].window => NewGuard
  PROVE  DeployIInv'
<1>1. DeployTypeOK /\ scene = "test" /\ StandIs
  BY Updating
<1>2. NewGuard' = NewGuard
  BY DEF NewGuard
<1>3. Memorized("update") /\ mem'["update"] \in Memory({None})
  BY <1>1, SameMemory DEF DeployTypeOK, Tools
<1>4. pc'["update"] = l /\ pc'["install"] = pc["install"] /\ pc'["run"] = pc["run"]
        /\ mem'["install"] = mem["install"] => StandIs'
  BY <1>1, <1>2 DEF StandIs, Ended
<1> QED
  BY <1>1, <1>3, <1>4, StandStep DEF DeployTypeOK

\* The update takes the lock, or is refused.
LEMMA GuardLockStep == ASSUME DeployIInv, GuardLock PROVE DeployIInv'
<1>0. pc["update"] = "guard"
  BY DEF GuardLock, At
<1>1. DeployTypeOK /\ StandIs
  BY <1>0, Updating
<1>2. CASE lock = None
  <2>1. /\ Goto("update", "preflight") /\ lock' = "update"
        /\ UNCHANGED <<scene, bundles, netbox, faults, releases, current, config, files, db, svc, timer, mem>>
    BY <1>2 DEF GuardLock, Host, disk
  <2>2. Off /\ Off' /\ netbox.up /\ pc["install"] = "idle" /\ \A s \in Services : svc'[s] # New
    BY <1>0, <1>1, <2>1 DEF StandIs, Off, Ended
  <2>3. Serves /\ svc'["sched"] = svc["sched"]
    BY <1>1, <2>1, SameStops, StopsServe
  <2>4. "preflight" \in Places("update") \ {"idle"}
    BY DEF Places
  <2> QED
    BY <1>0, <1>2, <2>1, <2>2, <2>3, <2>4, UpdateGoes
<1>3. CASE lock # None
  <2>1. /\ Goto("update", "failed") /\ Release("update")
        /\ UNCHANGED <<scene, bundles, netbox, faults, releases, current, config, files, db, svc, timer, mem>>
    BY <1>3 DEF GuardLock, Refuse, Host, disk
  <2> QED
    BY <1>0, <1>1, <2>1, UpdateEnds DEF DeployTypeOK
<1> QED
  BY <1>2, <1>3

\* NetBox is verified, and the lock released.
LEMMA GuardVerifyStep == ASSUME DeployIInv, GuardVerify PROVE DeployIInv'
<1>0. /\ pc["update"] = "check" /\ Goto("update", "install") /\ Release("update") /\ NewGuard
      /\ UNCHANGED <<scene, bundles, netbox, faults, releases, current, config, files, db, svc, timer, mem>>
  BY DEF GuardVerify, Step, At, Host, disk, NewGuard
<1>1. DeployTypeOK /\ StandIs
  BY <1>0, Updating
<1>2. Off /\ Off' /\ pc["install"] = "idle" /\ \A s \in Services : svc'[s] # New
  BY <1>0, <1>1 DEF StandIs, Off, Ended
<1>3. netbox.up
  BY <1>0 DEF NewGuard
<1>4. Serves /\ svc'["sched"] = svc["sched"]
  BY <1>0, <1>1, SameStops, StopsServe
<1>5. "install" \in Places("update") \ {"idle"} /\ "install" \notin Holding("update")
  BY DEF Places, Holding
<1> QED
  BY <1>0, <1>2, <1>3, <1>4, <1>5, UpdateGoes

\* The installer that the update called has ended.
LEMMA UpdateInstalledStep == ASSUME DeployIInv, UpdateInstalled PROVE DeployIInv'
<1>0. pc["update"] = "installing"
  BY DEF UpdateInstalled, At
<1>1. DeployTypeOK /\ StandIs
  BY <1>0, Updating
<1>2. CASE pc["install"] = "done" /\ current = New /\ ~timer /\ svc["sched"] = None
  <2>1. /\ Goto("update", "start")
        /\ UNCHANGED <<scene, bundles, netbox, faults, releases, current, config, files, db, svc, timer, lock, mem>>
    BY <1>2 DEF UpdateInstalled, Host, disk
  <2>2. Off /\ Off' /\ netbox.up /\ (mem["update"].window => NewGuard) /\ \A s \in Services : svc'[s] # New
    BY <1>0, <1>1, <2>1 DEF StandIs, Off, Ended
  <2>3. Serves /\ svc'["sched"] = svc["sched"]
    BY <1>1, <2>1, SameStops, StopsServe
  <2>4. "start" \in Places("update") \ {"idle"} /\ "start" \notin Holding("update")
    BY DEF Places, Holding
  <2> QED
    BY <1>0, <1>2, <2>1, <2>2, <2>3, <2>4, UpdateGoes
<1>3. CASE ~(pc["install"] = "done" /\ current = New /\ ~timer /\ svc["sched"] = None)
  <2>1. /\ Goto("update", "failed") /\ Release("update")
        /\ UNCHANGED <<scene, bundles, netbox, faults, releases, current, config, files, db, svc, timer, mem>>
    BY <1>3 DEF UpdateInstalled, Refuse, Host, disk
  <2> QED
    BY <1>0, <1>1, <2>1, UpdateEnds DEF DeployTypeOK
<1> QED
  BY <1>2, <1>3

\* The update starts the timer.
LEMMA UpdateStartStep == ASSUME DeployIInv, UpdateStart PROVE DeployIInv'
<1>0. /\ pc["update"] = "start" /\ Goto("update", "verify")
      /\ svc' = [s \in Services |-> IF s = "sched" THEN svc[s] ELSE current]
      /\ UNCHANGED <<scene, bundles, netbox, faults, releases, current, config, files, db, timer, lock, mem>>
  BY DEF UpdateStart, Step, At, Host, disk
<1>1. DeployTypeOK /\ StandIs
  BY <1>0, Updating
<1>2. pc["install"] = "done" /\ netbox.up /\ (mem["update"].window => NewGuard)
  BY <1>0, <1>1 DEF StandIs
<1>3. Serves /\ svc'["sched"] = svc["sched"]
  BY <1>0, <1>1 DEF Serves, DeployTypeOK, Services
<1>4. "verify" \in Places("update") \ {"idle"} /\ "verify" \notin Holding("update")
  BY DEF Places, Holding
<1> QED
  BY <1>0, <1>2, <1>3, <1>4, UpdateGoes

\* The update is verified.
LEMMA UpdateVerifyStep == ASSUME DeployIInv, UpdateVerify PROVE DeployIInv'
<1>0. /\ pc["update"] = "verify"
      /\ \A s \in Services \ {"sched"} : svc[s] = New
      /\ UNCHANGED <<scene, bundles, netbox, faults, releases, current, config, files, db, svc, timer, lock, mem>>
  BY DEF UpdateVerify, Step, At, Host, disk
<1>a. PICK l \in {"reconcile", "done"} : Goto("update", l)
  BY DEF UpdateVerify, Step
<1>1. DeployTypeOK /\ StandIs
  BY <1>0, Updating
<1>2. pc["install"] = "done" /\ netbox.up /\ (mem["update"].window => NewGuard)
  BY <1>0, <1>1 DEF StandIs
<1>3. Serves /\ svc'["sched"] = svc["sched"]
  BY <1>0, <1>1, SameStops, StopsServe
<1>4. l \in Places("update") \ {"idle"} /\ l \notin Holding("update") /\ l \in {"verify", "reconcile"} \cup Ended
  BY DEF Places, Holding, Ended
<1>5. \A s \in {"api", "worker"} : svc'[s] = New
  BY <1>0 DEF Services
<1> QED
  BY <1>0, <1>a, <1>2, <1>3, <1>4, <1>5, UpdateGoes

\* The recorded Selectel runs are reconciled with the new Guard, or the update is refused.
LEMMA UpdateReconcileStep == ASSUME DeployIInv, UpdateReconcile PROVE DeployIInv'
<1>a. /\ pc["update"] = "reconcile"
      /\ \/ Goto("update", "done") /\ UNCHANGED <<Host, disk, db, svc, timer, lock, mem>>
         \/ Refuse("update")
  BY DEF UpdateReconcile, At
<1>b. \/ Goto("update", "done") /\ UNCHANGED lock
      \/ Goto("update", "failed") /\ Release("update")
  BY <1>a DEF Refuse
<1>0. /\ pc["update"] = "reconcile"
      /\ UNCHANGED <<scene, bundles, netbox, faults, releases, current, config, files, db, svc, timer, mem>>
  BY <1>a DEF Refuse, Host, disk
<1>1. DeployTypeOK /\ StandIs
  BY <1>0, Updating
<1>2. CASE Goto("update", "failed") /\ Release("update")
  BY <1>0, <1>1, <1>2, UpdateEnds DEF DeployTypeOK
<1>3. CASE Goto("update", "done") /\ UNCHANGED lock
  <2>1. /\ pc["install"] = "done" /\ netbox.up /\ (mem["update"].window => NewGuard)
        /\ \A s \in {"api", "worker"} : svc'[s] = New
    BY <1>0, <1>1 DEF StandIs
  <2>2. Serves /\ svc'["sched"] = svc["sched"]
    BY <1>0, <1>1, SameStops, StopsServe
  <2>3. "done" \in Places("update") \ {"idle"} /\ "done" \notin Holding("update") /\ "done" \in Ended
    BY DEF Places, Holding, Ended
  <2> QED
    BY <1>0, <1>3, <2>1, <2>2, <2>3, UpdateGoes
<1> QED
  BY <1>b, <1>2, <1>3

\* The update pauses the runs.
LEMMA UpdatePauseStep == ASSUME DeployIInv, UpdatePause PROVE DeployIInv'
<1>0. /\ pc["update"] = "pause" /\ timer' = FALSE /\ svc' = [s \in Services |-> None]
      /\ UNCHANGED <<scene, bundles, netbox, faults, releases, current, config, files, db, mem>>
  BY DEF UpdatePause, At, Stopped, Host, disk
<1>1. DeployTypeOK /\ scene = "test" /\ StandIs /\ HostIs /\ InstallIs /\ ActorsIn /\ BundleSound
  BY <1>0, Updating DEF DeployIInv
<1>2. PICK l \in {"guard", "install"} :
         /\ l = "install" => ~mem["update"].window
         /\ pc' = [pc EXCEPT !["update"] = l, !["run"] = IF pc["run"] = "worker" THEN "idle" ELSE pc["run"]]
  BY DEF UpdatePause
<1>3. pc = [t \in Actors |-> pc[t]] /\ "update" \in Actors /\ "run" \in Actors /\ "install" \in Actors
  BY <1>1 DEF ActorsIn, Actors, Tools
<1>4. /\ pc' = [t \in Actors |-> pc'[t]] /\ pc'["update"] = l
      /\ pc'["run"] = IF pc["run"] = "worker" THEN "idle" ELSE pc["run"]
      /\ \A t \in Actors \ {"update", "run"} : pc'[t] = pc[t]
  BY <1>2, <1>3
<1>5. lock' = IF pc["run"] = "worker" THEN None ELSE lock
  BY DEF UpdatePause
<1>6. ActorsIn'
  <2>1. Crew' = Crew /\ "update" \in Crew
    BY <1>0, <1>1 DEF Crew
  <2>2. l \in Places("update") /\ l \notin Holding("update") /\ "idle" \in Places("run") /\ "idle" \notin Holding("run")
        /\ "worker" \in Holding("run")
    BY DEF Places, Holding
  <2>3. \A t \in Actors : pc'[t] \in Places(t) /\ (pc'[t] # "idle" => t \in Crew)
    BY <1>1, <1>4, <2>1, <2>2 DEF ActorsIn
  <2>4. \A t \in Actors : pc'[t] \in Holding(t) => pc[t] \in Holding(t) /\ (t = "run" => pc["run"] # "worker")
    BY <1>4, <2>2
  <2>5. \A t \in Actors : pc'[t] \in Holding(t) => lock = t /\ pc["run"] # "worker"
    BY <1>1, <1>3, <2>2, <2>4 DEF ActorsIn
  <2> QED
    BY <1>4, <1>5, <2>1, <2>3, <2>5 DEF ActorsIn
<1>7. Serves /\ Off'
  BY <1>0 DEF Serves, Links, Off
<1>8. DeployTypeOK'
  BY <1>0, <1>1, <1>5, <1>7 DEF DeployTypeOK, Serves
<1>9. HostIs' /\ InstallIs'
  <2>1. pc'["install"] = pc["install"]
    BY <1>3, <1>4
  <2>2. HostIs'
    BY <1>0, <1>1, <1>7, ServesHost
  <2> QED
    BY <1>0, <1>1, <2>1, <2>2, ServesInstall
<1>10. StandIs'
  <2>1. pc["install"] = "idle" /\ netbox.up /\ pc'["install"] = pc["install"]
    BY <1>0, <1>1, <1>3, <1>4 DEF StandIs, Ended
  <2>2. \A s \in Services : svc'[s] # New
    BY <1>0, DeploymentAssumption DEF Releases
  <2>3. svc'["sched"] = None
    BY <1>0 DEF Services
  <2> QED
    BY <1>0, <1>2, <1>4, <1>7, <2>1, <2>2, <2>3 DEF StandIs
<1>11. BundleSound'
  BY <1>0, <1>1 DEF BundleSound
<1> QED
  BY <1>0, <1>1, <1>6, <1>8, <1>9, <1>10, <1>11 DEF DeployIInv

\* The update calls the installer.
LEMMA UpdateInstallStep == ASSUME DeployIInv, UpdateInstall PROVE DeployIInv'
<1>0. /\ pc["update"] = "install"
      /\ UNCHANGED <<scene, bundles, netbox, faults, releases, current, config, files, db, svc, timer, lock>>
  BY DEF UpdateInstall, At, Host, disk
<1>1. DeployTypeOK /\ scene = "test" /\ StandIs /\ HostIs /\ InstallIs /\ ActorsIn /\ BundleSound
  BY <1>0, Updating DEF DeployIInv
<1>2. pc["install"] = "idle" /\ Off /\ netbox.up /\ (mem["update"].window => NewGuard)
  BY <1>0, <1>1 DEF StandIs, Ended
<1>3. pc = [t \in Actors |-> pc[t]] /\ "update" \in Actors /\ "run" \in Actors /\ "install" \in Actors
  BY <1>1 DEF ActorsIn, Actors, Tools
<1>4. /\ pc' = [t \in Actors |-> pc'[t]] /\ pc'["update"] = "installing" /\ pc'["install"] = "copy"
      /\ \A t \in Actors \ {"update", "install"} : pc'[t] = pc[t]
  BY <1>3 DEF UpdateInstall
<1>5. ActorsIn'
  <2>1. Crew' = Crew /\ "update" \in Crew /\ "install" \in Crew
    BY <1>0, <1>1 DEF Crew
  <2>2. /\ "installing" \in Places("update") /\ "installing" \notin Holding("update")
        /\ "copy" \in Places("install") /\ "copy" \notin Holding("install")
    BY DEF Places, Holding
  <2>3. \A t \in Actors : pc'[t] \in Places(t) /\ (pc'[t] # "idle" => t \in Crew)
    BY <1>1, <1>4, <2>1, <2>2 DEF ActorsIn
  <2>4. \A t \in Actors : pc'[t] \in Holding(t) => lock = t
    BY <1>1, <1>4, <2>2 DEF ActorsIn
  <2> QED
    BY <1>0, <1>4, <2>1, <2>3, <2>4 DEF ActorsIn
<1>6. PICK m : m = [NoMem EXCEPT !.start = FALSE]
  OBVIOUS
<1>7. m \in Memory(Passwords) /\ ~m.start
  BY <1>6 DEF NoMem, Memory, Passwords, Links
<1>8. Keep("install", m) /\ mem'["install"] = m /\ \A u \in Tools \ {"install"} : mem'[u] = mem[u]
  BY <1>1, <1>6, OtherMemory DEF UpdateInstall, Tools
<1>9. DeployTypeOK'
  <2>1. mem' = [u \in Tools |-> mem'[u]]
    BY <1>1, <1>8 DEF Keep, DeployTypeOK
  <2> QED
    BY <1>0, <1>1, <1>7, <1>8, <2>1 DEF DeployTypeOK, Tools
<1>10. HostIs'
  BY <1>0, <1>1 DEF HostIs, Granted
<1>11. InstallIs'
  BY <1>0, <1>1, <1>2, <1>4 DEF InstallIs, Snapped, Holding
<1>12. StandIs'
  <2>1. Off' /\ NewGuard' = NewGuard /\ mem'["update"] = mem["update"] /\ pc'["run"] = pc["run"]
    BY <1>0, <1>2, <1>3, <1>4, <1>8 DEF Off, NewGuard, Tools
  <2>2. \A s \in Services : svc'[s] # New
    BY <2>1, DeploymentAssumption DEF Releases, Off
  <2> QED
    BY <1>0, <1>1, <1>2, <1>4, <1>7, <1>8, <2>1, <2>2 DEF StandIs
<1>13. BundleSound'
  BY <1>0, <1>1 DEF BundleSound
<1> QED
  BY <1>0, <1>1, <1>5, <1>9, <1>10, <1>11, <1>12, <1>13 DEF DeployIInv

\* ---- Services and runs, beside the tools. ---------------------------------------
LEMMA BesideStep ==
  ASSUME DeployIInv, UNCHANGED <<scene, bundles, netbox, faults, releases, current, config, svc, timer, mem>>,
         files' \in Stores /\ files'.pw = files.pw /\ files'.env = files.env,
         /\ db' \in Dbs /\ db'.rev = db.rev /\ db'.granted = db.granted /\ db'.role = db.role /\ db'.dirty = db.dirty
         /\ db'.plan # db.plan => scene = "target" /\ db'.plan # "restored"
         /\ db'.session # db.session => scene = "target" /\ db'.session # "restored",
         ActorsIn', \A t \in Tools : pc'[t] = pc[t],
         UNCHANGED db \/ ~Off \/ (lock = None /\ scene \notin {"target", "test"}),
         pc'["run"] \in {pc["run"], "idle"} \/ ~Off \/ scene \notin {"target", "test"},
         lock' \in {None} \cup Actors
  PROVE  DeployIInv'
<1>1. DeployTypeOK /\ ActorsIn /\ BundleSound
  BY DEF DeployIInv
<1>2. DeployTypeOK'
  BY <1>1 DEF DeployTypeOK
<1>3. BundleSound'
  BY <1>1 DEF BundleSound
<1>4. ASSUME scene # "target" PROVE HostIs' /\ InstallIs'
  <2>1. Stops /\ DbCalm
    BY <1>1, <1>4, SameStops DEF DbCalm
  <2>2. Calm
    BY <2>1 DEF Calm
  <2>3. HostIs /\ InstallIs
    BY <1>4 DEF DeployIInv
  <2>4. HostIs'
    BY <2>2, <2>3, CalmHost
  <2>5. pc'["install"] = pc["install"]
    BY DEF Tools
  <2> QED
    BY <2>2, <2>3, <2>4, <2>5, CalmInstall
<1>5. ASSUME scene = "live" PROVE WindowIs'
  <2>1. WindowIs /\ Stops
    BY <1>1, <1>5, SameStops DEF DeployIInv
  <2>2. lock = None => pc["backup"] \notin Holding("backup")
    BY <1>1, DeploymentAssumption DEF ActorsIn, Actors, Tools
  <2>3. pc'["backup"] = pc["backup"]
    BY DEF Tools
  <2> QED
    BY <2>1, <2>2, <2>3, CalmWindow
<1>6. ASSUME scene = "test" PROVE StandIs'
  <2>1. StandIs
    BY <1>6 DEF DeployIInv
  <2>2. pc'["update"] = pc["update"] /\ pc'["install"] = pc["install"]
    BY DEF Tools
  <2>3. ~Off => netbox.up
    BY <2>1 DEF StandIs
  <2> QED
    BY <1>6, <2>1, <2>2, <2>3, CalmStand
<1>7. ASSUME scene = "target" PROVE TargetIs'
  <2>1. TargetIs
    BY <1>7 DEF DeployIInv
  <2>2. pc'["restore"] = pc["restore"]
    BY DEF Tools
  <2> QED
    BY <1>7, <2>1, <2>2, CalmTarget
<1> QED
  BY <1>2, <1>3, <1>4, <1>5, <1>6, <1>7 DEF DeployIInv

\* What the services write.
LEMMA ServiceSteps ==
  ASSUME DeployIInv, Work \/ \E s \in Sources : AddSecret(s) \/ AddSource(s)
  PROVE  DeployIInv'
<1>1. DeployTypeOK /\ ActorsIn /\ db \in Dbs /\ files \in Stores /\ lock \in {None} \cup Actors
  BY DEF DeployIInv, DeployTypeOK
<1>2. UNCHANGED <<scene, bundles, netbox, faults, releases, current, config, svc, timer, lock, pc, mem>> /\ ~Off
  BY DEF Work, AddSecret, AddSource, Host, disk, Off, Services
<1>3. ActorsIn'
  BY <1>1, <1>2, Rests
<1>4. ASSUME NEW s \in Sources, AddSecret(s) PROVE DeployIInv'
  <2>1. files' = [files EXCEPT !.src = files.src \cup {s}] /\ UNCHANGED db
    BY <1>4 DEF AddSecret
  <2>2. files' \in Stores /\ files'.pw = files.pw /\ files'.env = files.env
    BY <1>1, <2>1 DEF Stores
  <2> QED
    BY <1>1, <1>2, <1>3, <2>1, <2>2, BesideStep
<1>5. ASSUME NEW s \in Sources, AddSource(s) PROVE DeployIInv'
  <2>1. db' = [db EXCEPT !.sources = db.sources \cup {s}] /\ UNCHANGED files
    BY <1>5 DEF AddSource, disk
  <2>2. /\ db' \in Dbs /\ db'.rev = db.rev /\ db'.granted = db.granted /\ db'.role = db.role /\ db'.dirty = db.dirty
        /\ db'.plan = db.plan /\ db'.session = db.session
    BY <1>1, <2>1 DEF Dbs
  <2> QED
    BY <1>1, <1>2, <1>3, <2>1, <2>2, BesideStep
<1>6. CASE Work
  <2>1. scene = "target" /\ UNCHANGED files
    BY <1>6 DEF Work, disk
  <2>2. CASE db' = [db EXCEPT !.plan = "READY"]
    <3>1. /\ db' \in Dbs /\ db'.rev = db.rev /\ db'.granted = db.granted /\ db'.role = db.role /\ db'.dirty = db.dirty
          /\ db'.plan = "READY" /\ db'.session = db.session
      BY <1>1, <2>2 DEF Dbs
    <3> QED
      BY <1>1, <1>2, <1>3, <2>1, <3>1, BesideStep
  <2>3. CASE db' = [db EXCEPT !.session = "own"]
    <3>1. /\ db' \in Dbs /\ db'.rev = db.rev /\ db'.granted = db.granted /\ db'.role = db.role /\ db'.dirty = db.dirty
          /\ db'.plan = db.plan /\ db'.session = "own"
      BY <1>1, <2>3 DEF Dbs
    <3> QED
      BY <1>1, <1>2, <1>3, <2>1, <3>1, BesideStep
  <2> QED
    BY <1>6, <2>2, <2>3 DEF Work
<1> QED
  BY <1>4, <1>5, <1>6

\* A scheduled run takes the lock, and gives it back.
LEMMA RunStep == ASSUME DeployIInv, StartRun \/ EndRun PROVE DeployIInv'
<1>1. DeployTypeOK /\ ActorsIn /\ db \in Dbs /\ files \in Stores
  BY DEF DeployIInv, DeployTypeOK
<1>2. UNCHANGED <<scene, bundles, netbox, faults, releases, current, config, files, svc, timer, mem>>
  BY DEF StartRun, EndRun, Host, disk
<1>3. "run" \in Actors /\ "run" \in Crew /\ Tools \subseteq Actors \ {"run"}
  BY <1>1, AtWork DEF Actors, Tools
<1>4. CASE StartRun
  <2>1. PICK l \in {"timer", "worker"} : Goto("run", l) /\ (l = "timer" => timer) /\ (l = "worker" => svc["worker"] # None)
    BY <1>4 DEF StartRun, Step
  <2>2. lock = None /\ lock' = "run" /\ db' = [db EXCEPT !.runs = db.runs + 1]
    BY <1>4 DEF StartRun
  <2>3. l \in Places("run")
    BY <2>1 DEF Places
  <2>4. ActorsIn' /\ \A u \in Actors \ {"run"} : pc'[u] = pc[u]
    BY <1>1, <1>2, <1>3, <2>1, <2>2, <2>3, Moves
  <2>5. /\ db' \in Dbs /\ db'.rev = db.rev /\ db'.granted = db.granted /\ db'.role = db.role /\ db'.dirty = db.dirty
        /\ db'.plan = db.plan /\ db'.session = db.session
    BY <1>1, <2>2, SMTT(30) DEF Dbs
  <2>6. scene \in {"target", "test"} => ~timer
    BY DEF DeployIInv, StandIs, TargetIs
  <2>7. ~Off \/ scene \notin {"target", "test"}
    BY <2>1, <2>6 DEF Off, Services
  <2> QED
    BY <1>1, <1>2, <1>3, <2>2, <2>4, <2>5, <2>7, BesideStep
<1>5. CASE EndRun
  <2>1. Goto("run", "idle") /\ lock' = None /\ UNCHANGED db /\ pc["run"] # "idle"
    BY <1>5 DEF EndRun
  <2>2. lock = "run"
    BY <1>1, <1>3, <2>1 DEF ActorsIn, Places, Holding
  <2>3. "idle" \in Places("run") /\ "idle" \notin Holding("run") /\ Release("run")
    BY <2>1, <2>2 DEF Places, Holding, Release
  <2>4. ActorsIn' /\ pc'["run"] = "idle" /\ \A u \in Actors \ {"run"} : pc'[u] = pc[u]
    BY <1>1, <1>2, <1>3, <2>1, <2>3, Moves
  <2> QED
    BY <1>1, <1>2, <1>3, <2>1, <2>4, BesideStep
<1> QED
  BY <1>4, <1>5

\* ---- What goes wrong. ------------------------------------------------------------
LEMMA ToolEnds ==
  ASSUME DeployIInv, NEW t \in Tools, pc[t] \notin Ended \cup {"idle"}, NEW l \in {"failed", "killed"}, Goto(t, l), Release(t),
         UNCHANGED <<scene, bundles, netbox, releases, current, config, files, db, svc, timer, mem>>,
         faults' \in [raised : Nat, killed : Nat],
         IF l = "killed" THEN faults'.killed # 0 ELSE faults'.killed = faults.killed,
         l = "failed" /\ t = "install" => pc["install"] \notin {"publish", "activate", "rollback"}
  PROVE  DeployIInv'
<1>1. DeployTypeOK /\ Memorized(t) /\ Stops
  BY SameMemory, SameStops DEF DeployIInv
<1>2. pc[t] \notin {"idle", "done"} /\ (faults'.killed = 0 => faults.killed = 0)
  BY DEF Ended
<1>3. CASE t = "install"
  <2>1. scene = "test" => ~mem["install"].start
    BY <1>2, <1>3, Installing DEF Ended
  <2>2. pc["install"] \notin {"idle", "done"} /\ mem'["install"] \in Memory(Passwords)
    BY <1>1, <1>3 DEF Ended, DeployTypeOK
  <2> QED
    BY <1>1, <1>3, <2>1, <2>2, InstallerEnds
<1>4. CASE t = "backup"
  <2>1. pc["backup"] # "idle"
    BY <1>4
  <2>2. mem["backup"].stage \in Stagings /\ mem["backup"] \in Memory({None} \cup Stagings) /\ timer' \in BOOLEAN
    BY <2>1, BackingUp DEF DeployTypeOK
  <2> QED
    BY <1>1, <1>4, <2>1, <2>2, BackupEnds
<1>5. CASE t = "restore"
  <2>1. scene = "target"
    BY <1>5, RestoreWorks
  <2>2. ~timer /\ mem["restore"] \in Memory({None})
    BY <2>1, Restoring DEF TargetIs, DeployTypeOK
  <2>3. timer' = FALSE
    BY <1>1, <2>2 DEF DeployTypeOK
  <2> QED
    BY <1>1, <1>5, <2>1, <2>2, <2>3, RestoreOutside
<1>6. CASE t = "update"
  BY <1>6, UpdateEnds
<1> QED
  BY <1>3, <1>4, <1>5, <1>6 DEF Tools

\* Faults are counted.
LEMMA Counted == ASSUME DeployTypeOK
                 PROVE  /\ [faults EXCEPT !.raised = @ + 1] \in [raised : Nat, killed : Nat]
                        /\ [faults EXCEPT !.raised = @ + 1].killed = faults.killed
                        /\ [faults EXCEPT !.killed = @ + 1] \in [raised : Nat, killed : Nat]
                        /\ [faults EXCEPT !.killed = @ + 1].killed # 0
<1>1. faults \in [raised : Nat, killed : Nat]
  BY DEF DeployTypeOK
<1>2. faults.raised + 1 \in Nat /\ faults.killed + 1 \in Nat /\ faults.killed + 1 # 0
  BY <1>1, SMTT(30)
<1> QED
  BY <1>1, <1>2

\* A tool is killed.
LEMMA KillStep == ASSUME DeployIInv, NEW t \in Tools, Kill(t) PROVE DeployIInv'
<1>1. /\ pc[t] \notin Ended \cup {"idle"} /\ Goto(t, "killed") /\ Release(t)
      /\ UNCHANGED <<scene, bundles, netbox, releases, current, config, files, db, svc, timer, mem>>
      /\ faults' = [faults EXCEPT !.killed = @ + 1]
  BY DEF Kill, Busy, disk
<1>2. faults' \in [raised : Nat, killed : Nat] /\ faults'.killed # 0
  BY <1>1, Counted DEF DeployIInv
<1> QED
  BY <1>1, <1>2, ToolEnds

\* The lock is not given in time.
LEMMA TimeoutStep == ASSUME DeployIInv, NEW t \in Tools, Timeout(t) PROVE DeployIInv'
<1>1. /\ pc[t] = "lock" /\ Goto(t, "failed") /\ timer' = (timer \/ (t = "backup" /\ mem[t].was))
      /\ UNCHANGED <<scene, bundles, netbox, faults, releases, current, config, files, db, svc, lock>>
  BY DEF Timeout, At, Host, disk
<1>2. DeployTypeOK /\ ActorsIn /\ Stops
  BY <1>1, SameStops DEF DeployIInv
<1>3. PICK m : m = [mem[t] EXCEPT !.late = TRUE]
  OBVIOUS
<1>4. mem'[t] = m /\ Memorized(t)
  BY <1>2, <1>3, OtherMemory DEF Timeout
<1>5. faults' \in [raised : Nat, killed : Nat] /\ faults'.killed = faults.killed
  BY <1>1, <1>2 DEF DeployTypeOK
<1>6. CASE t = "install"
  <2>1. m \in Memory(Passwords) /\ m.start = mem["install"].start
    BY <1>2, <1>3, <1>6 DEF DeployTypeOK, Memory
  <2>2. timer' = timer
    BY <1>1, <1>2, <1>6 DEF DeployTypeOK
  <2>3. scene = "test" => ~mem["install"].start
    BY <1>1, <1>6, Installing
  <2> QED
    BY <1>1, <1>4, <1>5, <1>6, <2>1, <2>2, <2>3, InstallerEnds
<1>7. CASE t = "backup"
  <2>1. mem["backup"].stage \in Stagings
    BY <1>1, <1>7, BackingUp
  <2>2. m \in Memory({None} \cup Stagings) /\ m.stage = mem["backup"].stage
    BY <1>2, <1>3, <1>7 DEF DeployTypeOK, Memory
  <2>3. timer' \in BOOLEAN
    BY <1>1
  <2> QED
    BY <1>1, <1>2, <1>4, <1>5, <1>7, <2>1, <2>2, <2>3, BackupEnds
<1>8. CASE t = "restore"
  <2>1. scene = "target"
    BY <1>1, <1>8, RestoreWorks
  <2>2. ~timer
    BY <2>1, Restoring DEF TargetIs
  <2>3. m \in Memory({None})
    BY <1>2, <1>3, <1>8 DEF DeployTypeOK, Memory
  <2>4. timer' = FALSE
    BY <1>1, <1>8, <2>2
  <2> QED
    BY <1>1, <1>2, <1>4, <1>5, <1>8, <2>1, <2>3, <2>4, RestoreOutside
<1>9. CASE t = "update"
  BY <1>1, <1>2, <1>9 DEF ActorsIn, Actors, Tools, Places, Ended
<1> QED
  BY <1>6, <1>7, <1>8, <1>9 DEF Tools

\* A window that fails while it opens.
LEMMA WindowFailsStep ==
  ASSUME DeployIInv, WindowFails("backup", TRUE) \/ WindowFails("restore", FALSE),
         faults' \in [raised : Nat, killed : Nat], faults'.killed = faults.killed
  PROVE  DeployIInv'
<1>1. DeployTypeOK
  BY DEF DeployIInv
<1>2. /\ UNCHANGED <<scene, bundles, netbox, releases, current, config, files, db, mem>>
      /\ \E S \in SUBSET Services : svc' = [s \in Services |-> IF s \in S THEN None ELSE svc[s]]
  BY DEF WindowFails, disk, Stopped
<1>3. Stops
  BY <1>1, <1>2 DEF Stops, DeployTypeOK, Links
<1>4. CASE WindowFails("backup", TRUE)
  <2>1. /\ pc["backup"] # "idle" /\ Goto("backup", "failed") /\ Release("backup")
        /\ timer' = (timer \/ (TRUE /\ mem["backup"].was))
    BY <1>4 DEF WindowFails
  <2>2. timer' \in BOOLEAN
    BY <2>1
  <2>3. Memorized("backup") /\ mem'["backup"] \in Memory({None} \cup Stagings) /\ mem'["backup"].stage \in Stagings
    BY <1>1, <1>2, <2>1, SameMemory, BackingUp DEF DeployTypeOK, Tools
  <2> QED
    BY <1>2, <1>3, <2>1, <2>2, <2>3, BackupEnds
<1>5. CASE WindowFails("restore", FALSE)
  <2>1. /\ pc["restore"] # "idle" /\ Goto("restore", "failed") /\ Release("restore")
        /\ timer' = (timer \/ (FALSE /\ mem["restore"].was))
    BY <1>5 DEF WindowFails
  <2>2. scene = "target"
    BY <2>1, RestoreWorks
  <2>3. ~timer
    BY <2>2, Restoring DEF TargetIs
  <2>4. timer' = FALSE
    BY <2>1, <2>3
  <2>5. Memorized("restore") /\ mem'["restore"] \in Memory({None})
    BY <1>1, <1>2, SameMemory DEF DeployTypeOK, Tools
  <2> QED
    BY <1>2, <1>3, <2>1, <2>2, <2>4, <2>5, RestoreOutside
<1> QED
  BY <1>4, <1>5

\* A restart that fails while the window closes.
LEMMA RestartFailsStep ==
  ASSUME DeployIInv, RestartFails, faults' \in [raised : Nat, killed : Nat], faults'.killed = faults.killed
  PROVE  DeployIInv'
<1>0. pc["backup"] = "exit" /\ Goto("backup", "failed") /\ Release("backup")
  BY DEF RestartFails, Step, At
<1>1. DeployTypeOK /\ BundleSound /\ scene = "live" /\ mem["backup"].stage \in Stagings
  BY <1>0, BackingUp
<1>2. UNCHANGED <<scene, bundles, netbox, releases, current, config, files, db, timer, mem>>
  BY DEF RestartFails, disk
<1>3. Serves
  <2>1. PICK S \in SUBSET mem["backup"].up : svc' = [s \in Services |-> IF s \in S THEN current ELSE svc[s]]
    BY DEF RestartFails
  <2> QED
    BY <1>1, <2>1 DEF Serves, DeployTypeOK
<1>4. timer' \in BOOLEAN /\ mem'["backup"] \in Memory({None} \cup Stagings) /\ Memorized("backup")
  BY <1>1, <1>2, SameMemory DEF Tools, DeployTypeOK
<1>5. pc'["backup"] = "failed" => WindowIs'
  BY <1>1, <1>2 DEF WindowIs
<1>6. "failed" \in Places("backup") /\ "failed" \notin Holding("backup")
  BY DEF Places, Holding, Ended
<1>7. BundleSound'
  BY <1>1, <1>2 DEF BundleSound
<1> QED
  BY <1>0, <1>1, <1>2, <1>3, <1>4, <1>5, <1>6, <1>7, BackupStep

\* A command of a tool raises.
LEMMA RaiseStep == ASSUME DeployIInv, Raise PROVE DeployIInv'
<1>1. faults' \in [raised : Nat, killed : Nat] /\ faults'.killed = faults.killed
  BY Counted DEF Raise, DeployIInv
<1>2. ASSUME NEW t \in Tools, RaisePlain(t) PROVE DeployIInv'
  <2>1. /\ pc[t] \notin Ended \cup {"idle"} /\ Goto(t, "failed") /\ Release(t)
        /\ UNCHANGED <<scene, bundles, netbox, releases, current, config, files, db, svc, timer, mem>>
    BY <1>2 DEF RaisePlain, Busy, disk
  <2>2. t = "install" => pc["install"] \notin {"publish", "activate", "rollback"}
    BY <1>2, SMTT(30) DEF RaisePlain, Handled
  <2> QED
    BY <1>1, <2>1, <2>2, ToolEnds
<1>3. CASE WindowFails("backup", TRUE) \/ WindowFails("restore", FALSE)
  BY <1>1, <1>3, WindowFailsStep
<1>4. CASE RaiseActivation /\ UNCHANGED <<scene, bundles, netbox, releases, config, files, db, timer, lock>>
  BY <1>1, <1>4, HandlerStep
<1>5. CASE RaiseBackup /\ UNCHANGED <<scene, bundles, netbox, disk, db, svc, timer, lock>>
  BY <1>1, <1>5, BackupHandler DEF disk
<1>6. CASE RaiseRestore /\ Release("restore") /\ UNCHANGED <<scene, bundles, netbox, disk, timer, mem>>
  BY <1>1, <1>6, RestoreHandler DEF disk
<1>7. CASE RestartFails
  BY <1>1, <1>7, RestartFailsStep
<1> QED
  BY <1>2, <1>3, <1>4, <1>5, <1>6, <1>7 DEF Raise

\* Nothing happens.
LEMMA StutterStep == ASSUME DeployIInv, UNCHANGED vars PROVE DeployIInv'
<1>1. /\ UNCHANGED <<scene, bundles, netbox, faults, releases, current, config, files, db, svc, timer, lock, pc, mem>>
  BY DEF vars, disk
<1>2. DeployTypeOK /\ ActorsIn /\ db \in Dbs /\ files \in Stores /\ lock \in {None} \cup Actors
  BY DEF DeployIInv, DeployTypeOK
<1>3. ActorsIn'
  BY <1>1, <1>2, Rests
<1> QED
  BY <1>1, <1>2, <1>3, BesideStep

\* Every step keeps the invariant.
LEMMA DeployStep == ASSUME DeployIInv, [Next]_vars PROVE DeployIInv'
<1>1. CASE Install
  BY <1>1, PreflightStep, ReleaseStep, CopiedStep, LayoutStep, InstallTimerStep, InstallLockStep, RolesStep, MigrateStep,
     GrantStep, PublishStep, RepublishStep, ActivateStep, StartStep, EnableStep, QuiesceStep, RollbackStep DEF Install
<1>2. CASE Backup
  <2>1. ASSUME CloseWindow("backup", IF mem["backup"].stage \in bundles THEN "done" ELSE "failed") PROVE DeployIInv'
    <3>1. PICK l \in {"done", "failed"} : l = IF mem["backup"].stage \in bundles THEN "done" ELSE "failed"
      OBVIOUS
    <3> QED
      BY <2>1, <3>1, BackupCloses
  <2> QED
    BY <1>2, <2>1, BackupPreflightStep, BackupTimerStep, BackupLockStep, BackupOpens, TakeSteps, BundleStep DEF Backup
<1>3. CASE Restore
  BY <1>3, RestoreChecksStep, RestoreTimerStep, RestoreLockStep, RestoreOpens, RecheckStep, DropStep, LoadStep, StageStep,
     CompareStep, PasswordStep, StateStep, RestartStep DEF Restore
<1>4. CASE Update
  BY <1>4, UpdatePreflightStep, UpdatePauseStep, GuardLockStep, GuardSteps, GuardVerifyStep, UpdateInstallStep,
     UpdateInstalledStep, UpdateStartStep, UpdateVerifyStep, UpdateReconcileStep DEF Update
<1> QED
  BY <1>1, <1>2, <1>3, <1>4, RaiseStep, RerunStep, ServiceSteps, RunStep, TimeoutStep, KillStep, StutterStep
     DEF Next, ToolStep

\* ---- The first state. ------------------------------------------------------------
LEMMA FirstMemory == ASSUME Init PROVE /\ mem = [t \in Tools |-> mem[t]]
                                       /\ mem["install"] \in Memory(Passwords) /\ mem["backup"] \in Memory({None} \cup Stagings)
                                       /\ mem["restore"] \in Memory({None}) /\ mem["update"] \in Memory({None})
<1>1. mem = [t \in Tools |-> NoMem]
  BY DEF Init
<1>2. NoMem \in Memory(Passwords) /\ NoMem \in Memory({None} \cup Stagings) /\ NoMem \in Memory({None})
  BY DEF NoMem, Memory, Passwords, Links
<1> QED
  BY <1>1, <1>2 DEF Tools

\* At first nobody is at work.
LEMMA FirstActors ==
  ASSUME Init
  PROVE  /\ ActorsIn /\ \A t \in Tools : pc[t] = "idle"
         /\ pc["run"] = IF scene = "test" THEN "timer" ELSE "idle"
         /\ lock \in {None} \cup Actors
<1>1. pc = [[t \in Actors |-> "idle"] EXCEPT !["run"] = IF scene = "test" THEN "timer" ELSE "idle"]
  BY DEF Init, Actors
<1>2. "run" \in Actors /\ Tools \subseteq Actors \ {"run"} /\ Actors \subseteq Tools \cup {"run"}
  BY DEF Actors, Tools
<1>3. /\ pc = [t \in Actors |-> pc[t]] /\ pc["run"] = IF scene = "test" THEN "timer" ELSE "idle"
      /\ \A t \in Actors \ {"run"} : pc[t] = "idle"
  BY <1>1, <1>2
<1>4. lock = IF pc["run"] = "idle" THEN None ELSE "run"
  BY DEF Init
<1>5. \A t \in Actors : "idle" \in Places(t) /\ "idle" \notin Holding(t)
  BY DEF Actors, Tools, Places, Holding
<1>6. "timer" \in Places("run") /\ (scene = "test" => "run" \in Crew)
  BY DEF Places, Crew
<1> QED
  BY <1>2, <1>3, <1>4, <1>5, <1>6 DEF ActorsIn

\* The bundle that a target gets is sound.
LEMMA FirstBundle ==
  ASSUME NEW r \in BundleRevisions
  PROVE  LET b == Archived(r) IN
         /\ b.meta = metadata(b.dump) /\ b.refs = b.dump.sources /\ b.refs \subseteq b.files.src
         /\ b.dump \in Dbs /\ b.files \in Stores
<1>1. PICK S : S = {CHOOSE s \in Sources : TRUE}
  OBVIOUS
<1>2. S \in SUBSET Sources /\ r \in Nat
  BY <1>1, DeploymentAssumption
<1>3. PICK d : d = [NoDb EXCEPT !.rev = r, !.granted = r, !.sources = S, !.runs = 1, !.plan = "READY", !.session = "own",
                                !.boot = "b", !.role = "b"]
  OBVIOUS
<1>4. d = [rev |-> r, granted |-> r, sources |-> S, runs |-> 1, plan |-> "READY", session |-> "own", boot |-> "b", role |-> "b",
           dirty |-> FALSE]
  BY <1>3 DEF NoDb
<1>5. d \in Dbs /\ d.sources = S
  BY <1>2, <1>4 DEF Dbs, Passwords
<1>6. PICK e \in SUBSET Groups : e = IF r < HeadRev THEN {"broker"} ELSE Groups
  BY DEF Groups
<1>7. Archived(r) = [meta |-> metadata(d), dump |-> d, refs |-> d.sources, dsn |-> "b",
                     files |-> [pw |-> "b", src |-> d.sources, env |-> e]]
  BY <1>1, <1>3, <1>6 DEF Archived
<1>8. [pw |-> "b", src |-> d.sources, env |-> e] \in Stores
  BY <1>2, <1>5, <1>6 DEF Stores, Passwords
<1> QED
  BY <1>5, <1>7, <1>8, SMTT(30)

\* The bundles at first.
LEMMA FirstBundles ==
  ASSUME Init
  PROVE  /\ BundleSound
         /\ scene = "target" => bundles # {} /\ \A b \in bundles : b.dump \in Dbs /\ b.files \in Stores
<1>1. CASE scene = "target"
  <2>1. PICK r \in BundleRevisions : bundles = {Archived(r)}
    BY <1>1 DEF Init
  <2> QED
    BY <2>1, FirstBundle DEF BundleSound
<1>2. CASE scene # "target"
  BY <1>2 DEF Init, BundleSound
<1> QED
  BY <1>1, <1>2

\* The host of each scene.
LEMMA FirstHost ==
  ASSUME Init
  PROVE  /\ scene \in {"live", "first", "target", "test", "none"}
         /\ releases \in [Releases -> {"absent", "partial", "whole"}] /\ current \in Links
         /\ config \in Configs /\ files \in Stores
         /\ current = CASE scene = "first" -> None [] scene = "target" -> New [] OTHER -> Old
         /\ current # None => releases[current] = "whole"
         /\ \A f \in Files : config.by[f] = current
         /\ IF scene = "first" THEN config.dsn = None /\ files.pw = None
            ELSE config.dsn = "t" /\ files.pw = "t" /\ files.env = Groups
         /\ svc \in [Services -> Links] /\ \A s \in Services : svc[s] \in {None, current}
         /\ scene = "test" => svc["sched"] = None
<1>1. scene \in {"live", "first", "target", "test", "none"}
  BY DeploymentAssumption DEF Init
<1>2. current = CASE scene = "first" -> None [] scene = "target" -> New [] OTHER -> Old
  BY DEF Init
<1>3. current = IF scene = "first" THEN None ELSE IF scene = "target" THEN New ELSE Old
  BY <1>2
<1>4. current \in Links
  BY <1>3 DEF Links, Releases
<1>5. releases = [r \in Releases |-> CASE r = Old -> IF scene = "first" THEN "absent" ELSE "whole"
                                       [] r = New -> IF scene = "target" THEN "whole" ELSE "absent"]
  BY DEF Init
<1>6. /\ releases[Old] = IF scene = "first" THEN "absent" ELSE "whole"
      /\ releases[New] = IF scene = "target" THEN "whole" ELSE "absent"
      /\ releases = [r \in Releases |-> releases[r]]
  BY <1>5, DeploymentAssumption DEF Releases
<1>7. releases \in [Releases -> {"absent", "partial", "whole"}] /\ (current # None => releases[current] = "whole")
  BY <1>3, <1>6 DEF Releases
<1>8. PICK w \in {None, "t"} : w = IF scene = "first" THEN None ELSE "t"
  OBVIOUS
<1>9. config = [by |-> [f \in Files |-> current], dsn |-> w]
  BY <1>8 DEF Init
<1>10. config \in Configs /\ config.dsn = w /\ \A f \in Files : config.by[f] = current
  BY <1>4, <1>9 DEF Configs, Passwords
<1>11. PICK S \in SUBSET Sources : S = IF scene \in {"live", "test"} THEN LiveDb.sources ELSE {}
  <2>1. LiveDb.sources \in SUBSET Sources
    BY DeploymentAssumption DEF LiveDb, NoDb
  <2> QED
    BY <2>1
<1>12. PICK e \in SUBSET Groups : e = IF scene = "first" THEN {} ELSE Groups
  OBVIOUS
<1>13. files = [pw |-> w, src |-> S, env |-> e]
  BY <1>8, <1>11, <1>12 DEF Init
<1>14. files \in Stores /\ files.pw = w /\ files.env = e
  BY <1>8, <1>13 DEF Stores, Passwords
<1>15. svc = [s \in Services |-> IF s = "sched" /\ scene = "test" THEN None ELSE current]
  BY DEF Init
<1>16. svc \in [Services -> Links] /\ (\A s \in Services : svc[s] \in {None, current}) /\ (scene = "test" => svc["sched"] = None)
  BY <1>4, <1>15 DEF Links, Services
<1> QED
  BY <1>1, <1>2, <1>4, <1>7, <1>8, <1>10, <1>12, <1>14, <1>16

\* The database at first.
LEMMA FirstDb ==
  ASSUME Init
  PROVE  /\ db \in Dbs /\ ~db.dirty /\ db.plan = "none" /\ db.session = "none"
         /\ scene = "target" => db.rev = HeadRev /\ db.granted = HeadRev
         /\ scene # "first" => db.role = "t" /\ db.rev >= HeadRev - 1 /\ db.granted >= HeadRev - 1
<1>0. HeadRev \in Nat /\ HeadRev - 1 \in Nat
  BY DeploymentAssumption, SMTT(30)
<1>1. CASE scene = "first"
  <2>1. db = NoDb
    BY <1>1 DEF Init
  <2> QED
    BY <1>1, <2>1 DEF NoDb, Dbs, Passwords
<1>2. CASE scene = "target"
  <2>1. db = [NoDb EXCEPT !.rev = HeadRev, !.granted = HeadRev, !.role = "t"]
    BY <1>2 DEF Init
  <2>2. db = [rev |-> HeadRev, granted |-> HeadRev, sources |-> {}, runs |-> 0, plan |-> "none", session |-> "none",
              boot |-> "t", role |-> "t", dirty |-> FALSE]
    BY <2>1 DEF NoDb
  <2> QED
    BY <1>0, <1>2, <2>2, SMTT(30) DEF Dbs, Passwords
<1>3. CASE scene \notin {"first", "target"}
  <2>1. db = LiveDb
    BY <1>3 DEF Init
  <2>2. PICK S : S = {CHOOSE s \in Sources : TRUE}
    OBVIOUS
  <2>3. S \in SUBSET Sources
    BY <2>2, DeploymentAssumption
  <2>4. db = [rev |-> HeadRev - 1, granted |-> HeadRev - 1, sources |-> S, runs |-> 0, plan |-> "none", session |-> "none",
              boot |-> "t", role |-> "t", dirty |-> FALSE]
    BY <2>1, <2>2 DEF LiveDb, NoDb
  <2> QED
    BY <1>0, <1>3, <2>3, <2>4, SMTT(30) DEF Dbs, Passwords
<1> QED
  BY <1>1, <1>2, <1>3

\* The invariant holds at first.
LEMMA DeployInit == Init => DeployIInv
<1> SUFFICES ASSUME Init PROVE DeployIInv
  OBVIOUS
<1>1. /\ timer = (scene = "live") /\ netbox = [up |-> TRUE, image |-> Old, rev |-> Old]
      /\ faults = [raised |-> 0, killed |-> 0] /\ faults.killed = 0 /\ netbox.up
  BY DEF Init
<1>2. netbox \in [up : BOOLEAN, image : Releases, rev : Releases] /\ faults \in [raised : Nat, killed : Nat] /\ timer \in BOOLEAN
  BY <1>1 DEF Releases
<1>3. DeployTypeOK
  BY <1>2, FirstMemory, FirstActors, FirstHost, FirstDb DEF DeployTypeOK
<1>4. \A s \in Services : svc[s] = New => current = New
  BY FirstHost, DeploymentAssumption DEF Releases
<1>5. current = New => scene = "target"
  BY FirstHost, DeploymentAssumption DEF Releases
<1>6. current = Old => scene # "first"
  BY FirstHost, DeploymentAssumption DEF Releases
<1>a. /\ scene = "first" => current = None
      /\ scene = "target" => current = New
  BY FirstHost
<1>7. scene # "target" => HostIs
  <2>1. scene = "first" => \A s \in Services : svc[s] = None
    BY <1>a, FirstHost
  <2>2. \A f \in Files : config.by[f] = New => scene = "target"
    BY <1>5, FirstHost
  <2> QED
    BY <1>4, <1>5, <1>6, <1>a, <2>1, <2>2, FirstHost, FirstDb, DeploymentAssumption DEF HostIs, Releases
<1>8. pc["install"] = "idle" /\ pc["backup"] = "idle" /\ pc["restore"] = "idle" /\ pc["update"] = "idle"
  BY FirstActors DEF Tools
<1>9. InstallIs
  BY <1>8, FirstHost DEF InstallIs, Snapped, Holding
<1>10. WindowIs
  BY <1>8 DEF WindowIs
<1>11. scene = "test" => StandIs
  BY <1>1, <1>4, <1>5, <1>8, FirstHost DEF StandIs
<1>12. scene = "target" => TargetIs
  BY <1>1, <1>8, <1>a, FirstHost, FirstDb, FirstBundles, FirstActors, DeploymentAssumption DEF TargetIs, Holding, Loading, Granted, Releases
<1> QED
  BY <1>3, <1>7, <1>9, <1>10, <1>11, <1>12, FirstActors, FirstBundles DEF DeployIInv

\* ---- What the invariant gives. ---------------------------------------------------
\* The inductive invariant of the tools holds, whatever the releases, the tables and the faults are.
THEOREM DeployInvariant == Spec => []DeployIInv
<1>1. DeployIInv /\ [Next]_vars => DeployIInv'
  BY DeployStep
<1> QED
  BY <1>1, DeployInit, PTL DEF Spec

\* The invariant of a host gives what is served.
LEMMA HostServed == ASSUME DeployIInv, scene # "target" PROVE ActivationWhole /\ RuntimeMatches /\ NoOldAuthority /\ RestoredIdle
<1>1. DeployTypeOK /\ HostIs /\ InstallIs
  BY DEF DeployIInv
<1>2. ActivationWhole
  BY <1>1 DEF ActivationWhole, HostIs, InstallIs, At
<1>3. ASSUME NEW s \in Services, svc[s] # None PROVE db.rev >= Need(svc[s]) /\ db.granted >= Need(svc[s])
  <2>1. svc[s] \in Releases
    BY <1>1, <1>3 DEF DeployTypeOK, Links
  <2>2. CASE svc[s] = New
    <3>1. Granted /\ Need(svc[s]) = HeadRev /\ HeadRev \in Nat
      BY <1>1, <2>2, DeploymentAssumption DEF HostIs, Need
    <3> QED
      BY <3>1, SMTT(30) DEF Granted
  <2>3. CASE svc[s] = Old
    <3>1. Need(svc[s]) = HeadRev - 1
      BY <2>3, DeploymentAssumption DEF Need
    <3>2. db.rev >= HeadRev - 1 /\ db.granted >= HeadRev - 1
      BY <1>1, <2>3 DEF HostIs
    <3> QED
      BY <3>1, <3>2
  <2> QED
    BY <2>1, <2>2, <2>3 DEF Releases
<1>4. RuntimeMatches
  BY <1>1, <1>3 DEF RuntimeMatches, HostIs
<1>5. NoOldAuthority /\ RestoredIdle
  BY <1>1 DEF NoOldAuthority, RestoredIdle, HostIs
<1> QED
  BY <1>2, <1>4, <1>5

\* The invariant of a target gives what is served.
LEMMA TargetServed == ASSUME DeployIInv, scene = "target" PROVE ActivationWhole /\ RuntimeMatches /\ NoOldAuthority /\ RestoredIdle
<1>1. DeployTypeOK /\ TargetIs /\ pc["install"] = "idle"
  BY AtWork DEF DeployIInv
<1>2. ActivationWhole
  BY <1>1 DEF ActivationWhole, TargetIs, At
<1>3. ASSUME NEW s \in Services, svc[s] # None PROVE db.rev >= Need(svc[s]) /\ db.granted >= Need(svc[s])
  <2>1. db.rev = HeadRev /\ db.granted = HeadRev
    BY <1>1, <1>3 DEF TargetIs, Off, Granted
  <2>2. Need(svc[s]) \in {HeadRev, HeadRev - 1} /\ HeadRev \in Nat
    BY DeploymentAssumption DEF Need
  <2> QED
    BY <2>1, <2>2, SMTT(30)
<1>4. RuntimeMatches
  BY <1>1, <1>3 DEF RuntimeMatches, TargetIs, Off
<1>5. NoOldAuthority /\ RestoredIdle
  BY <1>1 DEF NoOldAuthority, RestoredIdle, TargetIs, Off
<1> QED
  BY <1>2, <1>4, <1>5

\* Whatever runs, runs on a whole release, configured for it, with the schema, grants and secrets it needs, and with no
\* authority or half-restored data of another host, whichever tool raises or is killed (install, restore, update).
THEOREM Served == Spec => []ServedSound
<1>1. DeployIInv => ServedSound
  <2> SUFFICES ASSUME DeployIInv PROVE ServedSound
    OBVIOUS
  <2>1. ActivationWhole /\ RuntimeMatches /\ NoOldAuthority /\ RestoredIdle
    BY HostServed, TargetServed
  <2>2. UpdateInOrder
    <3> SUFFICES ASSUME scene = "test" PROVE UpdateInOrder
      BY DEF UpdateInOrder
    <3>1. StandIs /\ InstallIs
      BY DEF DeployIInv
    <3>2. pc["install"] = "done" => current = New
      BY <3>1 DEF InstallIs
    <3> QED
      BY <3>1, <3>2 DEF UpdateInOrder, StandIs, NewGuard, At
  <2> QED
    BY <2>1, <2>2 DEF ServedSound
<1> QED
  BY <1>1, DeployInvariant, PTL

\* A published bundle describes one moment, and has every credential that its sources refer to (create_backup).
THEOREM Bundles == Spec => []BundleSound
<1>1. DeployIInv => BundleSound
  BY DEF DeployIInv
<1> QED
  BY <1>1, DeployInvariant, PTL

\* How a backup at work ends, other than killed: it closes its window, gives the lock up, or a command raises.
LEMMA LeavesWindow ==
  ASSUME ActorsIn, Next, Busy("backup"), pc'["backup"] \in {"done", "failed"}, DeployTypeOK
  PROVE  \/ CloseWindow("backup", IF mem["backup"].stage \in bundles THEN "done" ELSE "failed")
         \/ Timeout("backup")
         \/ faults' # faults /\ (RaisePlain("backup") \/ WindowFails("backup", TRUE) \/ RestartFails)
<1>1. pc = [t \in Actors |-> pc[t]] /\ "backup" \in Actors /\ pc["backup"] \notin {"idle", "done", "failed"}
  BY DEF ActorsIn, Actors, Tools, Busy, Ended
<1>2. ASSUME NEW t \in Actors \ {"backup"}, NEW l, Goto(t, l) PROVE FALSE
  BY <1>1, <1>2 DEF Goto
<1>3. ASSUME NEW l, Goto("backup", l) PROVE pc'["backup"] = l
  BY <1>1, <1>3 DEF Goto
<1>4. {"install", "restore", "update", "run"} \subseteq Actors \ {"backup"}
  BY DEF Actors, Tools
<1>5. ~Install
  <2>1. ~(InstallPreflight \/ InstallRelease \/ Copied \/ PrepareLayout \/ stop_timer("install", "timer", "lock"))
    BY <1>2, <1>4 DEF InstallPreflight, Start, InstallRelease, Copied, PrepareLayout, stop_timer, Step
  <2>2. ~(shared_apply_lock("install", "lock", "roles") \/ DbRoles \/ MigrateStack \/ GrantStack \/ Republished \/ StartRuntime)
    BY <1>2, <1>4 DEF shared_apply_lock, DbRoles, MigrateStack, GrantStack, Republished, StartRuntime, Step
  <2>3. ~(PublishConfiguration \/ ActivateRelease \/ EnableTimer \/ QuiesceRuntime \/ RollbackActivation)
    BY <1>2, <1>4 DEF PublishConfiguration, ActivateRelease, EnableTimer, QuiesceRuntime, RollbackActivation, Step
  <2> QED
    BY <2>1, <2>2, <2>3 DEF Install
<1>6. ~Restore
  <2>1. ~Refuse("restore")
    BY <1>2, <1>4 DEF Refuse
  <2>2. ~(RestoreChecks \/ RestoreRefused \/ stop_timer("restore", "timer", "lock")
          \/ shared_apply_lock("restore", "lock", "pause") \/ OpenWindow("restore", "recheck"))
    BY <1>2, <1>4, <2>1 DEF RestoreChecks, RestoreRefused, Start, stop_timer, shared_apply_lock, OpenWindow, Step
  <2>3. ~(Recheck \/ DropFoundation \/ LoadDump \/ RestoreStage)
    BY <1>2, <1>4, <2>1 DEF Recheck, DropFoundation, LoadDump, RestoreStage, Step
  <2>4. ~(Compare \/ RestoreRoles \/ PublishRestored \/ StartRestored)
    BY <1>2, <1>4, <2>1 DEF Compare, RestoreRoles, PublishRestored, StartRestored, Step
  <2> QED
    BY <2>2, <2>3, <2>4 DEF Restore
<1>7. ~Update
  <2>1. ~Refuse("update")
    BY <1>2, <1>4 DEF Refuse
  <2>2. ~UpdatePause /\ ~UpdateInstall
    BY <1>1 DEF UpdatePause, UpdateInstall, Actors, Tools
  <2>3. ASSUME NEW p, NEW l, NEW n, GuardStep(p, l, n) PROVE FALSE
    BY <1>2, <1>4, <2>3 DEF GuardStep, Step
  <2>4. ~(GuardPreflight \/ GuardBuild \/ GuardPause \/ GuardTag \/ GuardMigrate \/ GuardUp)
    BY <2>3 DEF GuardPreflight, GuardBuild, GuardPause, GuardTag, GuardMigrate, GuardUp
  <2>5. ~(UpdatePreflight \/ GuardLock \/ GuardVerify \/ UpdateInstalled \/ UpdateStart \/ UpdateVerify \/ UpdateReconcile)
    BY <1>2, <1>4, <2>1 DEF UpdatePreflight, Start, GuardLock, GuardVerify, UpdateInstalled, UpdateStart, UpdateVerify, UpdateReconcile, Step
  <2> QED
    BY <2>2, <2>4, <2>5 DEF Update
<1>8. ASSUME Raise PROVE faults' # faults /\ (RaisePlain("backup") \/ WindowFails("backup", TRUE) \/ RestartFails)
  <2>1. faults \in [raised : Nat, killed : Nat]
    BY DEF DeployTypeOK
  <2>2. faults.raised \in Nat /\ faults.raised + 1 # faults.raised
    BY <2>1, SMTT(30)
  <2>3. [faults EXCEPT !.raised = @ + 1].raised = faults.raised + 1
    BY <2>1
  <2>4. faults' # faults
    BY <1>8, <2>2, <2>3 DEF Raise
  <2>5. \A t \in Tools : RaisePlain(t) => t = "backup"
    BY <1>2 DEF RaisePlain, Actors
  <2>6. ~WindowFails("restore", FALSE) /\ ~RaiseActivation /\ ~RaiseRestore
    BY <1>2, <1>4 DEF WindowFails, RaiseActivation, RaiseRestore, Step
  <2>7. ~RaiseBackup
    BY <1>3 DEF RaiseBackup
  <2> QED
    BY <1>8, <2>4, <2>5, <2>6, <2>7 DEF Raise
<1>9. ~(Rerun \/ Work \/ StartRun \/ EndRun)
  <2>1. ~(Rerun \/ StartRun \/ EndRun)
    BY <1>2, <1>4 DEF Rerun, StartRun, EndRun, Step
  <2> QED
    BY <1>1, <2>1 DEF Work
<1>10. \A s \in Sources : ~AddSecret(s) /\ ~AddSource(s)
  BY <1>1 DEF AddSecret, AddSource
<1>11. \A t \in Tools : (Timeout(t) => t = "backup") /\ ~Kill(t)
  <2> TAKE t \in Tools
  <2>1. t \in Actors
    BY DEF Actors
  <2>2. CASE t # "backup"
    BY <1>2, <2>1, <2>2 DEF Timeout, Kill
  <2>3. CASE t = "backup"
    BY <1>3, <2>3 DEF Kill
  <2> QED
    BY <2>2, <2>3
<1>12. ASSUME Backup PROVE CloseWindow("backup", IF mem["backup"].stage \in bundles THEN "done" ELSE "failed")
  <2>1. ~(stop_timer("backup", "timer", "lock") \/ shared_apply_lock("backup", "lock", "pause")
          \/ OpenWindow("backup", "metadata") \/ PublishBundle)
    BY <1>3 DEF stop_timer, shared_apply_lock, OpenWindow, PublishBundle, Step
  <2>2. ~(TakeMetadata \/ TakeDump \/ TakeArchive \/ TakeReferences)
    BY <1>3 DEF TakeMetadata, TakeDump, TakeArchive, TakeReferences, Stage, Step
  <2>3. ~BackupPreflight
    BY <1>1 DEF BackupPreflight, Start, At
  <2> QED
    BY <1>12, <2>1, <2>2, <2>3 DEF Backup
<1> QED
  BY <1>5, <1>6, <1>7, <1>8, <1>9, <1>10, <1>11, <1>12 DEF Next, ToolStep

\* Only the drop of a target makes a database a half-restored one.
LEMMA MakesDirty ==
  ASSUME DeployIInv, Next, ~db.dirty, db'.dirty
  PROVE  DropFoundation
<1>1. DeployTypeOK /\ ActorsIn /\ db \in Dbs
  BY DEF DeployIInv, DeployTypeOK
<1>2. ~UNCHANGED db
  OBVIOUS
<1>3. ~Install
  <2>1. ~(InstallPreflight \/ InstallRelease \/ Copied \/ PrepareLayout \/ stop_timer("install", "timer", "lock")
          \/ shared_apply_lock("install", "lock", "roles") \/ Republished \/ StartRuntime)
    BY <1>2 DEF InstallPreflight, InstallRelease, Copied, PrepareLayout, stop_timer, shared_apply_lock, Republished, StartRuntime
  <2>2. ~(PublishConfiguration \/ ActivateRelease \/ EnableTimer \/ QuiesceRuntime \/ RollbackActivation)
    BY <1>2 DEF PublishConfiguration, ActivateRelease, EnableTimer, QuiesceRuntime, RollbackActivation
  <2>3. ~(DbRoles \/ MigrateStack \/ GrantStack)
    BY <1>1 DEF DbRoles, MigrateStack, GrantStack, bootstrap_roles, migrate, apply_grants, Dbs
  <2> QED
    BY <2>1, <2>2, <2>3 DEF Install
<1>4. ~Backup
  BY <1>2 DEF Backup, BackupPreflight, stop_timer, shared_apply_lock, OpenWindow, TakeMetadata, TakeDump, TakeArchive,
     TakeReferences, Stage, PublishBundle, CloseWindow
<1>5. ~Update
  BY <1>2 DEF Update, UpdatePreflight, UpdatePause, GuardLock, Refuse, GuardPreflight, GuardBuild, GuardPause, GuardTag,
     GuardMigrate, GuardUp, GuardStep, GuardVerify, UpdateInstall, UpdateInstalled, UpdateStart, UpdateVerify, UpdateReconcile
<1>6. pc["restore"] \notin {"load"} \cup Loading
  <2>1. pc["restore"] \in {"load"} \cup Loading => pc["restore"] # "idle"
    BY DEF Loading
  <2> QED
    BY <2>1, RestoreWorks, Restoring DEF TargetIs
<1>7. ASSUME Restore PROVE DropFoundation
  <2>1. ~(RestoreChecks \/ RestoreRefused \/ stop_timer("restore", "timer", "lock")
          \/ shared_apply_lock("restore", "lock", "pause") \/ OpenWindow("restore", "recheck") \/ Recheck)
    BY <1>2 DEF RestoreChecks, RestoreRefused, Refuse, stop_timer, shared_apply_lock, OpenWindow, Recheck
  <2>2. ~(LoadDump \/ RestoreStage \/ Compare \/ RestoreRoles \/ PublishRestored \/ StartRestored)
    BY <1>6 DEF LoadDump, RestoreStage, Compare, RestoreRoles, PublishRestored, StartRestored, Step, At, Loading
  <2> QED
    BY <1>7, <2>1, <2>2 DEF Restore
<1>8. ~Raise
  <2>1. ~RaiseRestore
    BY <1>6, <1>2 DEF RaiseRestore, Step, At, Loading
  <2> QED
    BY <1>2, <2>1 DEF Raise, RaisePlain, WindowFails, RestartFails
<1>9. ~(Rerun \/ EndRun) /\ \A s \in Sources : ~AddSecret(s)
  BY <1>2 DEF Rerun, EndRun, AddSecret
<1>10. ~(Work \/ StartRun) /\ \A s \in Sources : ~AddSource(s)
  BY <1>1 DEF Work, StartRun, AddSource, Dbs
<1>11. \A t \in Tools : ~Timeout(t) /\ ~Kill(t)
  BY <1>2 DEF Timeout, Kill
<1> QED
  BY <1>3, <1>4, <1>5, <1>7, <1>8, <1>9, <1>10, <1>11 DEF Next, ToolStep

\* A maintenance window gives back what it took. A backup ends well only with its bundle published and its services and timer
\* running again; it puts them back when it fails too, unless the restart itself fails; and no restore drops a source, a run,
\* a plan or a session (Maintenance.__enter__, __exit__, validate_empty_target).
THEOREM Maintained == Spec => MaintenanceKeeps
<1>1. ASSUME DeployIInv, [Next]_vars, Busy("backup"), pc'["backup"] \in {"done", "failed"}
      PROVE  LET b == mem["backup"]
                 restartFailed == At("backup", "exit") /\ faults' # faults IN
             /\ pc'["backup"] = "done" => b.stage \in bundles /\ ~restartFailed
             /\ ~restartFailed => /\ b.was => timer'
                                  /\ b.window => \A s \in b.up : svc'[s] = current
  <2>1. DeployTypeOK /\ ActorsIn /\ WindowIs /\ pc["backup"] \in Places("backup")
    <3>1. DeployTypeOK /\ ActorsIn /\ pc["backup"] # "idle"
      BY <1>1 DEF DeployIInv, Busy
    <3> QED
      BY <1>1, <3>1, BackingUp DEF ActorsIn, Actors, Tools
  <2>2. Next
    <3>1. pc["backup"] \notin {"done", "failed"}
      BY <1>1 DEF Busy, Ended
    <3> QED
      BY <1>1, <3>1 DEF vars
  <2>3. ASSUME NEW l, Goto("backup", l) PROVE pc'["backup"] = l
    BY <2>1, <2>3 DEF Goto, ActorsIn, Actors, Tools
  <2>4. CASE CloseWindow("backup", IF mem["backup"].stage \in bundles THEN "done" ELSE "failed")
    <3>1. /\ svc' = [s \in Services |-> IF s \in mem["backup"].up THEN current ELSE svc[s]]
          /\ timer' = (timer \/ mem["backup"].was) /\ faults' = faults
      BY <2>4 DEF CloseWindow, Host
    <3>2. mem["backup"].up \subseteq Services
      BY <2>1 DEF DeployTypeOK, Memory
    <3>3. pc'["backup"] = "done" => mem["backup"].stage \in bundles
      BY <2>3, <2>4 DEF CloseWindow, Step
    <3> QED
      BY <3>1, <3>2, <3>3
  <2>5. CASE Timeout("backup")
    <3>1. pc["backup"] = "lock" /\ pc'["backup"] = "failed" /\ timer' = (timer \/ mem["backup"].was)
      BY <2>3, <2>5 DEF Timeout, At
    <3>2. ~mem["backup"].window
      BY <2>1, <3>1 DEF WindowIs
    <3> QED
      BY <3>1, <3>2
  <2>6. CASE RaisePlain("backup")
    <3>1. pc["backup"] = "timer"
      BY <2>1, <2>6 DEF RaisePlain, Busy, Handled, Places, Ended
    <3>2. pc'["backup"] = "failed"
      BY <2>3, <2>6 DEF RaisePlain
    <3>3. ~mem["backup"].window /\ ~mem["backup"].was
      BY <2>1, <3>1 DEF WindowIs
    <3> QED
      BY <3>2, <3>3
  <2>7. CASE WindowFails("backup", TRUE)
    <3>1. pc["backup"] \in {"lock", "pause"} /\ pc'["backup"] = "failed" /\ timer' = (timer \/ (TRUE /\ mem["backup"].was))
      BY <2>3, <2>7 DEF WindowFails
    <3>2. ~mem["backup"].window
      BY <2>1, <3>1 DEF WindowIs
    <3> QED
      BY <3>1, <3>2
  <2>8. CASE RestartFails /\ faults' # faults
    <3>1. At("backup", "exit") /\ pc'["backup"] = "failed"
      BY <2>3, <2>8 DEF RestartFails, Step
    <3> QED
      BY <2>8, <3>1
  <2> QED
    BY <1>1, <2>1, <2>2, <2>4, <2>5, <2>6, <2>7, <2>8, LeavesWindow
<1>2. ASSUME DeployIInv, [Next]_vars
      PROVE  ~db.dirty /\ db'.dirty => db.sources = {} /\ db.runs = 0 /\ db.plan = "none" /\ db.session = "none"
  <2> SUFFICES ASSUME ~db.dirty, db'.dirty PROVE EmptyTarget
    BY DEF EmptyTarget
  <2>1. Next
    BY <1>2 DEF vars
  <2>2. pc["restore"] = "drop"
    BY <1>2, <2>1, MakesDirty DEF DropFoundation, At
  <2>3. TargetIs
    BY <1>2, <2>2, RestoreWorks, Restoring
  <2> QED
    BY <2>2, <2>3 DEF TargetIs
<1>3. Spec => BackupPutsBack
  BY <1>1, DeployInvariant, PTL DEF Spec, BackupPutsBack
<1>4. Spec => NothingOverwritten
  BY <1>2, DeployInvariant, PTL DEF Spec, NothingOverwritten
<1> QED
  BY <1>3, <1>4 DEF MaintenanceKeeps
=============================================================================
