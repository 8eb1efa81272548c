------------------------ MODULE ServerStartupProofs ------------------------
(***************************************************************************)
(* Proofs about ServerStartup, for any applications and events, any orders  *)
(* of the configuration files and any number of faults.                     *)
(*                                                                          *)
(* The hooks run one after the other, in the order of the files: what is    *)
(* registered is a beginning of it, the events of a hook are done when the  *)
(* next one begins, and an engine is only stopped on the way out.           *)
(***************************************************************************)
EXTENDS ServerStartup, Integers, SequenceTheorems, WellFoundedInduction, TLAPS

USE DEF choice, job, apis

-----------------------------------------------------------------------------
(* The inductive invariant                                                  *)

Out == {"stopping", "ended", "aborted"}
Prefix == 1 .. Len(engines)

\* What becomes of an event in the hook of its host.
Hooked(t) ==
    IF t[3].type = "SETUP" THEN ran[<<t[1], t[2], t[3].plug_mode>>] > 0
    ELSE t \in routes /\ (Background(t[3]) => t[1] = t[2])

\* A web server does not start an application that is its own plugin.
OwnPlugin(a) == {a} \cap ToSet(conf[a].plugins)

\* The streams and services of every application run, if any are to run.
StreamsStarted == tasks = IF streams THEN UNION {BackgroundOf(a) : a \in ToSet(order)} ELSE {}

\* The hooks run in the order of the applications.
InOrder ==
    /\ Len(engines) <= Len(order) /\ \A i \in Prefix : engines[i] = order[i]
    /\ at = "files" => engines = <<>> /\ app = order[1]
    /\ at \in {"start", "connected"} => Len(engines) < Len(order) /\ app = order[Len(engines) + 1]
    /\ at = "setup" => engines # <<>> /\ app = order[Len(engines)]
    /\ at \in {"ready", "owner"} => Len(engines) = Len(order)
    /\ at = "ready" => launcher = "web" /\ StreamsStarted
    /\ at = "owner" => launcher = "job" /\ owner \in ToSet(order)
    /\ launcher = "job" /\ at \in {"start", "connected", "setup"} => owner \in ToSet(order)
    /\ launcher = "job" => groups = {}
    /\ launcher = "web" => /\ at = "connected" => OwnPlugin(app) = {}
                           /\ \A i \in Prefix : OwnPlugin(order[i]) = {}

\* What an application owes to its hook has been done, or is still to do.
HooksDone ==
    at \notin Out =>
        /\ \A i \in Prefix : \A t \in HookEvents(order[i]) :
              Hooked(t) \/ (at = "setup" /\ i = Len(engines) /\ t \in todo)
        /\ at = "owner" => /\ todo \subseteq OwnersPlugins
                            /\ \A t \in OwnersPlugins : Hooked(t) \/ t \in todo

Stops ==
    /\ \A a \in Apps : engine[a] = "stopped" => at \in Out /\ clients[a] = 0
    /\ at = "ended" /\ launcher = "job" => \A a \in Apps : engine[a] # "started"

Inv == TypeOK /\ InOrder /\ HooksDone /\ Stops

-----------------------------------------------------------------------------
(* Lemmas                                                                   *)

LEMMA ConfigTypes ==
    ASSUME TypeOK
    PROVE  /\ order \in Seq(Apps) /\ Len(order) \in Nat \ {0} /\ IsInjective(order)
           /\ ToSet(order) = {order[i] : i \in 1..Len(order)}
           /\ \A a \in Apps : /\ ToSet(conf[a].plugins) \subseteq Apps
                             /\ conf[a].events \subseteq Events /\ conf[a].connections \in Nat
<1>1. order \in Seq(Apps) /\ order # <<>> /\ IsInjective(order)
    BY StartupAssumption DEF TypeOK
<1>2. DOMAIN order = 1..Len(order) /\ Len(order) \in Nat \ {0}
    BY <1>1, EmptySeq
<1>3. ASSUME NEW a \in Apps
      PROVE  /\ ToSet(conf[a].plugins) \subseteq Apps
             /\ conf[a].events \subseteq Events /\ conf[a].connections \in Nat
    <2>1. conf[a].plugins \in Seq(Apps) /\ conf[a].events \subseteq Events
        BY ApiAssumption DEF TypeOK
    <2>2. conf[a].connections \in Nat
        BY StartupAssumption DEF TypeOK
    <2>3. ToSet(conf[a].plugins) \subseteq Apps
        BY <2>1 DEF ToSet
    <2> QED
        BY <2>1, <2>2, <2>3
<1> QED
    BY <1>1, <1>2, <1>3 DEF ToSet

\* What is offered, and so what a hook handles, are events of applications.
LEMMA HookTypes ==
    ASSUME TypeOK
    PROVE  /\ \A a \in Apps : HookEvents(a) \subseteq Apps \X Apps \X Events
           /\ owner \in Apps => OwnersPlugins \subseteq Apps \X Apps \X Events
           /\ \A t \in Apps \X Apps \X Events : <<t[1], t[2], t[3].plug_mode>> \in Pairs
<1>1. ASSUME NEW h \in Apps
      PROVE  Offered(conf, h) \subseteq Apps \X Apps \X Events
    <2>1. \A a \in Apps : conf[a].events \subseteq Events
        BY ConfigTypes
    <2>2. {<<h, h, e>> : e \in {e \in conf[h].events : e.plug_mode = "STANDALONE"}}
             \subseteq Apps \X Apps \X Events
        BY <2>1
    <2>3. ASSUME NEW p \in ToSet(conf[h].plugins)
          PROVE  {<<h, p, e>> : e \in {e \in conf[p].events : e.plug_mode = "ON_APP"}}
                    \subseteq Apps \X Apps \X Events
        <3>1. p \in Apps
            BY ConfigTypes
        <3> QED
            BY <2>1, <3>1
    <2> QED
        BY <2>2, <2>3 DEF Offered
<1>2. ASSUME NEW a \in Apps
      PROVE  HookEvents(a) \subseteq Apps \X Apps \X Events
    <2>1. conf[a].events \subseteq Events
        BY ConfigTypes
    <2>2. {<<a, a, e>> : e \in {e \in conf[a].events : e.type = "SETUP"}} \subseteq Apps \X Apps \X Events
        BY <2>1
    <2> QED
        BY <1>1, <2>2 DEF HookEvents
<1>3. owner \in Apps => OwnersPlugins \subseteq Apps \X Apps \X Events
    BY <1>1 DEF OwnersPlugins
<1>4. ASSUME NEW t \in Apps \X Apps \X Events
      PROVE  <<t[1], t[2], t[3].plug_mode>> \in Pairs
    <2>1. t[1] \in Apps /\ t[2] \in Apps /\ t[3] \in Events
        OBVIOUS
    <2>2. t[3].plug_mode \in PlugModes
        BY <2>1, ApiAssumption
    <2> QED
        BY <2>1, <2>2 DEF Pairs
<1> QED
    BY <1>2, <1>3, <1>4

\* The engines that are registered are applications of the process.
LEMMA Engines ==
    ASSUME TypeOK, InOrder
    PROVE  /\ engines \in Seq(Apps) /\ DOMAIN engines = Prefix /\ Len(engines) \in Nat
           /\ ToSet(engines) = {order[i] : i \in Prefix}
           /\ \A a \in Apps : Registered(a) <=> \E i \in Prefix : engines[i] = a
<1>1. engines \in Seq(Apps) /\ DOMAIN engines = Prefix /\ Len(engines) \in Nat
    BY DEF TypeOK, Prefix
<1>2. ToSet(engines) = {engines[i] : i \in Prefix}
    BY <1>1 DEF ToSet
<1> QED
    BY <1>1, <1>2 DEF InOrder, Registered

\* What was done in a hook stays done.
LEMMA HookedStays ==
    ASSUME NEW t, Hooked(t), routes \subseteq routes',
           t[3].type = "SETUP" => ran'[<<t[1], t[2], t[3].plug_mode>>]
                                     >= ran[<<t[1], t[2], t[3].plug_mode>>],
           t[3].type = "SETUP" => /\ ran[<<t[1], t[2], t[3].plug_mode>>] \in Nat
                                  /\ ran'[<<t[1], t[2], t[3].plug_mode>>] \in Nat
    PROVE  Hooked(t)'
BY DEF Hooked, Background

-----------------------------------------------------------------------------
(* Every step keeps the invariant                                           *)

\* What the hooks have done depends on nothing but these.
LEMMA HooksAside ==
    ASSUME TypeOK, InOrder, HooksDone, UNCHANGED <<conf, order, launcher, groups, owner>>,
           UNCHANGED <<engines, routes, ran>>,
           at' \in Out \/ (UNCHANGED <<at, todo>>)
    PROVE  HooksDone'
<1>1. CASE at' \in Out
    BY <1>1 DEF HooksDone
<1>2. CASE at' \notin Out
    <2>1. UNCHANGED <<at, todo>>
        BY <1>2
    <2>2. \A t : Hooked(t)' = Hooked(t)
        BY DEF Hooked, Background
    <2>3. (\A a : HookEvents(a)' = HookEvents(a)) /\ OwnersPlugins' = OwnersPlugins
        BY DEF HookEvents, OwnersPlugins, Offered, Enabled
    <2> QED
        BY <2>1, <2>2, <2>3 DEF HooksDone, Prefix, Out
<1> QED
    BY <1>1, <1>2

\* Before the first hook nothing is registered.
LEMMA FilesKeep ==
    ASSUME Inv, CreateFile \/ UpdateFile \/ Prepare \/ SelectOwner
    PROVE  Inv'
<1> USE DEF Inv
<1>1. /\ at = "files" /\ at' \in {"files", "start", "ended"}
      /\ UNCHANGED <<choice, result, app, todo, engine, engines, clients, routes, ran, tasks, worked, faults>>
      /\ writes' \in 0..MaxWrites /\ fresh' \in BOOLEAN
      /\ owner' = owner \/ owner' \in ToSet(order)
      /\ launcher = "job" /\ at' = "start" => owner' \in ToSet(order)
    <2>1. writes \in 0..MaxWrites /\ MaxWrites \in Nat /\ fresh \in BOOLEAN
        BY StartupAssumption DEF TypeOK
    <2>2. CASE CreateFile
        BY <2>1, <2>2 DEF CreateFile
    <2>3. CASE UpdateFile
        BY <2>1, <2>3 DEF UpdateFile
    <2>4. CASE Prepare
        BY <2>1, <2>4 DEF Prepare
    <2>5. CASE SelectOwner
        <3> DEFINE matches == {a \in ToSet(order) : request \in conf[a].events}
        <3>1. /\ at = "files"
              /\ \/ at' = "start" /\ owner' \in matches
                 \/ at' = "ended" /\ UNCHANGED owner
              /\ UNCHANGED <<choice, result, apis, app, todo, engine, engines, clients, routes, ran, tasks, worked, faults>>
            BY <2>5 DEF SelectOwner
        <3> QED
            BY <2>1, <3>1
    <2> QED
        BY <2>2, <2>3, <2>4, <2>5
<1>2. owner' \in Apps \cup {NoApp}
    <2>1. ToSet(order) \subseteq Apps
        BY ConfigTypes
    <2> QED
        BY <1>1, <2>1 DEF TypeOK
<1>3. engines = <<>> /\ app = order[1] /\ Len(engines) = 0
    BY <1>1 DEF InOrder
<1>4. \A a \in Apps : ~Registered(a)
    BY <1>3, Engines DEF Prefix
<1>5. TypeOK'
    BY <1>1, <1>2 DEF TypeOK, Places, Registered
<1>6. InOrder'
    BY <1>1, <1>2, <1>3, ConfigTypes DEF InOrder, Prefix, OwnPlugin
<1>7. HooksDone'
    BY <1>1, <1>3 DEF HooksDone, Prefix
<1>8. Stops'
    BY <1>1, <1>4 DEF Stops, TypeOK, Out
<1> QED
    BY <1>5, <1>6, <1>7, <1>8

\* A hook that raises leads out.
LEMMA FailsOut ==
    ASSUME Fail
    PROVE  at' \in Out /\ at' \in Places /\ (at' = "ended" => launcher # "job")
BY DEF Fail, Out, Places

\* Nothing of the invariant is disturbed on the way out.
LEMMA OutKeeps ==
    ASSUME Inv, UNCHANGED <<choice, job, apis, app, engine, engines, ran, tasks, worked>>,
           at' \in Out, at' \in Places, at' = "ended" /\ launcher = "job" => \A a \in Apps : engine[a] # "started",
           faults' \in 0..MaxFaults, todo' \subseteq Apps \X Apps \X Events,
           routes' = routes, clients' \in [Apps -> Nat],
           \A a \in Apps : engine[a] = "stopped" => clients'[a] = clients[a]
    PROVE  Inv'
<1> USE DEF Inv
<1>1. TypeOK'
    BY DEF TypeOK, Registered
<1>2. InOrder'
    BY DEF InOrder, Prefix, Out, OwnPlugin
<1>3. HooksDone'
    BY DEF HooksDone
<1>4. Stops'
    BY DEF Stops, Out
<1> QED
    BY <1>1, <1>2, <1>3, <1>4

LEMMA StartKeeps ==
    ASSUME Inv, StartApp
    PROVE  Inv'
<1> USE DEF Inv
<1>1. /\ at = "start" /\ faults' \in 0..MaxFaults
      /\ UNCHANGED <<choice, job, apis, app, todo, engines, clients, routes, ran, tasks, worked>>
      /\ \/ at' = "connected" /\ engine' = [engine EXCEPT ![app] = IF HasStreams(app) THEN "connected" ELSE "new"]
         \/ Fail /\ UNCHANGED engine
      /\ at' = "connected" => PluginsFound(app)
    <2>1. faults \in 0..MaxFaults /\ MaxFaults \in Nat
        BY StartupAssumption DEF TypeOK
    <2> QED
        BY <2>1 DEF StartApp, Fault, Fail
<1>2. /\ app \in Apps /\ app = order[Len(engines) + 1]
      /\ engine \in [Apps -> {"none", "new", "connected", "started", "stopped"}]
    BY <1>1 DEF InOrder, TypeOK
<1>3. ~Registered(app)
    <2>1. \A i \in Prefix : order[i] # order[Len(engines) + 1]
        <3>1. Len(engines) < Len(order) /\ Len(engines) \in Nat
            BY <1>1, Engines DEF InOrder
        <3>2. \A i, j \in 1..Len(order) : order[i] = order[j] => i = j
            BY ConfigTypes DEF IsInjective
        <3> QED
            BY <3>1, <3>2, ConfigTypes DEF Prefix
    <2> QED
        BY <1>2, <2>1, Engines DEF InOrder
<1>4. CASE at' = "connected" /\ engine' = [engine EXCEPT ![app] = IF HasStreams(app) THEN "connected" ELSE "new"]
    <2>1. /\ engine' \in [Apps -> {"none", "new", "connected", "started", "stopped"}]
          /\ engine'[app] \in {"new", "connected"}
          /\ \A a \in Apps \ {app} : engine'[a] = engine[a]
        BY <1>2, <1>4
    <2>2. engine[app] \notin {"started", "stopped"}
        BY <1>2, <1>3 DEF TypeOK
    <2>3. \A a \in Apps : Registered(a)' = (engine'[a] \in {"started", "stopped"})
        BY <1>1, <1>3, <2>1 DEF TypeOK, Registered
    <2>4. \A t \in tasks' : engine'[t[1]] = "started"
        BY <1>1, <1>2, <1>4, <2>2 DEF TypeOK
    <2>5. TypeOK'
        BY <1>1, <1>4, <2>1, <2>3, <2>4 DEF TypeOK, Places
    <2>6. InOrder'
        <3>1. launcher = "web" => OwnPlugin(app) = {}
            BY <1>1, <1>3, <1>4 DEF PluginsFound, OwnPlugin
        <3>2. \A a : OwnPlugin(a)' = OwnPlugin(a)
            BY <1>1 DEF OwnPlugin
        <3> QED
            BY <1>1, <1>4, <3>1, <3>2 DEF InOrder, Prefix, OwnPlugin
    <2>7. \A t : Hooked(t)' = Hooked(t)
        BY <1>1 DEF Hooked, Background
    <2>8. \A a : HookEvents(a)' = HookEvents(a)
        BY <1>1 DEF HookEvents, Offered, Enabled
    <2>9. HooksDone'
        BY <1>1, <1>4, <2>7, <2>8 DEF HooksDone, Prefix, Out
    <2>10. Stops'
        BY <1>1, <1>4, <2>1 DEF Stops, Out
    <2> QED
        BY <2>5, <2>6, <2>9, <2>10
<1>5. CASE Fail /\ UNCHANGED engine
    <2>1. at' \in Out /\ at' \in Places /\ (at' = "ended" => launcher # "job")
        BY <1>5, FailsOut
    <2>2. todo \subseteq Apps \X Apps \X Events /\ clients \in [Apps -> Nat]
        BY DEF TypeOK
    <2> QED
        BY <1>1, <1>5, <2>1, <2>2, OutKeeps
<1> QED
    BY <1>1, <1>4, <1>5

\* A registered application comes after those before it, with its hook to do.
LEMMA FinishKeeps ==
    ASSUME Inv, FinishStart
    PROVE  Inv'
<1> USE DEF Inv
<1>1. /\ at = "connected" /\ faults' \in 0..MaxFaults
      /\ UNCHANGED <<choice, job, apis, app, routes, ran, tasks, worked>>
      /\ \/ /\ engine' = [engine EXCEPT ![app] = "started"]
            /\ engines' = Append(engines, app)
            /\ at' = "setup" /\ todo' = HookEvents(app)
         \/ Fail /\ UNCHANGED <<engine, engines, todo>>
      /\ \/ UNCHANGED clients
         \/ \E n \in Nat : clients' = [clients EXCEPT ![app] = n]
    <2>1. faults \in 0..MaxFaults /\ MaxFaults \in Nat
        BY StartupAssumption DEF TypeOK
    <2>2. conf[app].connections \in Nat
        BY ConfigTypes DEF TypeOK
    <2>3. \A n \in 0..conf[app].connections : n \in Nat
        BY <2>2
    <2>4. RegisterAppConnections(app, TRUE) => \E n \in Nat : clients' = [clients EXCEPT ![app] = n]
        BY <2>2 DEF RegisterAppConnections
    <2>5. RegisterAppConnections(app, FALSE) => \E n \in Nat : clients' = [clients EXCEPT ![app] = n]
        BY <2>3 DEF RegisterAppConnections
    <2>6. CASE RegisterAppConnections(app, TRUE) /\ UNCHANGED faults
                 /\ engine' = [engine EXCEPT ![app] = "started"] /\ engines' = Append(engines, app)
                 /\ at' = "setup" /\ todo' = HookEvents(app)
        BY <2>1, <2>4, <2>6 DEF FinishStart
    <2>7. CASE Fail /\ UNCHANGED <<engine, engines, clients, todo, faults>>
        BY <2>1, <2>7 DEF FinishStart
    <2>8. CASE Fault /\ Fail /\ RegisterAppConnections(app, FALSE) /\ UNCHANGED <<engine, engines, todo>>
        <3>1. faults' \in 0..MaxFaults
            BY <2>1, <2>8 DEF Fault
        <3>2. \E n \in Nat : clients' = [clients EXCEPT ![app] = n]
            BY <2>5, <2>8, Zenon
        <3> QED
            BY <2>8, <3>1, <3>2 DEF FinishStart
    <2> QED
        BY <2>6, <2>7, <2>8, Zenon DEF FinishStart
<1>2. /\ app \in Apps /\ app = order[Len(engines) + 1] /\ Len(engines) < Len(order)
      /\ engines \in Seq(Apps) /\ Len(engines) \in Nat /\ order \in Seq(Apps) /\ Len(order) \in Nat
      /\ DOMAIN engines = Prefix
    BY <1>1, Engines, ConfigTypes DEF InOrder, TypeOK
<1>3. /\ ~Registered(app)
      /\ \A i \in Prefix : engines[i] # app
    <2>1. \A i, j \in 1..Len(order) : order[i] = order[j] => i = j
        BY ConfigTypes DEF IsInjective
    <2>2. \A i \in Prefix : i \in 1..Len(order) /\ i # Len(engines) + 1 /\ Len(engines) + 1 \in 1..Len(order)
        BY <1>2 DEF Prefix
    <2>3. \A i \in Prefix : engines[i] # app
        BY <1>2, <2>1, <2>2 DEF InOrder
    <2> QED
        BY <1>2, <2>3, Engines
<1>4. clients' \in [Apps -> Nat] /\ \A a \in Apps \ {app} : clients'[a] = clients[a]
    <2>1. clients \in [Apps -> Nat]
        BY DEF TypeOK
    <2> QED
        BY <1>1, <1>2, <2>1
<1>5. CASE Fail /\ UNCHANGED <<engine, engines, todo>>
    <2>1. at' \in Out /\ at' \in Places /\ (at' = "ended" => launcher # "job")
        BY <1>5, FailsOut
    <2>2. engine[app] # "stopped"
        BY <1>2, <1>3 DEF TypeOK
    <2>3. todo \subseteq Apps \X Apps \X Events
        BY DEF TypeOK
    <2> QED
        BY <1>1, <1>4, <1>5, <2>1, <2>2, <2>3, OutKeeps
<1>6. CASE /\ engine' = [engine EXCEPT ![app] = "started"]
           /\ engines' = Append(engines, app)
           /\ at' = "setup" /\ todo' = HookEvents(app)
    <2>1. /\ engines' \in Seq(Apps) /\ Len(engines') = Len(engines) + 1
          /\ \A i \in Prefix : engines'[i] = engines[i]
          /\ engines'[Len(engines) + 1] = app /\ DOMAIN engines' = 1..(Len(engines) + 1)
        BY <1>2, <1>6 DEF Prefix
    <2>2. 1..(Len(engines) + 1) = Prefix \cup {Len(engines) + 1}
        BY <1>2 DEF Prefix
    <2>3. /\ engine' \in [Apps -> {"none", "new", "connected", "started", "stopped"}]
          /\ engine'[app] = "started" /\ \A a \in Apps \ {app} : engine'[a] = engine[a]
        BY <1>2, <1>6 DEF TypeOK
    <2>4. IsInjective(engines')
        <3>1. \A i, j \in Prefix : engines[i] = engines[j] => i = j
            BY <1>2 DEF TypeOK, IsInjective
        <3>2. \A i, j \in Prefix \cup {Len(engines) + 1} : engines'[i] = engines'[j] => i = j
            BY <1>3, <2>1, <3>1
        <3> QED
            BY <2>1, <2>2, <3>2 DEF IsInjective
    <2>5. \A a \in Apps : Registered(a)' = (engine'[a] \in {"started", "stopped"})
        <3>1. ToSet(engines') = ToSet(engines) \cup {app}
            BY <1>2, <2>1, <2>2 DEF ToSet
        <3> QED
            BY <2>3, <3>1 DEF TypeOK, Registered
    <2>6. \A t \in tasks' : engine'[t[1]] = "started"
        BY <1>1, <1>2, <1>6 DEF TypeOK
    <2>7. todo' \subseteq Apps \X Apps \X Events
        BY <1>2, <1>6, HookTypes
    <2>8. TypeOK'
        BY <1>1, <1>4, <1>6, <2>1, <2>3, <2>4, <2>5, <2>6, <2>7 DEF TypeOK, Places
    <2>9. InOrder'
        <3>1. Len(engines') <= Len(order) /\ engines' # <<>>
            BY <1>2, <2>1
        <3>2. \A i \in Prefix' : engines'[i] = order[i]
            BY <1>2, <2>1, <2>2 DEF InOrder, Prefix
        <3>3. app = order[Len(engines')]
            BY <1>2, <2>1
        <3>4. launcher = "web" => \A i \in Prefix' : OwnPlugin(order[i]) = {}
            BY <1>1, <1>2, <2>1, <2>2 DEF InOrder, Prefix
        <3>5. \A a : OwnPlugin(a)' = OwnPlugin(a)
            BY <1>1 DEF OwnPlugin
        <3> QED
            BY <1>1, <1>6, <3>1, <3>2, <3>3, <3>4, <3>5 DEF InOrder
    <2>10. HooksDone'
        <3>1. \A t : Hooked(t)' = Hooked(t)
            BY <1>1 DEF Hooked, Background
        <3>2. \A a : HookEvents(a)' = HookEvents(a)
            BY <1>1 DEF HookEvents, Offered, Enabled
        <3>3. \A i \in Prefix : \A t \in HookEvents(order[i]) : Hooked(t)
            BY <1>1 DEF HooksDone, Out
        <3>4. ASSUME NEW i \in Prefix', NEW t \in HookEvents(order[i])
              PROVE  Hooked(t) \/ (i = Len(engines') /\ t \in todo')
            <4>1. CASE i \in Prefix
                BY <3>3, <4>1
            <4>2. CASE i = Len(engines) + 1
                BY <1>2, <1>6, <2>1, <4>2
            <4> QED
                BY <2>1, <2>2, <4>1, <4>2 DEF Prefix
        <3> QED
            BY <1>1, <1>6, <3>1, <3>2, <3>4 DEF HooksDone
    <2>11. Stops'
        BY <1>1, <1>4, <1>6, <2>3 DEF Stops, Out
    <2> QED
        BY <2>8, <2>9, <2>10, <2>11
<1> QED
    BY <1>1, <1>5, <1>6

\* An event is taken from the hook: executed once more, or given a route.
LEMMA TakenKeeps ==
    ASSUME Inv, UNCHANGED <<choice, job, apis, at, app, engine, engines, clients, tasks, worked, faults>>,
           at \in {"setup", "owner"}, NEW t \in todo, todo' = todo \ {t},
           \/ /\ t[3].type = "SETUP" /\ Run(t[1], t[2], t[3])
              /\ UNCHANGED routes
           \/ /\ t[3].type # "SETUP" /\ (Background(t[3]) => t[1] = t[2])
              /\ AddRoute(t) /\ UNCHANGED ran
    PROVE  Inv'
<1> USE DEF Inv
<1> DEFINE p(u) == <<u[1], u[2], u[3].plug_mode>>
           All == Apps \X Apps \X Events
<1>1. t \in All /\ ran \in [Pairs -> Nat] /\ \A u \in All : p(u) \in Pairs
    BY HookTypes DEF TypeOK
<1> HIDE DEF p
<1>2. /\ ran' \in [Pairs -> Nat] /\ \A x \in Pairs : ran'[x] >= ran[x]
      /\ t[3].type = "SETUP" => ran'[p(t)] > 0
    <2>1. CASE UNCHANGED ran /\ t[3].type # "SETUP"
        BY <1>1, <2>1
    <2>2. CASE Run(t[1], t[2], t[3])
        <3>1. ran' = [ran EXCEPT ![p(t)] = @ + 1]
            BY <2>2 DEF Run, p
        <3>2. p(t) \in Pairs
            BY <1>1
        <3> QED
            BY <1>1, <3>1, <3>2
    <2> QED
        BY <2>1, <2>2
<1>3. routes \subseteq routes' /\ routes' \subseteq All /\ (t[3].type # "SETUP" => t \in routes')
    BY <1>1 DEF AddRoute, TypeOK
<1>4. ASSUME NEW u \in All, Hooked(u)
      PROVE  Hooked(u)'
    <2>1. p(u) \in Pairs /\ ran'[p(u)] >= ran[p(u)] /\ ran[p(u)] \in Nat /\ ran'[p(u)] \in Nat
        BY <1>1, <1>2
    <2> QED
        BY <1>3, <1>4, <2>1, HookedStays DEF p
<1>5. Hooked(t)'
    BY <1>2, <1>3 DEF Hooked, Background, p
<1>6. (\A a : HookEvents(a)' = HookEvents(a)) /\ OwnersPlugins' = OwnersPlugins
    BY DEF HookEvents, OwnersPlugins, Offered, Enabled
<1>7. TypeOK'
    <2>1. todo' \subseteq All
        BY DEF TypeOK
    <2> QED
        BY <1>2, <1>3, <2>1 DEF TypeOK, Registered
<1>8. InOrder'
    BY DEF InOrder, Prefix, OwnPlugin
<1>9. HooksDone'
    <2>1. ASSUME NEW i \in Prefix, NEW u \in HookEvents(order[i])
          PROVE  Hooked(u)' \/ (at = "setup" /\ i = Len(engines) /\ u \in todo')
        <3>1. order[i] \in Apps
            <4>1. engines[i] \in Apps
                BY Engines
            <4>2. engines[i] = order[i]
                BY DEF InOrder
            <4> QED
                BY <4>1, <4>2
        <3>2. u \in All
            BY <3>1, HookTypes
        <3>3. Hooked(u) \/ (at = "setup" /\ i = Len(engines) /\ u \in todo)
            BY <2>1 DEF HooksDone, Out
        <3> QED
            BY <1>4, <1>5, <3>2, <3>3
    <2>2. ASSUME at = "owner", NEW u \in OwnersPlugins
          PROVE  Hooked(u)' \/ u \in todo'
        <3>1. owner \in Apps
            BY <2>2, ConfigTypes DEF InOrder
        <3>2. u \in All
            BY <3>1, HookTypes
        <3>3. Hooked(u) \/ u \in todo
            BY <2>2 DEF HooksDone, Out
        <3> QED
            BY <1>4, <1>5, <3>2, <3>3
    <2>3. at = "owner" => todo' \subseteq OwnersPlugins
        BY DEF HooksDone, Out
    <2> QED
        BY <1>6, <2>1, <2>2, <2>3 DEF HooksDone, Prefix
<1>10. Stops'
    BY DEF Stops
<1> QED
    BY <1>7, <1>8, <1>9, <1>10

LEMMA SetUpKeeps ==
    ASSUME Inv, SetUp \/ OwnerSetUp
    PROVE  Inv'
<1> USE DEF Inv
<1>1. PICK t \in todo : /\ todo' = todo \ {t} /\ at \in {"setup", "owner"}
                        /\ UNCHANGED <<choice, job, apis, app, engine, engines, clients, tasks, worked>>
                        /\ \/ /\ t[3].type = "SETUP" /\ Run(t[1], t[2], t[3])
                              /\ UNCHANGED <<routes, at, faults>>
                           \/ /\ t[3].type # "SETUP" /\ (Background(t[3]) => t[1] = t[2])
                              /\ AddRoute(t) /\ UNCHANGED <<ran, at, faults>>
                           \/ Fail /\ UNCHANGED <<ran, routes>> /\ faults' \in 0..MaxFaults
    <2>1. faults \in 0..MaxFaults /\ MaxFaults \in Nat
        BY StartupAssumption DEF TypeOK
    <2>2. Fault => faults' \in 0..MaxFaults
        BY <2>1 DEF Fault
    <2>3. CASE SetUp
        BY <2>1, <2>2, <2>3 DEF SetUp
    <2>4. CASE OwnerSetUp
        <3>1. PICK t \in todo : /\ at = "owner" /\ todo' = todo \ {t}
                  /\ UNCHANGED <<choice, job, apis, app, engine, engines, clients, routes, tasks, worked>>
                  /\ \/ Run(t[1], t[2], t[3]) /\ UNCHANGED <<at, faults>>
                     \/ Fault /\ Fail /\ UNCHANGED ran
            BY <2>4 DEF OwnerSetUp
        <3>2. t[3].type = "SETUP"
            BY <3>1 DEF HooksDone, Out, OwnersPlugins
        <3> QED
            BY <2>1, <2>2, <3>1, <3>2
    <2> QED
        BY <2>3, <2>4
<1>2. CASE Fail /\ UNCHANGED <<ran, routes>> /\ faults' \in 0..MaxFaults
    <2>1. at' \in Out /\ at' \in Places /\ (at' = "ended" => launcher # "job")
        BY <1>2, FailsOut
    <2>2. todo' \subseteq Apps \X Apps \X Events /\ clients \in [Apps -> Nat]
        BY <1>1 DEF TypeOK
    <2> QED
        BY <1>1, <1>2, <2>1, <2>2, OutKeeps
<1> QED
    BY <1>1, <1>2, TakenKeeps

\* When the hook of an application is done the next one begins, or work does.
LEMMA NextHookKeeps ==
    ASSUME Inv, NextHook
    PROVE  Inv'
<1> USE DEF Inv
<1>1. /\ at = "setup" /\ todo = {}
      /\ UNCHANGED <<choice, job, apis, engine, engines, clients, routes, ran, faults>>
      /\ \/ /\ Len(engines) < Len(order)
            /\ at' = "start" /\ app' = order[Len(engines) + 1] /\ UNCHANGED <<todo, tasks, worked>>
         \/ /\ ~(Len(engines) < Len(order)) /\ UNCHANGED app /\ launcher = "web"
            /\ at' = "ready" /\ UNCHANGED todo /\ worked' = (tasks' # {})
            /\ tasks' = IF streams THEN UNION {BackgroundOf(a) : a \in ToSet(order)} ELSE {}
         \/ /\ ~(Len(engines) < Len(order)) /\ UNCHANGED app /\ launcher # "web"
            /\ at' = "owner" /\ todo' = OwnersPlugins /\ UNCHANGED <<tasks, worked>>
    BY DEF NextHook
<1>2. /\ \A t : Hooked(t)' = Hooked(t)
      /\ \A a : HookEvents(a)' = HookEvents(a)
      /\ OwnersPlugins' = OwnersPlugins
    BY <1>1 DEF Hooked, Background, HookEvents, OwnersPlugins, Offered, Enabled
<1>3. \A i \in Prefix : \A t \in HookEvents(order[i]) : Hooked(t)
    BY <1>1 DEF HooksDone, Out
<1>4. /\ Len(engines) \in Nat /\ Len(order) \in Nat /\ Len(engines) <= Len(order)
      /\ order \in Seq(Apps) /\ ToSet(order) \subseteq Apps
    BY Engines, ConfigTypes DEF InOrder
<1>5. launcher \in {"web", "job"} /\ app \in Apps /\ worked \in BOOLEAN
    BY StartupAssumption DEF TypeOK
<1>6. CASE Len(engines) < Len(order) /\ at' = "start" /\ app' = order[Len(engines) + 1]
             /\ UNCHANGED <<todo, tasks, worked>>
    <2>1. app' \in Apps
        BY <1>4, <1>6
    <2>2. TypeOK'
        BY <1>1, <1>6, <2>1 DEF TypeOK, Places, Registered
    <2>3. InOrder'
        BY <1>1, <1>6 DEF InOrder, Prefix, OwnPlugin
    <2>4. HooksDone'
        BY <1>1, <1>2, <1>3, <1>6 DEF HooksDone, Prefix
    <2>5. Stops'
        BY <1>1, <1>6 DEF Stops, Out
    <2> QED
        BY <2>2, <2>3, <2>4, <2>5
<1>7. CASE /\ ~(Len(engines) < Len(order)) /\ UNCHANGED <<app, todo>> /\ launcher = "web"
           /\ at' = "ready" /\ worked' = (tasks' # {})
           /\ tasks' = IF streams THEN UNION {BackgroundOf(a) : a \in ToSet(order)} ELSE {}
    <2>1. ASSUME NEW t \in tasks'
          PROVE  engine[t[1]] = "started"
        <3>1. PICK a \in ToSet(order) : t \in BackgroundOf(a)
            BY <1>7, <2>1
        <3>2. t[1] = a
            BY <3>1 DEF BackgroundOf
        <3>3. PICK i \in 1..Len(order) : a = order[i]
            BY ConfigTypes
        <3>4. i \in Prefix /\ engines[i] = a /\ a \in Apps
            BY <1>4, <1>7, <3>1, <3>3 DEF Prefix, InOrder
        <3>5. engine[a] \in {"started", "stopped"}
            BY <3>4, Engines DEF TypeOK
        <3> QED
            BY <1>1, <3>2, <3>4, <3>5 DEF Stops, Out
    <2>2. TypeOK'
        BY <1>1, <1>7, <2>1 DEF TypeOK, Places, Registered
    <2>3. InOrder'
        <3>1. StreamsStarted'
            BY <1>1, <1>7 DEF StreamsStarted, BackgroundOf, Effective, Enabled, Background
        <3> QED
            BY <1>1, <1>4, <1>7, <3>1 DEF InOrder, Prefix, OwnPlugin
    <2>4. HooksDone'
        BY <1>1, <1>2, <1>3, <1>7 DEF HooksDone, Prefix
    <2>5. Stops'
        BY <1>1, <1>7 DEF Stops, Out
    <2> QED
        BY <2>2, <2>3, <2>4, <2>5
<1>8. CASE /\ ~(Len(engines) < Len(order)) /\ UNCHANGED app /\ launcher # "web"
           /\ at' = "owner" /\ todo' = OwnersPlugins /\ UNCHANGED <<tasks, worked>>
    <2>1. launcher = "job" /\ owner \in ToSet(order)
        BY <1>1, <1>5, <1>8 DEF InOrder
    <2>2. todo' \subseteq Apps \X Apps \X Events
        BY <1>4, <1>8, <2>1, HookTypes
    <2>3. TypeOK'
        BY <1>1, <1>8, <2>2 DEF TypeOK, Places, Registered
    <2>4. InOrder'
        BY <1>1, <1>4, <1>8, <2>1 DEF InOrder, Prefix, OwnPlugin
    <2>5. HooksDone'
        BY <1>1, <1>2, <1>3, <1>8 DEF HooksDone, Prefix
    <2>6. Stops'
        BY <1>1, <1>8 DEF Stops, Out
    <2> QED
        BY <2>3, <2>4, <2>5, <2>6
<1> QED
    BY <1>1, <1>6, <1>7, <1>8

LEMMA ExecuteKeeps ==
    ASSUME Inv, Execute \/ Signal
    PROVE  Inv'
<1> USE DEF Inv
<1>1. /\ at' = "stopping" /\ result' \in {"none", "done", "ignored", "failed"} /\ worked' \in BOOLEAN
      /\ UNCHANGED <<choice, owner, apis, app, todo, engine, engines, clients, routes, ran, tasks, faults>>
    BY DEF Execute, ExecuteEvent, Signal, TypeOK
<1>2. TypeOK'
    BY <1>1 DEF TypeOK, Places, Registered
<1>3. InOrder'
    BY <1>1 DEF InOrder, Prefix, OwnPlugin
<1>4. HooksDone' /\ Stops'
    BY <1>1 DEF HooksDone, Stops, Out
<1> QED
    BY <1>2, <1>3, <1>4

\* Engines stop one by one, until none runs or one raises.
LEMMA StopKeeps ==
    ASSUME Inv, StopNext
    PROVE  Inv'
<1> USE DEF Inv
<1>1. /\ at = "stopping"
      /\ UNCHANGED <<choice, job, apis, app, todo, engines, routes, ran, worked>>
      /\ \/ Running = {} /\ at' = "ended" /\ UNCHANGED <<engine, clients, tasks, faults>>
         \/ \E i \in Running : LET next == engines[i] IN
               \/ /\ StopAppConnections(next, TRUE)
                  /\ engine' = [engine EXCEPT ![next] = "stopped"]
                  /\ tasks' = {t \in tasks : t[1] # next}
                  /\ UNCHANGED <<at, faults>>
               \/ /\ Fault /\ at' = "aborted" /\ StopAppConnections(next, FALSE)
                  /\ UNCHANGED <<engine, tasks>>
    BY Zenon DEF StopNext
<1>2. /\ engine \in [Apps -> {"none", "new", "connected", "started", "stopped"}]
      /\ clients \in [Apps -> Nat] /\ todo \subseteq Apps \X Apps \X Events
      /\ faults \in 0..MaxFaults /\ MaxFaults \in Nat
    BY StartupAssumption DEF TypeOK
<1>3. CASE Running = {} /\ at' = "ended" /\ UNCHANGED <<engine, clients, tasks, faults>>
    <2>1. ASSUME NEW a \in Apps, engine[a] = "started"
          PROVE  FALSE
        <3>1. PICK i \in Prefix : engines[i] = a
            BY <2>1, Engines DEF TypeOK
        <3>2. i \in Running
            BY <2>1, <3>1, Engines DEF Running
        <3> QED
            BY <1>3, <3>2
    <2> QED
        BY <1>1, <1>2, <1>3, <2>1, OutKeeps DEF Out, Places
<1>4. ASSUME NEW i \in Running
      PROVE  engines[i] \in Apps /\ engine[engines[i]] = "started"
    BY Engines DEF Running
<1>5. ASSUME NEW i \in Running, Fault, at' = "aborted", StopAppConnections(engines[i], FALSE),
             UNCHANGED <<engine, tasks>>
      PROVE  Inv'
    <2>1. PICK n \in 0..clients[engines[i]] : clients' = [clients EXCEPT ![engines[i]] = n]
        BY <1>5 DEF StopAppConnections
    <2>2. clients' \in [Apps -> Nat] /\ \A a \in Apps \ {engines[i]} : clients'[a] = clients[a]
        BY <1>2, <1>4, <2>1
    <2>3. faults' \in 0..MaxFaults
        BY <1>2, <1>5 DEF Fault
    <2> QED
        BY <1>1, <1>2, <1>4, <1>5, <2>2, <2>3, OutKeeps DEF Out, Places
<1>6. ASSUME NEW i \in Running, StopAppConnections(engines[i], TRUE),
             engine' = [engine EXCEPT ![engines[i]] = "stopped"],
             tasks' = {t \in tasks : t[1] # engines[i]}, UNCHANGED <<at, faults>>
      PROVE  Inv'
    <2> DEFINE next == engines[i]
    <2>1. next \in Apps /\ engine[next] = "started"
        BY <1>4
    <2> HIDE DEF next
    <2>2. clients' = [clients EXCEPT ![next] = 0]
        BY <1>6 DEF StopAppConnections, next
    <2>3. /\ clients' \in [Apps -> Nat] /\ clients'[next] = 0
          /\ \A a \in Apps \ {next} : clients'[a] = clients[a]
        BY <1>2, <2>1, <2>2
    <2>4. engine' = [engine EXCEPT ![next] = "stopped"] /\ tasks' = {t \in tasks : t[1] # next}
        BY <1>6 DEF next
    <2>5. /\ engine' \in [Apps -> {"none", "new", "connected", "started", "stopped"}]
          /\ engine'[next] = "stopped" /\ \A a \in Apps \ {next} : engine'[a] = engine[a]
        BY <1>2, <2>1, <2>4
    <2>6. \A a \in Apps : Registered(a)' = (engine'[a] \in {"started", "stopped"})
        BY <1>1, <2>1, <2>5 DEF TypeOK, Registered
    <2>7. \A t \in tasks' : engine'[t[1]] = "started"
        <3>1. \A t \in tasks : t[1] # next => engine'[t[1]] = engine[t[1]]
            BY <1>2, <2>4
        <3> QED
            BY <2>4, <3>1 DEF TypeOK
    <2>8. TypeOK'
        BY <1>1, <1>6, <2>3, <2>5, <2>6, <2>7 DEF TypeOK
    <2>9. InOrder'
        BY <1>1, <1>6 DEF InOrder, Prefix, OwnPlugin
    <2>10. HooksDone'
        BY <1>1, <1>6 DEF HooksDone, Out
    <2>11. Stops'
        BY <1>1, <1>6, <2>3, <2>5 DEF Stops, Out
    <2> QED
        BY <2>8, <2>9, <2>10, <2>11
<1> QED
    BY <1>1, <1>3, <1>5, <1>6

LEMMA InitInv == Init => Inv
<1> SUFFICES ASSUME Init
             PROVE  Inv
    OBVIOUS
<1>1. /\ conf \in Configs /\ order \in Orders /\ launcher \in {"web", "job"} /\ order # <<>>
      /\ order \in Seq(Apps) /\ MaxWrites \in Nat /\ MaxFaults \in Nat
    BY StartupAssumption DEF Init
<1>2. /\ groups \in EnabledGroups \cup {{}} /\ streams \in BOOLEAN
      /\ api \in {"none", "auto", "file"} /\ request \in Events \cup {NoEvent}
      /\ owner = NoApp /\ result = "none" /\ (launcher = "job" => groups = {})
    BY <1>1 DEF Init, Options
<1>3. app = order[1] /\ app \in Apps /\ Len(order) \in Nat
    BY <1>1, EmptySeq DEF Init
<1>4. /\ engines = <<>> /\ Len(engines) = 0 /\ DOMAIN engines = {} /\ at = "files"
      /\ \A a \in Apps : engine[a] = "none"
    BY DEF Init
<1>5. TypeOK
    <2>1. /\ engines \in Seq(Apps) /\ IsInjective(engines)
          /\ \A a \in Apps : Registered(a) = (engine[a] \in {"started", "stopped"})
        BY <1>4 DEF IsInjective, Registered, ToSet
    <2>2. /\ clients \in [Apps -> Nat] /\ ran \in [Pairs -> Nat]
          /\ engine \in [Apps -> {"none", "new", "connected", "started", "stopped"}]
          /\ todo = {} /\ routes = {} /\ tasks = {} /\ worked = FALSE /\ fresh = FALSE
          /\ writes = 0 /\ faults = 0 /\ launcher \in Launchers
        BY DEF Init
    <2>3. writes \in 0..MaxWrites /\ faults \in 0..MaxFaults /\ at \in Places
        BY <1>1, <1>4, <2>2 DEF Places
    <2>4. /\ todo \subseteq Apps \X Apps \X Events /\ routes \subseteq Apps \X Apps \X Events
          /\ \A t \in tasks : engine[t[1]] = "started"
        BY <2>2
    <2> QED
        BY <1>1, <1>2, <1>3, <2>1, <2>2, <2>3, <2>4 DEF TypeOK
<1>6. InOrder
    BY <1>2, <1>3, <1>4 DEF InOrder, Prefix, OwnPlugin
<1>7. HooksDone /\ Stops
    BY <1>4 DEF HooksDone, Stops, Prefix
<1> QED
    BY <1>5, <1>6, <1>7 DEF Inv

LEMMA NextInv == Inv /\ [Next]_vars => Inv'
<1> SUFFICES ASSUME Inv, [Next]_vars
             PROVE  Inv'
    OBVIOUS
<1>1. CASE UNCHANGED vars
    <2>1. /\ \A t : Hooked(t)' = Hooked(t)
          /\ \A a : HookEvents(a)' = HookEvents(a)
          /\ OwnersPlugins' = OwnersPlugins
        BY <1>1 DEF vars, Hooked, Background, HookEvents, OwnersPlugins, Offered, Enabled
    <2>2. HooksDone'
        BY <1>1, <2>1 DEF Inv, HooksDone, Prefix, vars
    <2>3. StreamsStarted' = StreamsStarted
        BY <1>1 DEF vars, StreamsStarted, BackgroundOf, Effective, Enabled, Background
    <2>4. TypeOK' /\ InOrder' /\ Stops'
        BY <1>1, <2>3 DEF Inv, TypeOK, Registered, InOrder, OwnPlugin, Prefix, Stops, vars
    <2> QED
        BY <2>2, <2>4 DEF Inv
<1> QED
    BY <1>1, FilesKeep, StartKeeps, FinishKeeps, SetUpKeeps, NextHookKeeps, ExecuteKeeps, StopKeeps
       DEF Next

LEMMA SpecInv == Spec => []Inv
BY InitInv, NextInv, PTL DEF Spec

-----------------------------------------------------------------------------
(* The results                                                              *)

\* Every variable always has its type; a registered engine is one that started.
THEOREM TypeCorrect == Spec => []TypeOK
BY SpecInv, PTL DEF Inv

\* However far its start got and whatever failed, a job ends with no engine
\* running, and with the connections of each closed (run_job, Server.stop).
THEOREM JobStops == Spec => []JobStopsAll
<1>1. Inv => JobStopsAll
    BY DEF Inv, TypeOK, Stops, JobStopsAll
<1> QED
    BY <1>1, SpecInv, PTL

\* When the hooks of all applications are done, each is started, and what its
\* own hook and that of the process handle is done.
LEMMA AllDone ==
    ASSUME Inv, at \in {"setup", "ready", "owner"}, at # "ready" => todo = {}, Len(engines) = Len(order),
           NEW h \in ToSet(order)
    PROVE  /\ h \in Apps /\ engine[h] = "started"
           /\ \A t \in HookEvents(h) : Hooked(t)
<1>1. PICK i \in 1..Len(order) : h = order[i]
    BY ConfigTypes DEF Inv
<1>2. i \in Prefix /\ engines[i] = h /\ h \in Apps
    BY <1>1, ConfigTypes DEF Inv, InOrder, Prefix
<1>3. engine[h] = "started"
    BY <1>2, Engines DEF Inv, TypeOK, Stops, Out
<1>4. \A t \in HookEvents(h) : Hooked(t)
    BY <1>1, <1>2 DEF Inv, HooksDone, Out
<1> QED
    BY <1>2, <1>3, <1>4

\* A server that is ready has a route for each event of its applications and for
\* each that a plugin leaves to them, and runs the streams and services of every
\* application if it was told to start them, and else none
\* (_setup_app_event_routes, stream_startup_hook).
THEOREM ReadyComplete == Spec => []ReadyIsComplete
<1>1. ASSUME Inv, at = "ready", NEW h \in ToSet(order)
      PROVE  /\ \A e \in Effective(h) : e.plug_mode = "STANDALONE" /\ e.type # "SETUP" =>
                    <<h, h, e>> \in routes
             /\ \A p \in ToSet(conf[h].plugins) : \A e \in Effective(p) :
                    e.plug_mode = "ON_APP" /\ e.type # "SETUP" =>
                        <<h, p, e>> \in routes /\ ~Background(e)
             /\ \A e \in Effective(h) : Background(e) => (<<h, e.type>> \in tasks <=> streams)
    <2>1. launcher = "web" /\ Len(engines) = Len(order)
        BY <1>1 DEF Inv, InOrder
    <2>2. \A t \in Offered(conf, h) : Enabled(t[3]) => Hooked(t)
        BY <1>1, <2>1, AllDone DEF HookEvents
    <2>3. \A e \in conf[h].events : e.plug_mode = "STANDALONE" => <<h, h, e>> \in Offered(conf, h)
        BY DEF Offered
    <2>4. ASSUME NEW p \in ToSet(conf[h].plugins), NEW e \in conf[p].events, e.plug_mode = "ON_APP"
          PROVE  <<h, p, e>> \in Offered(conf, h) /\ h # p
        <3>1. <<h, p, e>> \in Offered(conf, h)
            BY <2>4 DEF Offered
        <3>2. PICK i \in 1..Len(order) : h = order[i]
            BY <1>1, ConfigTypes DEF Inv
        <3>3. OwnPlugin(h) = {}
            BY <1>1, <2>1, <3>2 DEF Inv, InOrder, Prefix
        <3> QED
            BY <2>4, <3>1, <3>3 DEF OwnPlugin
    <2>5. \A e \in Effective(h) : e.plug_mode = "STANDALONE" /\ e.type # "SETUP" => <<h, h, e>> \in routes
        BY <2>2, <2>3 DEF Effective, Hooked
    <2>6. \A p \in ToSet(conf[h].plugins) : \A e \in Effective(p) :
             e.plug_mode = "ON_APP" /\ e.type # "SETUP" => <<h, p, e>> \in routes /\ ~Background(e)
        BY <2>2, <2>4 DEF Effective, Hooked
    <2>7. ASSUME NEW e \in Effective(h), Background(e)
          PROVE  (<<h, e.type>> \in tasks <=> streams)
        <3>1. <<h, e.type>> \in BackgroundOf(h)
            BY <2>7 DEF BackgroundOf
        <3>2. tasks = IF streams THEN UNION {BackgroundOf(a) : a \in ToSet(order)} ELSE {}
            BY <1>1 DEF Inv, InOrder, StreamsStarted
        <3>3. streams \in BOOLEAN
            BY <1>1 DEF Inv, TypeOK
        <3>4. ASSUME streams
              PROVE  <<h, e.type>> \in tasks
            <4>1. tasks = UNION {BackgroundOf(a) : a \in ToSet(order)}
                BY <3>2, <3>4, Zenon
            <4> QED
                BY <1>1, <3>1, <4>1
        <3>5. ASSUME ~streams
              PROVE  <<h, e.type>> \notin tasks
            BY <3>2, <3>5
        <3> QED
            BY <3>3, <3>4, <3>5
    <2> QED
        BY <2>5, <2>6, <2>7
<1>2. Inv => ReadyIsComplete
    BY <1>1 DEF ReadyIsComplete
<1> QED
    BY <1>2, SpecInv, PTL

\* Streams, services and a job begin when every hook is done.
LEMMA WorkBegins ==
    ASSUME Inv, Next, ~worked, worked'
    PROVE  /\ todo = {} /\ Len(engines) = Len(order)
           /\ \/ at = "setup" /\ launcher = "web"
              \/ at = "owner" /\ launcher = "job"
<1>1. ~UNCHANGED worked
    OBVIOUS
<1>2. ~(CreateFile \/ UpdateFile \/ Prepare \/ SelectOwner)
    BY <1>1 DEF CreateFile, UpdateFile, Prepare, SelectOwner
<1>3. ~(StartApp \/ FinishStart \/ Signal)
    BY <1>1 DEF StartApp, FinishStart, Signal
<1>4. ~(SetUp \/ OwnerSetUp \/ StopNext)
    BY <1>1 DEF SetUp, OwnerSetUp, StopNext
<1>5. CASE NextHook
    <2>1. at = "setup" /\ todo = {} /\ ~(Len(engines) < Len(order)) /\ launcher = "web"
        BY <1>1, <1>5 DEF NextHook
    <2>2. Len(engines) <= Len(order) /\ Len(engines) \in Nat /\ Len(order) \in Nat
        BY Engines, ConfigTypes DEF Inv, InOrder
    <2> QED
        BY <2>1, <2>2
<1>6. CASE Execute
    BY <1>6 DEF Execute, Inv, InOrder
<1> QED
    BY <1>2, <1>3, <1>4, <1>5, <1>6 DEF Next

\* No stream, service or job starts before the SETUP events it may rely on
\* have run: those of every application, and for each host those that its
\* plugins leave to it (prepare_engine, run_job).
THEOREM SetupComesFirst == Spec => SetupBeforeWork
<1> DEFINE Before ==
        ~worked /\ worked' =>
          \A h \in ToSet(order) :
              /\ engine[h] = "started" /\ Done(h, h)
              /\ launcher = "web" \/ h = owner => \A p \in ToSet(conf[h].plugins) : Done(h, p)
<1>1. ASSUME Inv, Next, ~worked, worked', NEW h \in ToSet(order)
      PROVE  /\ engine[h] = "started" /\ Done(h, h)
             /\ launcher = "web" \/ h = owner => \A p \in ToSet(conf[h].plugins) : Done(h, p)
    <2>1. /\ todo = {} /\ Len(engines) = Len(order)
          /\ \/ at = "setup" /\ launcher = "web"
             \/ at = "owner" /\ launcher = "job"
        BY <1>1, WorkBegins
    <2>2. /\ h \in Apps /\ engine[h] = "started"
          /\ \A t \in HookEvents(h) : Hooked(t)
        BY <1>1, <2>1, AllDone
    <2>3. \A t \in Apps \X Apps \X Events :
             Hooked(t) /\ t[3].type = "SETUP" => ran[<<t[1], t[2], t[3].plug_mode>>] > 0
        BY DEF Hooked
    <2>4. \A e \in conf[h].events : e.plug_mode = "STANDALONE" => <<h, h, e>> \in Offered(conf, h)
        BY DEF Offered
    <2>5. \A p \in ToSet(conf[h].plugins) : \A e \in conf[p].events :
             e.plug_mode = "ON_APP" => <<h, p, e>> \in Offered(conf, h)
        BY DEF Offered
    <2>6. ASSUME NEW p, NEW e \in conf[p].events, e.type = "SETUP", Hooked(<<h, p, e>>)
          PROVE  ran[<<h, p, e.plug_mode>>] > 0
        BY <2>6 DEF Hooked
    <2>7. CASE launcher = "web"
        <3>1. \A t \in Offered(conf, h) : Enabled(t[3]) => Hooked(t)
            BY <2>2, <2>7 DEF HookEvents
        <3>2. ASSUME NEW e \in Effective(h), e.type = "SETUP", e.plug_mode = "STANDALONE"
              PROVE  ran[<<h, h, e.plug_mode>>] > 0
            <4>1. e \in conf[h].events /\ Enabled(e)
                BY <3>2 DEF Effective
            <4>2. Hooked(<<h, h, e>>)
                BY <2>4, <3>1, <3>2, <4>1
            <4> QED
                BY <2>6, <3>2, <4>1, <4>2
        <3>3. ASSUME NEW p \in ToSet(conf[h].plugins), NEW e \in Effective(p), e.type = "SETUP",
                     e.plug_mode = "ON_APP"
              PROVE  ran[<<h, p, e.plug_mode>>] > 0
            <4>1. e \in conf[p].events /\ Enabled(e)
                BY <3>3 DEF Effective
            <4>2. Hooked(<<h, p, e>>)
                BY <2>5, <3>1, <3>3, <4>1
            <4> QED
                BY <2>6, <3>3, <4>1, <4>2
        <3> QED
            BY <2>2, <3>2, <3>3 DEF Done
    <2>8. CASE launcher = "job"
        <3>1. \A e \in conf[h].events : e.type = "SETUP" => Hooked(<<h, h, e>>)
            BY <2>2, <2>8 DEF HookEvents
        <3>2. Done(h, h)
            BY <2>6, <3>1 DEF Done, Effective
        <3>3. ASSUME h = owner, NEW p \in ToSet(conf[h].plugins)
              PROVE  Done(h, p)
            <4>1. \A t \in OwnersPlugins : Hooked(t)
                BY <1>1, <2>1, <2>8 DEF Inv, HooksDone, Out
            <4>2. \A e \in conf[p].events : e.type = "SETUP" /\ e.plug_mode = "ON_APP" => Hooked(<<h, p, e>>)
                BY <2>5, <3>3, <4>1 DEF OwnersPlugins
            <4> QED
                BY <2>6, <3>2, <4>2 DEF Done, Effective
        <3> QED
            BY <2>2, <2>8, <3>2, <3>3
    <2> QED
        BY <2>1, <2>7, <2>8
<1>2. Inv /\ [Next]_vars => [Before]_vars
    BY <1>1 DEF vars
<1>3. Spec => [][Before]_vars
    BY <1>2, SpecInv, PTL DEF Spec
<1> QED
    BY <1>3 DEF SetupBeforeWork

-----------------------------------------------------------------------------
(* Folds.  A fold is a recursive function on the sets of the indices it has  *)
(* taken: that there is one, and what it gives, is shown by induction.       *)

\* A set of numbers that is not empty has a least one.
LEMMA LeastNumber ==
    ASSUME NEW T, T \subseteq Nat, T # {}
    PROVE  \E x \in T : \A y \in T : x <= y
<1> DEFINE R == {ss \in Nat \X Nat : ss[1] < ss[2]}
<1>1. IsWellFoundedOn(R, Nat)
    BY NatLessThanWellFounded DEF OpToRel
<1> HIDE DEF R
<1>2. PICK x \in T : \A y \in T : <<y, x>> \notin R
    BY <1>1, WFMin
<1>3. x \in Nat /\ \A y \in T : y \in Nat /\ <<y, x>> \in Nat \X Nat
    BY <1>2
<1>4. \A y \in T : ~(y < x)
    BY <1>2, <1>3 DEF R
<1> QED
    BY <1>3, <1>4

\* What holds of 0, and of n + 1 whenever it holds of n, holds of all numbers.
LEMMA AllNumbers ==
    ASSUME NEW S, 0 \in S, \A n \in Nat : n \in S => n + 1 \in S
    PROVE  Nat \subseteq S
<1> SUFFICES ASSUME Nat \ S # {} PROVE FALSE
    OBVIOUS
<1>1. PICK x \in Nat \ S : \A y \in Nat \ S : x <= y
    BY LeastNumber
<1>2. x # 0 /\ x - 1 \in Nat /\ x - 1 \notin Nat \ S
    BY <1>1
<1> QED
    BY <1>1, <1>2

\* The index that a fold takes last.
LEMMA LargestIndex ==
    ASSUME NEW n \in Nat, NEW S \in SUBSET (1..(n + 1)), n + 1 \in S
    PROVE  Max(S) = n + 1
<1>1. n + 1 \in S /\ \A y \in S : n + 1 >= y
    OBVIOUS
<1>2. \A x \in S : (\A y \in S : x >= y) => x = n + 1
    <2> SUFFICES ASSUME NEW x \in S, \A y \in S : x >= y PROVE x = n + 1
        OBVIOUS
    <2>1. x >= n + 1 /\ n + 1 >= x /\ x \in Int
        BY <1>1
    <2> QED
        BY <2>1
<1> DEFINE m == CHOOSE x \in S : \A y \in S : x >= y
<1>3. m \in S /\ \A y \in S : m >= y
    BY <1>1
<1>4. m = n + 1
    BY <1>2, <1>3
<1> QED
    BY <1>4 DEF Max

LEMMA LargestIn ==
    ASSUME NEW m \in Nat, NEW S \in SUBSET (1..m), S # {}
    PROVE  Max(S) \in S
<1> DEFINE N == {n \in Nat : \A T \in SUBSET (1..n) : T # {} => Max(T) \in T}
<1>1. 0 \in N
    <2>1. \A T \in SUBSET (1..0) : T = {}
        OBVIOUS
    <2> QED
        BY <2>1
<1>2. ASSUME NEW n \in N
      PROVE  n + 1 \in N
    <2>1. n \in Nat /\ \A T \in SUBSET (1..n) : T # {} => Max(T) \in T
        OBVIOUS
    <2>2. ASSUME NEW T \in SUBSET (1..(n + 1)), T # {}
          PROVE  Max(T) \in T
        <3>1. CASE n + 1 \in T
            BY <2>1, <3>1, LargestIndex
        <3>2. CASE n + 1 \notin T
            <4>1. T \in SUBSET (1..n)
                BY <2>1, <3>2
            <4> QED
                BY <2>1, <2>2, <4>1
        <3> QED
            BY <3>1, <3>2
    <2> QED
        BY <2>1, <2>2
<1> HIDE DEF N
<1>3. Nat \subseteq N
    BY <1>1, <1>2, AllNumbers
<1> QED
    BY <1>3 DEF N

\* The indices up to the next are those so far and the next.
LEMMA NextIndex ==
    ASSUME NEW n \in Nat, NEW i \in 0..(n - 1)
    PROVE  /\ i \in Nat /\ 1..(i + 1) \in SUBSET (1..n) /\ 1..(i + 1) # {} /\ i + 1 \in 1..n
           /\ Max(1..(i + 1)) = i + 1 /\ (1..(i + 1)) \ {i + 1} = 1..i
<1>1. i \in Nat /\ 1..(i + 1) \in SUBSET (1..n) /\ 1 \in 1..(i + 1) /\ i + 1 \in 1..n
    OBVIOUS
<1>2. Max(1..(i + 1)) = i + 1
    BY <1>1, LargestIndex
<1>3. \A j : j \in 1..(i + 1) /\ j # i + 1 <=> j \in 1..i
    BY <1>1
<1>4. (1..(i + 1)) \ {i + 1} = 1..i
    BY <1>3, Zenon
<1> QED
    BY <1>1, <1>2, <1>4

\* What g maps the set of the first indices to is the fold of op so far.
IsFold(g, op, base, seq) ==
    \A S \in SUBSET (1..Len(seq)) :
        g[S] = IF S = {} THEN base ELSE op[<<g[S \ {Max(S)}], seq[Max(S)]>>]

\* A fold of a sequence, from left to right, is defined.
LEMMA FoldExists ==
    ASSUME NEW X, NEW Y, NEW op \in [X \X Y -> X], NEW base \in X, NEW seq \in Seq(Y)
    PROVE  \E g \in [SUBSET (1..Len(seq)) -> X] : IsFold(g, op, base, seq)
<1> DEFINE Fold(n, g) == \A S \in SUBSET (1..n) :
              g[S] = IF S = {} THEN base ELSE op[<<g[S \ {Max(S)}], seq[Max(S)]>>]
           N == {n \in Nat : n <= Len(seq) => \E g \in [SUBSET (1..n) -> X] : Fold(n, g)}
<1>1. 0 \in N
    <2> DEFINE g0 == [S \in SUBSET (1..0) |-> base]
    <2>1. \A S \in SUBSET (1..0) : S = {}
        OBVIOUS
    <2>2. g0 \in [SUBSET (1..0) -> X] /\ Fold(0, g0)
        BY <2>1
    <2> QED
        BY <2>2
<1>2. ASSUME NEW n \in N
      PROVE  n + 1 \in N
    <2>0. n \in Nat /\ n + 1 \in Nat
        OBVIOUS
    <2> SUFFICES ASSUME n + 1 <= Len(seq)
                 PROVE  \E h \in [SUBSET (1..(n + 1)) -> X] : Fold(n + 1, h)
        BY <2>0, Zenon
    <2>1. n \in Nat /\ n <= Len(seq) /\ Len(seq) \in Nat /\ n + 1 \in 1..Len(seq)
        OBVIOUS
    <2>2. PICK g \in [SUBSET (1..n) -> X] : Fold(n, g)
        BY <2>1
    <2> DEFINE h == [S \in SUBSET (1..(n + 1)) |->
                       IF n + 1 \in S THEN op[<<g[S \ {n + 1}], seq[n + 1]>>] ELSE g[S]]
    <2>3. seq[n + 1] \in Y
        BY <2>1
    <2>4. ASSUME NEW S \in SUBSET (1..(n + 1))
          PROVE  S \ {n + 1} \in SUBSET (1..n)
        BY <2>1
    <2>5. ASSUME NEW S \in SUBSET (1..(n + 1))
          PROVE  h[S] \in X
        <3>1. CASE n + 1 \in S
            BY <2>2, <2>3, <2>4, <3>1
        <3>2. CASE n + 1 \notin S
            <4>1. S \in SUBSET (1..n)
                BY <2>4, <3>2
            <4> QED
                BY <2>2, <3>2, <4>1
        <3> QED
            BY <3>1, <3>2
    <2>6. ASSUME NEW S \in SUBSET (1..(n + 1))
          PROVE  h[S] = IF S = {} THEN base ELSE op[<<h[S \ {Max(S)}], seq[Max(S)]>>]
        <3>1. CASE n + 1 \in S
            <4>1. Max(S) = n + 1
                BY <2>1, <3>1, LargestIndex
            <4>2. h[S \ {n + 1}] = g[S \ {n + 1}]
                <5>1. S \ {n + 1} \in SUBSET (1..(n + 1)) /\ n + 1 \notin S \ {n + 1}
                    BY <2>4
                <5> QED
                    BY <5>1
            <4>3. h[S] = op[<<g[S \ {n + 1}], seq[n + 1]>>]
                BY <3>1
            <4> QED
                BY <3>1, <4>1, <4>2, <4>3
        <3>2. CASE n + 1 \notin S
            <4>1. S \in SUBSET (1..n) /\ h[S] = g[S]
                BY <2>4, <3>2
            <4>2. S \ {Max(S)} \in SUBSET (1..(n + 1)) /\ n + 1 \notin S \ {Max(S)}
                BY <3>2
            <4>3. h[S \ {Max(S)}] = g[S \ {Max(S)}]
                BY <4>2
            <4>4. g[S] = IF S = {} THEN base ELSE op[<<g[S \ {Max(S)}], seq[Max(S)]>>]
                BY <2>2, <4>1
            <4> QED
                BY <4>1, <4>3, <4>4
        <3> QED
            BY <3>1, <3>2
    <2> HIDE DEF h
    <2>7. h \in [SUBSET (1..(n + 1)) -> X]
        BY <2>5 DEF h
    <2>8. Fold(n + 1, h)
        BY <2>6
    <2> QED
        BY <2>7, <2>8
<1> HIDE DEF N
<1>3. Nat \subseteq N
    BY <1>1, <1>2, AllNumbers
<1>4. Len(seq) \in Nat /\ Len(seq) <= Len(seq)
    OBVIOUS
<1>5. Len(seq) \in N
    BY <1>3, <1>4
<1> QED
    BY <1>4, <1>5, Zenon DEF N, IsFold

-----------------------------------------------------------------------------
(* Headers and schemas                                                      *)

\* The headers added one after the other.
LEMMA AddMissingSteps ==
    ASSUME NEW H, NEW s \in Seq(H), NEW new \in Seq(H)
    PROVE  \E r \in [0..Len(new) -> Seq(H)] :
              /\ r[0] = s /\ AddMissing(s, new) = r[Len(new)]
              /\ \A i \in 0..(Len(new) - 1) :
                    r[i + 1] = IF new[i + 1] \in ToSet(r[i]) THEN r[i]
                               ELSE Append(r[i], new[i + 1])
<1> DEFINE add == [p \in Seq(H) \X H |->
                     IF p[2] \in ToSet(p[1]) THEN p[1] ELSE Append(p[1], p[2])]
<1>1. add \in [Seq(H) \X H -> Seq(H)]
    OBVIOUS
<1>2. \A acc \in Seq(H), x \in H :
         add[<<acc, x>>] = IF x \in ToSet(acc) THEN acc ELSE Append(acc, x)
    OBVIOUS
<1> HIDE DEF add
<1>3. PICK g \in [SUBSET (1..Len(new)) -> Seq(H)] : IsFold(g, add, s, new)
    BY <1>1, FoldExists, Zenon
<1> DEFINE Fold(f) == [S \in SUBSET DOMAIN new |-> IF S = {} THEN s
                          ELSE IF new[Max(S)] \in ToSet(f[S \ {Max(S)}]) THEN f[S \ {Max(S)}]
                               ELSE Append(f[S \ {Max(S)}], new[Max(S)])]
           F == CHOOSE f : f = Fold(f)
<1>4. DOMAIN new = 1..Len(new) /\ Len(new) \in Nat /\ \A i \in 1..Len(new) : new[i] \in H
    OBVIOUS
<1>5. g = Fold(g)
    <2>1. ASSUME NEW S \in SUBSET (1..Len(new))
          PROVE  g[S] = Fold(g)[S]
        <3>1. CASE S = {}
            BY <1>3, <1>4, <3>1 DEF IsFold
        <3>2. CASE S # {}
            <4>1. Max(S) \in S
                BY <1>4, <3>2, LargestIn
            <4>2. new[Max(S)] \in H /\ g[S \ {Max(S)}] \in Seq(H)
                BY <1>3, <1>4, <4>1
            <4>3. g[S] = add[<<g[S \ {Max(S)}], new[Max(S)]>>]
                BY <1>3, <3>2 DEF IsFold
            <4> QED
                BY <1>2, <1>4, <3>2, <4>2, <4>3
        <3> QED
            BY <3>1, <3>2
    <2> QED
        BY <1>3, <1>4, <2>1
<1>6. AddMissing(s, new) = F[DOMAIN new]
    BY Zenon DEF AddMissing, FoldLeft, MapThenFoldSet
<1>7. F = Fold(F)
    BY <1>5, Zenon
<1> HIDE DEF F
<1> DEFINE r == [i \in 0..Len(new) |-> F[1..i]]
<1>8. F[{}] = s /\ 1..0 = {}
    BY <1>7
<1>9. ASSUME NEW i \in 0..(Len(new) - 1)
      PROVE  F[1..(i + 1)] = IF new[i + 1] \in ToSet(F[1..i]) THEN F[1..i]
                             ELSE Append(F[1..i], new[i + 1])
    <2>1. /\ 1..(i + 1) \in SUBSET (1..Len(new)) /\ 1..(i + 1) # {}
          /\ Max(1..(i + 1)) = i + 1 /\ (1..(i + 1)) \ {i + 1} = 1..i
        BY <1>4, NextIndex
    <2>2. F[1..(i + 1)] = Fold(F)[1..(i + 1)]
        BY <1>7, Zenon
    <2> QED
        BY <1>4, <2>1, <2>2
<1>10. \A i \in 0..Len(new) : F[1..i] \in Seq(H)
    <2> DEFINE N == {i \in Nat : i <= Len(new) => F[1..i] \in Seq(H)}
    <2>1. 0 \in N
        BY <1>8
    <2>2. ASSUME NEW i \in N
          PROVE  i + 1 \in N
        <3> SUFFICES ASSUME i + 1 <= Len(new)
                     PROVE  F[1..(i + 1)] \in Seq(H)
            OBVIOUS
        <3>1. i \in 0..(Len(new) - 1) /\ i + 1 \in 1..Len(new) /\ F[1..i] \in Seq(H)
            BY <1>4
        <3>2. F[1..(i + 1)] = IF new[i + 1] \in ToSet(F[1..i]) THEN F[1..i]
                              ELSE Append(F[1..i], new[i + 1])
            BY <1>9, <3>1
        <3>3. new[i + 1] \in H
            BY <1>4, <3>1
        <3> QED
            BY <3>1, <3>2, <3>3
    <2> HIDE DEF N
    <2>3. Nat \subseteq N
        BY <2>1, <2>2, AllNumbers
    <2> QED
        BY <2>3 DEF N
<1>11. r \in [0..Len(new) -> Seq(H)]
    BY <1>10
<1>12. r[0] = s /\ AddMissing(s, new) = r[Len(new)]
    BY <1>4, <1>6, <1>8
<1>13. \A i \in 0..(Len(new) - 1) :
          r[i + 1] = IF new[i + 1] \in ToSet(r[i]) THEN r[i] ELSE Append(r[i], new[i + 1])
    BY <1>4, <1>9
<1> HIDE DEF r
<1> QED
    BY <1>11, <1>12, <1>13

LEMMA AppendSet ==
    ASSUME NEW H, NEW s \in Seq(H), NEW x \in H
    PROVE  ToSet(Append(s, x)) = ToSet(s) \cup {x}
<1>1. PICK n \in Nat : n = Len(s)
    OBVIOUS
<1>2. DOMAIN s = 1..n
    BY <1>1
<1>3. PICK t : t = Append(s, x)
    OBVIOUS
<1>4. DOMAIN t = 1..(n + 1) /\ t[n + 1] = x /\ \A j \in 1..n : t[j] = s[j]
    BY <1>1, <1>3
<1>5. \A y : y \in ToSet(s) <=> \E j \in 1..n : y = s[j]
    BY <1>2 DEF ToSet
<1>6. \A y : y \in ToSet(t) <=> \E j \in 1..(n + 1) : y = t[j]
    BY <1>4 DEF ToSet
<1>7. \A j : j \in 1..(n + 1) <=> j \in 1..n \/ j = n + 1
    OBVIOUS
<1>8. \A y : y \in ToSet(t) <=> y \in ToSet(s) \/ y = x
    BY <1>4, <1>5, <1>6, <1>7
<1> QED
    BY <1>3, <1>8

\* They are all there then, and none is added to those that are.
LEMMA AddMissingAll ==
    ASSUME NEW H, NEW s \in Seq(H), NEW new \in Seq(H)
    PROVE  /\ AddMissing(s, new) \in Seq(H)
           /\ ToSet(new) \subseteq ToSet(AddMissing(s, new))
           /\ ToSet(new) \subseteq ToSet(s) => AddMissing(s, new) = s
<1>1. PICK r \in [0..Len(new) -> Seq(H)] :
         /\ r[0] = s /\ AddMissing(s, new) = r[Len(new)]
         /\ \A i \in 0..(Len(new) - 1) :
               r[i + 1] = IF new[i + 1] \in ToSet(r[i]) THEN r[i]
                          ELSE Append(r[i], new[i + 1])
    BY AddMissingSteps
<1>2. Len(new) \in Nat /\ ToSet(new) = {new[i] : i \in 1..Len(new)}
    BY DEF ToSet
<1> DEFINE N == {i \in Nat : i <= Len(new) =>
                    /\ \A j \in 1..i : new[j] \in ToSet(r[i])
                    /\ ToSet(new) \subseteq ToSet(s) => r[i] = s}
<1>3. 0 \in N
    BY <1>1
<1>4. ASSUME NEW i \in N
      PROVE  i + 1 \in N
    <2> SUFFICES ASSUME i + 1 <= Len(new)
                 PROVE  /\ \A j \in 1..(i + 1) : new[j] \in ToSet(r[i + 1])
                        /\ ToSet(new) \subseteq ToSet(s) => r[i + 1] = s
        OBVIOUS
    <2>1. /\ i \in 0..(Len(new) - 1) /\ i + 1 \in 1..Len(new) /\ i \in 0..Len(new)
          /\ \A j \in 1..i : new[j] \in ToSet(r[i])
          /\ ToSet(new) \subseteq ToSet(s) => r[i] = s
        BY <1>2
    <2>2. r[i] \in Seq(H) /\ new[i + 1] \in H
        BY <2>1
    <2>3. ToSet(Append(r[i], new[i + 1])) = ToSet(r[i]) \cup {new[i + 1]}
        BY <2>2, AppendSet
    <2>4. r[i + 1] = IF new[i + 1] \in ToSet(r[i]) THEN r[i] ELSE Append(r[i], new[i + 1])
        BY <1>1, <2>1
    <2>5. \A j \in 1..(i + 1) : j \in 1..i \/ j = i + 1
        BY <2>1
    <2>6. new[i + 1] \in ToSet(new)
        BY <1>2, <2>1
    <2> QED
        BY <2>1, <2>3, <2>4, <2>5, <2>6
<1> HIDE DEF N
<1>5. Nat \subseteq N
    BY <1>3, <1>4, AllNumbers
<1>6. Len(new) \in N /\ Len(new) <= Len(new)
    BY <1>2, <1>5
<1>7. /\ \A j \in 1..Len(new) : new[j] \in ToSet(r[Len(new)])
      /\ ToSet(new) \subseteq ToSet(s) => r[Len(new)] = s
    BY <1>6 DEF N
<1> QED
    BY <1>1, <1>2, <1>7

\* The schemas of the applications: each is that of one of them.
LEMMA RuntimeSchemasFrom ==
    ASSUME NEW c, NEW o \in Seq(Apps)
    PROVE  /\ DOMAIN RuntimeSchemas(c, o) = UNION {DOMAIN c[a].data : a \in ToSet(o)}
           /\ \A n \in DOMAIN RuntimeSchemas(c, o) : \E a \in ToSet(o) :
                 n \in DOMAIN c[a].data /\ RuntimeSchemas(c, o)[n] = c[a].data[n]
<1> DEFINE Own(a) == [n \in DOMAIN c[a].data |-> c[a].data[n]]
           D == UNION {DOMAIN c[a].data : a \in Apps}
           V == UNION {{c[a].data[n] : n \in DOMAIN c[a].data} : a \in Apps}
           X == UNION {[S -> V] : S \in SUBSET D}
           merge == [p \in X \X Apps |-> Over(p[1], c[p[2]].data)]
<1>1. ASSUME NEW f \in X, NEW a \in Apps
      PROVE  Over(f, c[a].data) \in X
    <2>1. PICK S \in SUBSET D : f \in [S -> V]
        OBVIOUS
    <2>2. Over(f, c[a].data) = [n \in S \cup DOMAIN c[a].data |->
                              IF n \in S THEN f[n] ELSE c[a].data[n]]
        BY <2>1 DEF Over
    <2>3. \A n \in DOMAIN c[a].data : n \in D /\ c[a].data[n] \in V
        OBVIOUS
    <2> HIDE DEF D, V
    <2>4. S \cup DOMAIN c[a].data \in SUBSET D
        BY <2>3
    <2>5. Over(f, c[a].data) \in [S \cup DOMAIN c[a].data -> V]
        BY <2>1, <2>2, <2>3
    <2> QED
        BY <2>4, <2>5
<1>2. <<>> \in X
    <2>1. <<>> \in Seq(V) /\ Len(<<>>) = 0
        BY EmptySeq
    <2>2. <<>> \in [1..0 -> V]
        BY <2>1, LenProperties
    <2>3. 1..0 \in SUBSET D
        OBVIOUS
    <2> QED
        BY <2>2, <2>3
<1> HIDE DEF X
<1>3. merge \in [X \X Apps -> X]
    BY <1>1
<1>4. \A f \in X, a \in Apps : merge[<<f, a>>] = Over(f, c[a].data)
    OBVIOUS
<1> HIDE DEF merge
<1>5. PICK g \in [SUBSET (1..Len(o)) -> X] : IsFold(g, merge, <<>>, o)
    BY <1>2, <1>3, FoldExists, Zenon
<1> DEFINE Fold(f) == [S \in SUBSET DOMAIN o |-> IF S = {} THEN <<>>
                          ELSE Over(f[S \ {Max(S)}], c[o[Max(S)]].data)]
           F == CHOOSE f : f = Fold(f)
<1>6. DOMAIN o = 1..Len(o) /\ Len(o) \in Nat /\ \A i \in 1..Len(o) : o[i] \in Apps
    OBVIOUS
<1>7. g = Fold(g)
    <2>1. ASSUME NEW S \in SUBSET (1..Len(o))
          PROVE  g[S] = Fold(g)[S]
        <3>1. CASE S = {}
            BY <1>5, <1>6, <3>1 DEF IsFold
        <3>2. CASE S # {}
            <4>1. Max(S) \in S
                BY <1>6, <3>2, LargestIn
            <4>2. o[Max(S)] \in Apps /\ g[S \ {Max(S)}] \in X
                BY <1>5, <1>6, <4>1
            <4>3. g[S] = merge[<<g[S \ {Max(S)}], o[Max(S)]>>]
                BY <1>5, <3>2 DEF IsFold
            <4> QED
                BY <1>4, <1>6, <3>2, <4>2, <4>3
        <3> QED
            BY <3>1, <3>2
    <2> QED
        BY <1>5, <1>6, <2>1
<1>8. RuntimeSchemas(c, o) = F[DOMAIN o]
    BY Zenon DEF RuntimeSchemas, FoldLeft, MapThenFoldSet
<1>9. F = Fold(F)
    BY <1>7, Zenon
<1> HIDE DEF F
<1>10. DOMAIN F[{}] = {} /\ 1..0 = {}
    BY <1>9
<1>11. ASSUME NEW i \in 0..(Len(o) - 1)
       PROVE  F[1..(i + 1)] = Over(F[1..i], c[o[i + 1]].data)
    <2>1. /\ 1..(i + 1) \in SUBSET (1..Len(o)) /\ 1..(i + 1) # {}
          /\ Max(1..(i + 1)) = i + 1 /\ (1..(i + 1)) \ {i + 1} = 1..i
        BY <1>6, NextIndex
    <2>2. F[1..(i + 1)] = Fold(F)[1..(i + 1)]
        BY <1>9, Zenon
    <2> QED
        BY <1>6, <2>1, <2>2
<1> DEFINE From(f, i) ==
              /\ DOMAIN f = UNION {DOMAIN c[o[j]].data : j \in 1..i}
              /\ \A n \in DOMAIN f : \E j \in 1..i :
                    n \in DOMAIN c[o[j]].data /\ f[n] = c[o[j]].data[n]
           N == {i \in Nat : i <= Len(o) => From(F[1..i], i)}
<1>12. 0 \in N
    BY <1>10
<1>13. ASSUME NEW i \in N
       PROVE  i + 1 \in N
    <2>1. i \in Nat /\ i + 1 \in Nat
        OBVIOUS
    <2> SUFFICES ASSUME i + 1 <= Len(o)
                 PROVE  From(F[1..(i + 1)], i + 1)
        BY <2>1, Zenon
    <2>2. i \in 0..(Len(o) - 1) /\ From(F[1..i], i)
        BY <1>6, <2>1
    <2> DEFINE old == F[1..i]
               new == F[1..(i + 1)]
               data == c[o[i + 1]].data
    <2>3. new = Over(old, data)
        BY <1>11, <2>2
    <2>4. \A j : j \in 1..(i + 1) <=> j \in 1..i \/ j = i + 1
        BY <2>1
    <2> HIDE DEF F, old, new
    <2>5. new = [n \in DOMAIN old \cup DOMAIN data |-> IF n \in DOMAIN old THEN old[n] ELSE data[n]]
        BY <2>3 DEF Over
    <2>6. DOMAIN new = DOMAIN old \cup DOMAIN data
        BY <2>5
    <2>7. DOMAIN old = UNION {DOMAIN c[o[j]].data : j \in 1..i}
        BY <2>2 DEF old
    <2>8. DOMAIN new = UNION {DOMAIN c[o[j]].data : j \in 1..(i + 1)}
        BY <2>4, <2>6, <2>7
    <2>9. ASSUME NEW n \in DOMAIN new
          PROVE  \E j \in 1..(i + 1) : n \in DOMAIN c[o[j]].data /\ new[n] = c[o[j]].data[n]
        <3>1. CASE n \in DOMAIN old
            <4>1. new[n] = old[n]
                BY <2>5, <3>1
            <4>2. PICK j \in 1..i : n \in DOMAIN c[o[j]].data /\ old[n] = c[o[j]].data[n]
                BY <2>2, <3>1 DEF old
            <4> QED
                BY <2>4, <4>1, <4>2
        <3>2. CASE n \notin DOMAIN old
            <4>1. n \in DOMAIN data /\ new[n] = data[n]
                BY <2>5, <2>6, <3>2
            <4> QED
                BY <2>4, <4>1
        <3> QED
            BY <3>1, <3>2
    <2> QED
        BY <2>8, <2>9 DEF new
<1> HIDE DEF N
<1>14. Nat \subseteq N
    BY <1>12, <1>13, AllNumbers
<1>15. Len(o) \in N /\ Len(o) <= Len(o)
    BY <1>6, <1>14
<1>16. From(RuntimeSchemas(c, o), Len(o))
    BY <1>6, <1>8, <1>15 DEF N
<1>17. ToSet(o) = {o[j] : j \in 1..Len(o)}
    BY <1>6 DEF ToSet
<1> QED
    BY <1>16, <1>17

\* Schemas that refer to existing ones: those in use refer to those in use.
LEMMA UsedSchemas ==
    ASSUME NEW paths, NEW schemas, NEW U, U = Used(paths, schemas)
    PROVE  /\ U \subseteq DOMAIN schemas /\ U \subseteq RefsOf(paths, Restrict(schemas, U))
           /\ \A S \in SUBSET DOMAIN schemas : S \subseteq RefsOf(paths, Restrict(schemas, S))
                 => S \subseteq U
           /\ RefsOf(paths, schemas) \subseteq DOMAIN schemas =>
                 RefsOf(paths, Restrict(schemas, U)) \subseteq U
<1> DEFINE P == UNION {paths[q].doc.refs : q \in DOMAIN paths}
<1>1. ASSUME NEW S \in SUBSET DOMAIN schemas
      PROVE  \A x : x \in RefsOf(paths, Restrict(schemas, S)) <=>
                    x \in P \/ \E n \in S : x \in schemas[n].refs
    BY DEF RefsOf, Restrict
<1>2. \A x : x \in RefsOf(paths, schemas) <=>
             x \in P \/ \E n \in DOMAIN schemas : x \in schemas[n].refs
    BY DEF RefsOf
<1>3. U = UNION {S \in SUBSET DOMAIN schemas : S \subseteq RefsOf(paths, Restrict(schemas, S))}
    BY DEF Used
<1>4. U \in SUBSET DOMAIN schemas
    BY <1>3
<1>5. \A S \in SUBSET DOMAIN schemas :
         S \subseteq RefsOf(paths, Restrict(schemas, S)) => S \subseteq U
    BY <1>3
<1> HIDE DEF P
<1>6. ASSUME NEW x \in U
      PROVE  x \in RefsOf(paths, Restrict(schemas, U))
    <2>1. PICK S \in SUBSET DOMAIN schemas :
             x \in S /\ S \subseteq RefsOf(paths, Restrict(schemas, S))
        BY <1>3
    <2>2. S \subseteq U
        BY <1>5, <2>1
    <2>3. x \in P \/ \E n \in S : x \in schemas[n].refs
        BY <1>1, <2>1
    <2> QED
        BY <1>1, <1>4, <2>2, <2>3
<1>7. ASSUME RefsOf(paths, schemas) \subseteq DOMAIN schemas
      PROVE  RefsOf(paths, Restrict(schemas, U)) \subseteq U
    <2> DEFINE S == U \cup RefsOf(paths, Restrict(schemas, U))
    <2>1. \A x \in RefsOf(paths, Restrict(schemas, U)) : x \in RefsOf(paths, schemas)
        BY <1>1, <1>2, <1>4
    <2>2. S \in SUBSET DOMAIN schemas
        BY <1>4, <1>7, <2>1
    <2>3. \A x \in S : x \in RefsOf(paths, Restrict(schemas, U))
        BY <1>6
    <2>4. \A x \in S : x \in RefsOf(paths, Restrict(schemas, S))
        <3> HIDE DEF S
        <3>1. U \subseteq S
            BY DEF S
        <3> QED
            BY <1>1, <1>4, <2>2, <2>3, <3>1
    <2>5. S \subseteq U
        <3> HIDE DEF S
        <3> QED
            BY <1>5, <2>2, <2>4
    <2> QED
        BY <2>5
<1> QED
    BY <1>4, <1>5, <1>6, <1>7

-----------------------------------------------------------------------------
(* Registering the applications                                             *)

\* An operation of a specification, and its paths.
Headers == UNION {UNION {ToSet(c[a].headers) : a \in Apps} : c \in Configs}
IsOperation(p) ==
    /\ p = [doc |-> p.doc, headers |-> p.headers, security |-> p.security]
    /\ p.headers \in Seq(Headers)
IsPaths(paths) ==
    /\ paths = [q \in DOMAIN paths |-> paths[q]]
    /\ \A q \in DOMAIN paths : IsOperation(paths[q])

Says(e) == e.doc \notin {NoDoc, FromFile}
SchemesOf(t) == Schemes(t[1], Methods(t[3]))

\* What register_apps does to the path of an event, and that it does nothing more
\* when it does it again.
LEMMA OperationAgain ==
    ASSUME NEW c \in Configs, NEW t, t[1] \in Apps, NEW old, IsOperation(old),
           NEW new, new = Operation(c, t, old)
    PROVE  /\ IsOperation(new) /\ Operation(c, t, new) = new
           /\ new.security = SchemesOf(t) \/ (~Says(t[3]) /\ SchemesOf(t) = {})
           /\ new.doc = IF Says(t[3]) THEN EventApi(t[3].type, t[3].doc) ELSE old.doc
<1> DEFINE hs == c[t[1]].headers
           base == Base(t[3], old)
           Secured(s) == IF SchemesOf(t) = {} THEN s ELSE SchemesOf(t)
           Made(b) == [doc |-> b.doc, headers |-> AddMissing(b.headers, hs),
                       security |-> Secured(b.security)]
<1>1. hs \in Seq(Headers)
    <2>1. hs \in Seq(ToSet(hs))
        BY ApiAssumption
    <2>2. ToSet(hs) \subseteq Headers
        BY DEF Headers
    <2> HIDE DEF hs
    <2>3. PICK n \in Nat : hs \in [1..n -> ToSet(hs)]
        BY <2>1, SeqDef
    <2>4. hs \in [1..n -> Headers]
        BY <2>2, <2>3
    <2> QED
        BY <2>4, SeqDef
<1>2. ASSUME NEW b, IsOperation(b)
      PROVE  [b EXCEPT !.headers = AddMissing(@, hs),
                       !.security = IF SchemesOf(t) = {} THEN @ ELSE SchemesOf(t)] = Made(b)
    <2>1. PICK d, h, s : b = [doc |-> d, headers |-> h, security |-> s]
        BY <1>2 DEF IsOperation
    <2>2. PICK a : a = AddMissing(b.headers, hs)
        OBVIOUS
    <2> HIDE DEF Secured
    <2>3. PICK z : z = Secured(b.security)
        OBVIOUS
    <2>4. PICK m : m = [b EXCEPT !.headers = a]
        OBVIOUS
    <2>5. m = [doc |-> d, headers |-> a, security |-> s]
        BY <2>1, <2>4
    <2>6. [b EXCEPT !.headers = a, !.security = z] = [doc |-> d, headers |-> a, security |-> z]
        <3>1. [m EXCEPT !.security = z] = [doc |-> d, headers |-> a, security |-> z]
            BY <2>5
        <3>2. [b EXCEPT !.headers = a, !.security = z] = [m EXCEPT !.security = z]
            BY <2>4, Zenon
        <3> QED
            BY <3>1, <3>2
    <2>7. Made(b) = [doc |-> d, headers |-> a, security |-> z]
        BY <2>1, <2>2, <2>3
    <2> QED
        BY <2>2, <2>3, <2>6, <2>7, Zenon DEF Secured
<1>3. \A x : Operation(c, t, x) =
         [Base(t[3], x) EXCEPT !.headers = AddMissing(@, hs),
                               !.security = IF SchemesOf(t) = {} THEN @ ELSE SchemesOf(t)]
    BY DEF Operation, SchemesOf
<1> HIDE DEF hs, Made, Secured
<1>4. IsOperation(base) /\ (Says(t[3]) => base.security = {})
      /\ base.doc = IF Says(t[3]) THEN EventApi(t[3].type, t[3].doc) ELSE old.doc
    <2>1. CASE Says(t[3])
        <3>1. base = [doc |-> EventApi(t[3].type, t[3].doc), headers |-> <<>>, security |-> {}]
            BY <2>1 DEF Base, Says, Described
        <3>2. <<>> \in Seq(Headers)
            BY EmptySeq
        <3> HIDE DEF base
        <3> QED
            BY <2>1, <3>1, <3>2 DEF IsOperation
    <2>2. CASE ~Says(t[3])
        BY <2>2 DEF Base, Says
    <2> QED
        BY <2>1, <2>2
<1>5. new = Made(base)
    BY <1>2, <1>3, <1>4
<1>6. /\ AddMissing(base.headers, hs) \in Seq(Headers)
      /\ ToSet(hs) \subseteq ToSet(AddMissing(base.headers, hs))
    BY <1>1, <1>4, AddMissingAll DEF IsOperation
<1> HIDE DEF base
<1>7. /\ new.doc = base.doc /\ new.headers = AddMissing(base.headers, hs)
      /\ new.security = Secured(base.security)
      /\ new = [doc |-> new.doc, headers |-> new.headers, security |-> new.security]
    BY <1>5 DEF Made
<1>8. IsOperation(new)
    BY <1>6, <1>7 DEF IsOperation
<1>9. new.security = SchemesOf(t) \/ (~Says(t[3]) /\ SchemesOf(t) = {})
    BY <1>4, <1>7 DEF Secured
<1>10. Operation(c, t, new) = new
    <2>1. CASE Says(t[3])
        BY <1>3, <1>5, <1>2, <1>4, <2>1 DEF Base, Says, base
    <2>2. CASE ~Says(t[3])
        <3>1. Operation(c, t, new) = Made(new)
            BY <1>2, <1>3, <1>8, <2>2 DEF Base, Says
        <3>2. AddMissing(new.headers, hs) = new.headers
            BY <1>1, <1>6, <1>7, AddMissingAll
        <3>3. Secured(new.security) = new.security
            BY <1>7 DEF Secured
        <3> QED
            BY <1>7, <3>1, <3>2, <3>3 DEF Made
    <2> QED
        BY <2>1, <2>2
<1> QED
    BY <1>4, <1>7, <1>8, <1>9, <1>10

\* The HTTP events of the applications, and those that get a path.
OfferedBy(c, o) == UNION {{t \in Offered(c, h) : Http(t)} : h \in ToSet(o)}
DescribedBy(paths, c, o, generate) ==
    {t \in OfferedBy(c, o) : t[3].doc # NoDoc \/ generate \/ Path(t) \in DOMAIN paths}
OldOf(paths, q) == IF q \in DOMAIN paths THEN paths[q] ELSE Stub

\* Each has a path of its own.
LEMMA PathsDiffer ==
    ASSUME NEW c \in Configs, NEW o \in Seq(Apps)
    PROVE  /\ \A t \in OfferedBy(c, o) : t[1] \in Apps /\ t[2] \in Apps /\ t[3] \in c[t[2]].events
           /\ \A t, u \in OfferedBy(c, o) : Path(t) = Path(u) => t = u
<1>1. ToSet(o) \subseteq Apps
    BY DEF ToSet
<1>2. ASSUME NEW t \in OfferedBy(c, o)
      PROVE  /\ t[1] \in Apps /\ t[2] \in Apps /\ t[3] \in c[t[2]].events
             /\ t = <<t[1], t[2], t[3]>>
    <2>1. PICK h \in Apps : t \in Offered(c, h)
        BY <1>1 DEF OfferedBy
    <2>2. CASE t \in {<<h, h, e>> : e \in {e \in c[h].events : e.plug_mode = "STANDALONE"}}
        BY <2>2
    <2>3. CASE t \in UNION {{<<h, p, e>> : e \in {e \in c[p].events : e.plug_mode = "ON_APP"}} :
                               p \in ToSet(c[h].plugins)}
        <3>1. c[h].plugins \in Seq(Apps)
            BY ApiAssumption
        <3>2. ToSet(c[h].plugins) \subseteq Apps
            BY <3>1 DEF ToSet
        <3> QED
            BY <2>3, <3>2
    <2> QED
        BY <2>1, <2>2, <2>3 DEF Offered
<1>3. ASSUME NEW t \in OfferedBy(c, o), NEW u \in OfferedBy(c, o), Path(t) = Path(u)
      PROVE  t = u
    <2>1. t[1] = u[1] /\ t[2] = u[2] /\ t[3].type = u[3].type /\ t[3].plug_mode = u[3].plug_mode
        BY <1>3 DEF Path
    <2>2. t[3] = u[3]
        <3>1. \A e, f \in c[t[2]].events : e.type = f.type /\ e.plug_mode = f.plug_mode => e = f
            BY <1>2, ApiAssumption
        <3>2. t[3] \in c[t[2]].events /\ u[3] \in c[t[2]].events
            BY <1>2, <2>1
        <3> QED
            BY <2>1, <3>1, <3>2
    <2>3. t = <<t[1], t[2], t[3]>> /\ u = <<u[1], u[2], u[3]>>
        BY <1>2
    <2> QED
        BY <2>1, <2>2, <2>3
<1> QED
    BY <1>2, <1>3

\* The paths that new has, where those of D were described over the old ones.
PathsUpdated(new, paths, c, D) ==
    /\ new = [q \in DOMAIN new |-> new[q]]
    /\ DOMAIN new = DOMAIN paths \cup {Path(t) : t \in D}
    /\ \A t \in D : new[Path(t)] = Operation(c, t, OldOf(paths, Path(t)))
    /\ \A q \in DOMAIN paths : (\A t \in D : Path(t) # q) => new[q] = paths[q]

LEMMA UpdatePathsMakes ==
    ASSUME NEW c \in Configs, NEW o \in Seq(Apps), NEW generate, NEW paths,
           NEW D, D = DescribedBy(paths, c, o, generate),
           NEW new, new = UpdatePaths(paths, c, o, generate)
    PROVE  PathsUpdated(new, paths, c, D)
<1>1. new = [q \in DOMAIN paths \cup {Path(t) : t \in D} |->
               IF \E t \in D : Path(t) = q
               THEN Operation(c, CHOOSE t \in D : Path(t) = q, OldOf(paths, q))
               ELSE paths[q]]
    BY DEF UpdatePaths, DescribedBy, OfferedBy, OldOf
<1>2. ASSUME NEW t \in D
      PROVE  (CHOOSE u \in D : Path(u) = Path(t)) = t
    <2>1. D \subseteq OfferedBy(c, o)
        BY DEF DescribedBy
    <2> QED
        BY <2>1, PathsDiffer
<1>3. DOMAIN new = DOMAIN paths \cup {Path(t) : t \in D}
    BY <1>1
<1>4. ASSUME NEW t \in D
      PROVE  new[Path(t)] = Operation(c, t, OldOf(paths, Path(t)))
    BY <1>1, <1>2
<1>5. \A q \in DOMAIN paths : (\A t \in D : Path(t) # q) => new[q] = paths[q]
    BY <1>1
<1> QED
    BY <1>1, <1>3, <1>4, <1>5 DEF PathsUpdated

LEMMA StubIsOperation == IsOperation(Stub)
<1>1. PICK d : Stub = [doc |-> d, headers |-> <<>>, security |-> {}]
    BY DEF Stub, Described
<1>2. <<>> \in Seq(Headers)
    BY EmptySeq
<1> QED
    BY <1>1, <1>2 DEF IsOperation

\* The paths keep their form, the security of those of an event is its own, and
\* what they refer to was referred to before or is a schema of an application.
LEMMA UpdatePathsKeeps ==
    ASSUME NEW c \in Configs, NEW o \in Seq(Apps), NEW generate, NEW paths, IsPaths(paths),
           \A h \in ToSet(o) : ToSet(c[h].plugins) \subseteq ToSet(o),
           NEW new, new = UpdatePaths(paths, c, o, generate)
    PROVE  /\ IsPaths(new)
           /\ \A t \in OfferedBy(c, o) : Path(t) \in DOMAIN new =>
                 \/ new[Path(t)].security = SchemesOf(t)
                 \/ ~Says(t[3]) /\ SchemesOf(t) = {}
           /\ \A q \in DOMAIN new :
                 \/ q \in DOMAIN paths /\ new[q].doc.refs = paths[q].doc.refs
                 \/ new[q].doc.refs \subseteq DOMAIN RuntimeSchemas(c, o)
<1> DEFINE D == DescribedBy(paths, c, o, generate)
<1>0. D = DescribedBy(paths, c, o, generate)
    OBVIOUS
<1> HIDE DEF D
<1>1. /\ new = [q \in DOMAIN new |-> new[q]]
      /\ DOMAIN new = DOMAIN paths \cup {Path(t) : t \in D}
      /\ \A t \in D : new[Path(t)] = Operation(c, t, OldOf(paths, Path(t)))
      /\ \A q \in DOMAIN paths : (\A t \in D : Path(t) # q) => new[q] = paths[q]
    <2>1. PathsUpdated(new, paths, c, D)
        BY <1>0, UpdatePathsMakes
    <2> QED
        BY <2>1 DEF PathsUpdated
<1>2. D \subseteq OfferedBy(c, o)
    BY <1>0 DEF DescribedBy
<1>3. \A q : IsOperation(OldOf(paths, q))
    BY StubIsOperation DEF OldOf, IsPaths
<1>4. ASSUME NEW t \in D
      PROVE  /\ IsOperation(new[Path(t)])
             /\ \/ new[Path(t)].security = SchemesOf(t)
                \/ ~Says(t[3]) /\ SchemesOf(t) = {}
             /\ new[Path(t)].doc = IF Says(t[3]) THEN EventApi(t[3].type, t[3].doc)
                                   ELSE OldOf(paths, Path(t)).doc
    <2>1. t[1] \in Apps /\ IsOperation(OldOf(paths, Path(t)))
        BY <1>2, <1>3, PathsDiffer
    <2>2. new[Path(t)] = Operation(c, t, OldOf(paths, Path(t)))
        BY <1>1
    <2> QED
        BY <2>1, <2>2, OperationAgain
<1>5. IsPaths(new)
    <2>1. ASSUME NEW q \in DOMAIN new
          PROVE  IsOperation(new[q])
        <3>1. CASE \E t \in D : Path(t) = q
            BY <1>4, <3>1
        <3>2. CASE \A t \in D : Path(t) # q
            BY <1>1, <3>2 DEF IsPaths
        <3> QED
            BY <3>1, <3>2
    <2> QED
        BY <1>1, <2>1 DEF IsPaths
<1>6. ASSUME NEW t \in OfferedBy(c, o), Path(t) \in DOMAIN new
      PROVE  t \in D
    <2>1. CASE Path(t) \in DOMAIN paths
        BY <1>0, <2>1 DEF DescribedBy
    <2>2. CASE \E u \in D : Path(u) = Path(t)
        BY <1>2, <2>2, PathsDiffer
    <2> QED
        BY <1>1, <1>6, <2>1, <2>2
<1>7. ASSUME NEW q \in DOMAIN new
      PROVE  \/ q \in DOMAIN paths /\ new[q].doc.refs = paths[q].doc.refs
             \/ new[q].doc.refs \subseteq DOMAIN RuntimeSchemas(c, o)
    <2>1. CASE \A t \in D : Path(t) # q
        BY <1>1, <2>1
    <2>2. ASSUME NEW t \in D, Path(t) = q, Says(t[3])
          PROVE  new[q].doc.refs \subseteq DOMAIN RuntimeSchemas(c, o)
        <3> DEFINE refs == SchemaRefs(t[3].doc.payload \cup t[3].doc.fields \cup t[3].doc.responses)
        <3>1. new[q].doc = EventApi(t[3].type, t[3].doc)
            BY <1>4, <2>2
        <3>5. new[q].doc.refs = refs
            BY <3>1 DEF EventApi
        <3>2. t[2] \in Apps /\ t[3] \in c[t[2]].events
            BY <1>2, PathsDiffer
        <3>3. refs \subseteq DOMAIN c[t[2]].data
            <4>1. \A e \in c[t[2]].events : e.doc \notin {NoDoc, FromFile} =>
                     SchemaRefs(e.doc.payload \cup e.doc.fields \cup e.doc.responses)
                        \subseteq DOMAIN c[t[2]].data
                BY <3>2, SchemasAssumption
            <4> QED
                BY <2>2, <3>2, <4>1 DEF Says
        <3>4. t[2] \in ToSet(o)
            <4>1. PICK h \in ToSet(o) : t \in Offered(c, h)
                BY <1>2 DEF OfferedBy
            <4>2. t[2] = h \/ t[2] \in ToSet(c[h].plugins)
                BY <4>1 DEF Offered
            <4> QED
                BY <4>1, <4>2
        <3>6. DOMAIN RuntimeSchemas(c, o) = UNION {DOMAIN c[a].data : a \in ToSet(o)}
            BY RuntimeSchemasFrom
        <3> HIDE DEF refs
        <3> QED
            BY <3>3, <3>4, <3>5, <3>6
    <2>3. ASSUME NEW t \in D, Path(t) = q, ~Says(t[3])
          PROVE  \/ q \in DOMAIN paths /\ new[q].doc.refs = paths[q].doc.refs
                 \/ new[q].doc.refs \subseteq DOMAIN RuntimeSchemas(c, o)
        <3>1. new[q].doc = OldOf(paths, q).doc
            BY <1>4, <2>3
        <3> QED
            BY <3>1 DEF OldOf, Stub, Described
    <2> QED
        BY <2>1, <2>2, <2>3
<1> QED
    BY <1>4, <1>5, <1>6, <1>7

PathsCurrent(paths, c, o) == UpdatePaths(paths, c, o, FALSE) = paths

\* Updated again, paths stay what they are.
LEMMA UpdatePathsAgain ==
    ASSUME NEW c \in Configs, NEW o \in Seq(Apps), NEW generate, NEW paths, IsPaths(paths),
           NEW new, new = UpdatePaths(paths, c, o, generate)
    PROVE  PathsCurrent(new, c, o)
<1>1. PICK D : D = DescribedBy(paths, c, o, generate)
    OBVIOUS
<1>2. PICK again : again = UpdatePaths(new, c, o, FALSE)
    OBVIOUS
<1>3. PathsUpdated(new, paths, c, D)
    BY <1>1, UpdatePathsMakes
<1>4. D \subseteq OfferedBy(c, o)
    BY <1>1 DEF DescribedBy
<1>5. DescribedBy(new, c, o, FALSE) = D
    <2>1. ASSUME NEW t \in OfferedBy(c, o), Path(t) \in DOMAIN new
          PROVE  t \in D
        <3>1. CASE Path(t) \in DOMAIN paths
            BY <1>1, <3>1 DEF DescribedBy
        <3>2. CASE \E u \in D : Path(u) = Path(t)
            BY <1>4, <3>2, PathsDiffer
        <3> QED
            BY <1>3, <2>1, <3>1, <3>2 DEF PathsUpdated
    <2>2. \A t \in D : Path(t) \in DOMAIN new
        BY <1>3 DEF PathsUpdated
    <2>3. \A t \in OfferedBy(c, o) : t[3].doc # NoDoc => t \in D
        BY <1>1 DEF DescribedBy
    <2> QED
        BY <1>4, <2>1, <2>2, <2>3 DEF DescribedBy
<1>6. PathsUpdated(again, new, c, D)
    BY <1>2, <1>5, UpdatePathsMakes
<1>7. DOMAIN again = DOMAIN new
    BY <1>3, <1>6 DEF PathsUpdated
<1>8. ASSUME NEW q \in DOMAIN new
      PROVE  again[q] = new[q]
    <2>1. CASE \A t \in D : Path(t) # q
        BY <1>6, <2>1 DEF PathsUpdated
    <2>2. ASSUME NEW t \in D, Path(t) = q
          PROVE  again[q] = new[q]
        <3>1. new[q] = Operation(c, t, OldOf(paths, q))
            BY <1>3, <2>2 DEF PathsUpdated
        <3>2. again[q] = Operation(c, t, new[q])
            BY <1>6, <2>2 DEF PathsUpdated, OldOf
        <3>3. t[1] \in Apps
            BY <1>4, PathsDiffer
        <3>4. IsOperation(OldOf(paths, q))
            BY StubIsOperation DEF OldOf, IsPaths
        <3> QED
            BY <3>1, <3>2, <3>3, <3>4, OperationAgain
    <2> QED
        BY <2>1, <2>2
<1>9. UpdatePaths(new, c, o, FALSE) = new
    BY <1>2, <1>3, <1>6, <1>7, <1>8 DEF PathsUpdated
<1> QED
    BY <1>9, Zenon DEF PathsCurrent

\* What a file is: whatever a path or a schema refers to is in it.
IsSpec(s) ==
    /\ s = [version |-> s.version, paths |-> s.paths, schemas |-> s.schemas]
    /\ IsPaths(s.paths)
    /\ RefsOf(s.paths, s.schemas) \subseteq DOMAIN s.schemas

\* The security of the paths is that of the events, or was there before when
\* they say nothing and ask for none.
Agrees(s, c, o) ==
    \A t \in OfferedBy(c, o) : Path(t) \in DOMAIN s.paths =>
        \/ s.paths[Path(t)].security = SchemesOf(t)
        \/ ~Says(t[3]) /\ SchemesOf(t) = {}

\* All the schemas before those that nothing refers to are removed.
AllSchemas(c, o, old) == Over(Predefined, Over(RuntimeSchemas(c, o), old))

LEMMA RegisterMakes ==
    ASSUME NEW c \in Configs, NEW o \in Seq(Apps), NEW generate, NEW old, IsSpec(old),
           NEW new, new = Register(old, c, o, generate)
    PROVE  /\ new = [version |-> old.version, paths |-> new.paths, schemas |-> new.schemas]
           /\ new.paths = UpdatePaths(old.paths, c, o, generate)
           /\ new.schemas = Restrict(AllSchemas(c, o, old.schemas),
                                     Used(new.paths, AllSchemas(c, o, old.schemas)))
<1>1. PICK P : P = UpdatePaths(old.paths, c, o, generate)
    OBVIOUS
<1>2. PICK A : A = AllSchemas(c, o, old.schemas)
    OBVIOUS
<1>3. PICK R : R = Restrict(A, Used(P, A))
    OBVIOUS
<1>4. new = [old EXCEPT !.paths = P, !.schemas = R]
    BY <1>1, <1>2, <1>3, Zenon DEF Register, AllSchemas
<1>5. PICK v, p, s : old = [version |-> v, paths |-> p, schemas |-> s]
    BY DEF IsSpec
<1>6. PICK m : m = [old EXCEPT !.paths = P]
    OBVIOUS
<1>7. m = [version |-> v, paths |-> P, schemas |-> s]
    BY <1>5, <1>6
<1>8. new = [m EXCEPT !.schemas = R]
    BY <1>4, <1>6, Zenon
<1>9. new = [version |-> v, paths |-> P, schemas |-> R]
    BY <1>7, <1>8
<1>10. new.paths = P /\ new.schemas = R /\ old.version = v
    BY <1>5, <1>9
<1> QED
    BY <1>1, <1>2, <1>3, <1>9, <1>10

\* A file that is written is a specification, and agrees with its applications.
LEMMA RegisterKeeps ==
    ASSUME NEW c \in Configs, NEW o \in Seq(Apps), NEW generate, NEW old, IsSpec(old),
           \A h \in ToSet(o) : ToSet(c[h].plugins) \subseteq ToSet(o),
           NEW new, new = Register(old, c, o, generate)
    PROVE  IsSpec(new) /\ Agrees(new, c, o)
<1>1. PICK A : A = AllSchemas(c, o, old.schemas)
    OBVIOUS
<1>2. PICK U : U = Used(new.paths, A)
    OBVIOUS
<1>3. /\ new = [version |-> old.version, paths |-> new.paths, schemas |-> new.schemas]
      /\ new.paths = UpdatePaths(old.paths, c, o, generate)
      /\ new.schemas = Restrict(A, U)
    BY <1>1, <1>2, RegisterMakes
<1>4. /\ IsPaths(new.paths) /\ Agrees(new, c, o)
      /\ \A q \in DOMAIN new.paths :
            \/ q \in DOMAIN old.paths /\ new.paths[q].doc.refs = old.paths[q].doc.refs
            \/ new.paths[q].doc.refs \subseteq DOMAIN RuntimeSchemas(c, o)
    BY <1>3, UpdatePathsKeeps DEF IsSpec, Agrees
<1>5. DOMAIN A = {"ErrorInfo"} \cup DOMAIN RuntimeSchemas(c, o) \cup DOMAIN old.schemas
    BY <1>1 DEF AllSchemas, Over, Predefined
<1>6. \A q \in DOMAIN new.paths : new.paths[q].doc.refs \subseteq DOMAIN A
    BY <1>4, <1>5 DEF IsSpec, RefsOf
<1>7. ASSUME NEW n \in DOMAIN A
      PROVE  A[n].refs \subseteq DOMAIN A
    <2>1. CASE n = "ErrorInfo"
        <3>1. A[n].refs = {}
            BY <1>1, <2>1 DEF AllSchemas, Over, Predefined
        <3> QED
            BY <3>1
    <2>2. CASE n # "ErrorInfo" /\ n \in DOMAIN RuntimeSchemas(c, o)
        <3>1. A[n] = RuntimeSchemas(c, o)[n]
            BY <1>1, <2>2 DEF AllSchemas, Over, Predefined
        <3>2. PICK a \in ToSet(o) : n \in DOMAIN c[a].data /\ RuntimeSchemas(c, o)[n] = c[a].data[n]
            BY <2>2, RuntimeSchemasFrom
        <3>3. a \in Apps
            BY DEF ToSet
        <3>4. c[a].data[n].refs \subseteq DOMAIN c[a].data
            BY <3>2, <3>3, SchemasAssumption
        <3>5. DOMAIN RuntimeSchemas(c, o) = UNION {DOMAIN c[b].data : b \in ToSet(o)}
            BY RuntimeSchemasFrom
        <3> QED
            BY <1>5, <3>1, <3>2, <3>4, <3>5
    <2>3. CASE n # "ErrorInfo" /\ n \notin DOMAIN RuntimeSchemas(c, o)
        <3>1. n \in DOMAIN old.schemas /\ A[n] = old.schemas[n]
            BY <1>1, <1>5, <2>3 DEF AllSchemas, Over, Predefined
        <3>2. old.schemas[n].refs \subseteq DOMAIN old.schemas
            BY <3>1 DEF IsSpec, RefsOf
        <3> QED
            BY <1>5, <3>1, <3>2
    <2> QED
        BY <2>1, <2>2, <2>3
<1>8. RefsOf(new.paths, A) \subseteq DOMAIN A
    BY <1>6, <1>7 DEF RefsOf
<1>9. RefsOf(new.paths, Restrict(A, U)) \subseteq U
    BY <1>2, <1>8, UsedSchemas
<1>10. DOMAIN new.schemas = U
    BY <1>3 DEF Restrict
<1> QED
    BY <1>3, <1>4, <1>9, <1>10 DEF IsSpec

\* Registered again, a file stays what it is.
LEMMA RegisterAgain ==
    ASSUME NEW c \in Configs, NEW o \in Seq(Apps), NEW generate, NEW old, IsSpec(old), NEW v,
           \A h \in ToSet(o) : ToSet(c[h].plugins) \subseteq ToSet(o),
           NEW new, new = [Register(old, c, o, generate) EXCEPT !.version = v]
    PROVE  IsSpec(new) /\ Current(new, c, o)
<1>1. PICK first : first = Register(old, c, o, generate)
    OBVIOUS
<1>2. PICK A : A = AllSchemas(c, o, old.schemas)
    OBVIOUS
<1>3. PICK U : U = Used(first.paths, A)
    OBVIOUS
<1>4. /\ first = [version |-> old.version, paths |-> first.paths, schemas |-> first.schemas]
      /\ first.paths = UpdatePaths(old.paths, c, o, generate)
      /\ first.schemas = Restrict(A, U)
    BY <1>1, <1>2, <1>3, RegisterMakes
<1>5. new = [version |-> v, paths |-> first.paths, schemas |-> first.schemas]
    BY <1>1, <1>4
<1>6. new.version = v /\ new.paths = first.paths /\ new.schemas = first.schemas
    BY <1>5
<1>7. IsSpec(new)
    <2>1. IsSpec(first)
        BY <1>1, RegisterKeeps
    <2> QED
        BY <1>5, <1>6, <2>1 DEF IsSpec
<1>8. PICK again : again = Register(new, c, o, FALSE)
    OBVIOUS
<1>9. PICK B : B = AllSchemas(c, o, new.schemas)
    OBVIOUS
<1>10. /\ again = [version |-> new.version, paths |-> again.paths, schemas |-> again.schemas]
       /\ again.paths = UpdatePaths(new.paths, c, o, FALSE)
       /\ again.schemas = Restrict(B, Used(again.paths, B))
    <2>1. \A no : no = FALSE =>
             LET r == Register(new, c, o, no)  A2 == AllSchemas(c, o, new.schemas) IN
             /\ r = [version |-> new.version, paths |-> r.paths, schemas |-> r.schemas]
             /\ r.paths = UpdatePaths(new.paths, c, o, no)
             /\ r.schemas = Restrict(A2, Used(r.paths, A2))
        BY <1>7, RegisterMakes
    <2> QED
        BY <1>8, <1>9, <2>1
<1>11. again.paths = new.paths
    <2>1. IsPaths(old.paths)
        BY DEF IsSpec
    <2>2. first.paths = UpdatePaths(old.paths, c, o, generate)
        BY <1>4
    <2>3. UpdatePaths(first.paths, c, o, FALSE) = first.paths
        <3>1. PICK p : p = old.paths
            OBVIOUS
        <3>2. PICK q : q = first.paths
            OBVIOUS
        <3>3. IsPaths(p) /\ q = UpdatePaths(p, c, o, generate)
            BY <2>1, <2>2, <3>1, <3>2
        <3>4. PathsCurrent(q, c, o)
            BY <3>3, UpdatePathsAgain
        <3> QED
            BY <3>2, <3>4, Zenon DEF PathsCurrent
    <2> QED
        BY <1>6, <1>10, <2>3
<1>12. U \subseteq DOMAIN A /\ U \subseteq RefsOf(new.paths, Restrict(A, U))
       /\ \A S \in SUBSET DOMAIN A : S \subseteq RefsOf(new.paths, Restrict(A, S)) => S \subseteq U
    BY <1>3, <1>6, UsedSchemas
<1>13. U \subseteq DOMAIN B /\ DOMAIN B \subseteq DOMAIN A /\ \A n \in DOMAIN B : B[n] = A[n]
    <2>1. new.schemas = [n \in U |-> A[n]]
        BY <1>4, <1>6 DEF Restrict
    <2>2. DOMAIN new.schemas = U /\ \A n \in U : new.schemas[n] = A[n]
        BY <2>1
    <2>3. DOMAIN A = {"ErrorInfo"} \cup DOMAIN RuntimeSchemas(c, o) \cup DOMAIN old.schemas
        BY <1>2 DEF AllSchemas, Over, Predefined
    <2>4. DOMAIN B = {"ErrorInfo"} \cup DOMAIN RuntimeSchemas(c, o) \cup U
        BY <1>9, <2>2 DEF AllSchemas, Over, Predefined
    <2>5. ASSUME NEW n \in DOMAIN B
          PROVE  B[n] = A[n]
        <3>1. CASE n = "ErrorInfo"
            BY <1>2, <1>9, <3>1 DEF AllSchemas, Over, Predefined
        <3>2. CASE n # "ErrorInfo" /\ n \in DOMAIN RuntimeSchemas(c, o)
            BY <1>2, <1>9, <3>2 DEF AllSchemas, Over, Predefined
        <3>3. CASE n # "ErrorInfo" /\ n \notin DOMAIN RuntimeSchemas(c, o)
            <4>1. n \in U /\ B[n] = new.schemas[n]
                BY <1>9, <2>4, <3>3 DEF AllSchemas, Over, Predefined
            <4> QED
                BY <2>2, <4>1
        <3> QED
            BY <3>1, <3>2, <3>3
    <2> QED
        BY <1>12, <2>3, <2>4, <2>5
<1>14. \A S \in SUBSET DOMAIN B : Restrict(B, S) = Restrict(A, S)
    BY <1>13 DEF Restrict
<1>15. Used(new.paths, B) = U
    <2>1. PICK W : W = Used(new.paths, B)
        OBVIOUS
    <2>2. W \subseteq DOMAIN B /\ W \subseteq RefsOf(new.paths, Restrict(B, W))
          /\ \A S \in SUBSET DOMAIN B : S \subseteq RefsOf(new.paths, Restrict(B, S)) => S \subseteq W
        BY <2>1, UsedSchemas
    <2>3. U \subseteq W
        BY <1>12, <1>13, <1>14, <2>2
    <2>4. W \subseteq U
        BY <1>12, <1>13, <1>14, <2>2
    <2> QED
        BY <2>1, <2>3, <2>4
<1>16. again.schemas = new.schemas
    BY <1>4, <1>6, <1>10, <1>11, <1>13, <1>14, <1>15
<1>17. again = new
    BY <1>5, <1>6, <1>10, <1>11, <1>16
<1> QED
    BY <1>7, <1>8, <1>17 DEF Current

-----------------------------------------------------------------------------
(* The API file and the specification of the server                         *)

Serving == {"start", "connected", "setup", "ready"}
ApiInv ==
    /\ IsSpec(file) /\ (fresh => Current(file, conf, order))
    /\ at \in Serving /\ api # "none" =>
          Agrees(spec, conf, order) /\ RefsOf(spec.paths, spec.schemas) \subseteq DOMAIN spec.schemas
    /\ launcher = "job" => api = "none"

LEMMA EmptyIsSpec == IsSpec(EmptySpec)
<1>1. DOMAIN <<>> = {}
    OBVIOUS
<1>2. /\ EmptySpec = [version |-> 0, paths |-> <<>>, schemas |-> <<>>]
      /\ EmptySpec.paths = <<>> /\ EmptySpec.schemas = <<>> /\ EmptySpec.version = 0
    BY DEF EmptySpec
<1>3. <<>> = [q \in DOMAIN <<>> |-> <<>>[q]]
    OBVIOUS
<1>4. IsPaths(<<>>)
    BY <1>1, <1>3 DEF IsPaths
<1>5. RefsOf(<<>>, <<>>) = {}
    BY <1>1 DEF RefsOf
<1> QED
    BY <1>1, <1>2, <1>4, <1>5 DEF IsSpec

\* What a file can be made from: applications with their plugins.
LEMMA InputTypes ==
    ASSUME TypeOK, NEW base, NEW r \in Inputs(base)
    PROVE  /\ r[1] \in Configs /\ r[2] \in Seq(Apps)
           /\ \A h \in ToSet(r[2]) : ToSet(r[1][h].plugins) \subseteq ToSet(r[2])
<1>1. Complete(base, r[1], r[2])
    BY DEF Inputs
<1>2. r \in Configs \X Seq(Apps)
    <2>1. conf \in Configs /\ order \in Seq(Apps)
        BY StartupAssumption DEF TypeOK
    <2>2. r \in Releases \/ r = <<conf, order>>
        BY DEF Inputs
    <2> QED
        BY <2>1, <2>2, StartupAssumption
<1> QED
    BY <1>1, <1>2 DEF Complete

LEMMA WriteKeepsApi ==
    ASSUME TypeOK, ApiInv, CreateFile \/ UpdateFile
    PROVE  ApiInv'
<1>1. PICK base, v, generate, r :
         /\ IsSpec(base) /\ r \in Inputs(base)
         /\ file' = Updated(base, v, r[1], r[2], generate)
         /\ fresh' = (r = <<conf, order>>)
    <2>1. CASE CreateFile
        <3>1. PICK r \in Inputs(EmptySpec), v \in Versions, generate \in BOOLEAN :
                 file' = Created(v, r[1], r[2], generate) /\ fresh' = (r = <<conf, order>>)
            BY <2>1 DEF CreateFile
        <3>2. Created(v, r[1], r[2], generate) = Updated(EmptySpec, v, r[1], r[2], generate)
            BY Zenon DEF Created, Updated
        <3> QED
            BY <3>1, <3>2, EmptyIsSpec
    <2>2. CASE UpdateFile
        BY <2>2 DEF UpdateFile, ApiInv
    <2> QED
        BY <2>1, <2>2
<1>2. at = "files" /\ UNCHANGED <<conf, order, launcher, api, at>>
    BY DEF CreateFile, UpdateFile
<1>3. IsSpec(file') /\ Current(file', r[1], r[2])
    <2>1. /\ r[1] \in Configs /\ r[2] \in Seq(Apps)
          /\ \A h \in ToSet(r[2]) : ToSet(r[1][h].plugins) \subseteq ToSet(r[2])
        BY <1>1, InputTypes
    <2>2. PICK c, o : c = r[1] /\ o = r[2]
        OBVIOUS
    <2>3. c \in Configs /\ o \in Seq(Apps) /\ \A h \in ToSet(o) : ToSet(c[h].plugins) \subseteq ToSet(o)
        BY <2>1, <2>2
    <2>4. PICK new : new = Updated(base, v, c, o, generate)
        OBVIOUS
    <2>5. new = [Register(base, c, o, generate) EXCEPT !.version = v]
        BY <2>4, Zenon DEF Updated
    <2>6. IsSpec(new) /\ Current(new, c, o)
        BY <1>1, <2>3, <2>5, RegisterAgain
    <2>7. file' = new
        BY <1>1, <2>2, <2>4, Zenon
    <2> QED
        BY <2>2, <2>6, <2>7
<1>4. ASSUME fresh'
      PROVE  Current(file', conf, order)
    <2>1. r = <<conf, order>>
        BY <1>1, <1>4
    <2>2. r[1] = conf /\ r[2] = order
        BY <2>1
    <2> QED
        BY <1>3, <2>2, Zenon
<1> QED
    BY <1>2, <1>3, <1>4 DEF ApiInv, Serving

LEMMA PrepareKeepsApi ==
    ASSUME TypeOK, ApiInv, Prepare
    PROVE  ApiInv'
<1>1. UNCHANGED <<conf, order, launcher, api, file, fresh>>
    BY DEF Prepare
<1>2. ASSUME at' \in Serving, api # "none"
      PROVE  Agrees(spec', conf, order) /\ RefsOf(spec'.paths, spec'.schemas) \subseteq DOMAIN spec'.schemas
    <2>1. /\ Complete(file, conf, order) /\ (api = "file" => Current(file, conf, order))
          /\ spec' = IF api = "file" THEN file ELSE Register(EmptySpec, conf, order, FALSE)
        BY <1>2 DEF Prepare, Serving
    <2>2. conf \in Configs /\ order \in Seq(Apps)
        BY StartupAssumption DEF TypeOK
    <2>3. \A h \in ToSet(order) : ToSet(conf[h].plugins) \subseteq ToSet(order)
        BY <2>1 DEF Complete
    <2>4. PICK base : IsSpec(base) /\ spec' = Register(base, conf, order, FALSE)
        BY <2>1, EmptyIsSpec DEF ApiInv, Current
    <2> QED
        BY <2>2, <2>3, <2>4, RegisterKeeps DEF IsSpec
<1> QED
    BY <1>1, <1>2 DEF ApiInv

LEMMA ApiKept ==
    ASSUME TypeOK, ApiInv, [Next]_vars
    PROVE  ApiInv'
<1>1. CASE CreateFile \/ UpdateFile
    BY <1>1, WriteKeepsApi
<1>2. CASE Prepare
    BY <1>2, PrepareKeepsApi
<1>3. ASSUME \/ SelectOwner \/ StartApp \/ FinishStart \/ SetUp \/ NextHook
             \/ OwnerSetUp \/ Execute \/ Signal \/ StopNext \/ UNCHANGED vars
      PROVE  ApiInv'
    <2>1. UNCHANGED <<conf, order, launcher, api, file, fresh, spec>>
        BY <1>3 DEF SelectOwner, StartApp, FinishStart, SetUp, NextHook, OwnerSetUp, Execute,
                    Signal, StopNext, vars
    <2>2. at' \in Serving => at \in Serving \/ launcher = "job"
        BY <1>3 DEF SelectOwner, StartApp, FinishStart, SetUp, NextHook, OwnerSetUp, Execute,
                    Signal, StopNext, vars, Serving, Fail
    <2> QED
        BY <2>1, <2>2 DEF ApiInv
<1> QED
    BY <1>1, <1>2, <1>3 DEF Next

LEMMA ApiInvariant == Spec => [](TypeOK /\ ApiInv)
<1>1. Init => ApiInv
    BY EmptyIsSpec DEF Init, Options, ApiInv, Serving, StartupAssumption
<1>2. Spec => []TypeOK
    BY TypeCorrect
<1>3. TypeOK /\ ApiInv /\ [Next]_vars => ApiInv'
    BY ApiKept
<1> QED
    BY <1>1, <1>2, <1>3, PTL DEF Spec

\* A file that was written for the applications of the server, over whatever
\* file there was, is what the server computes from it: it starts
\* (register_apps, enable_swagger).
THEOREM FreshFile == Spec => []FreshFileServes
<1>1. ApiInv => FreshFileServes
    BY DEF ApiInv, FreshFileServes
<1> QED
    BY <1>1, ApiInvariant, PTL

\* Whatever was in its file, a server that is ready asks for what its events ask
\* for, and each schema that is referred to is there (_set_path_security).
THEOREM ServedCurrent == Spec => []ServedIsCurrent
<1>1. ASSUME TypeOK, ApiInv, at = "ready", api # "none"
      PROVE  ServedIsCurrent
    <2>1. Agrees(spec, conf, order) /\ RefsOf(spec.paths, spec.schemas) \subseteq DOMAIN spec.schemas
        BY <1>1 DEF ApiInv, Serving
    <2>2. ASSUME NEW h \in ToSet(order), NEW t \in Offered(conf, h), Http(t), Validated(t)
          PROVE  \/ spec.paths[Path(t)].security = Schemes(h, Methods(t[3]))
                 \/ t[3].doc \in {NoDoc, FromFile} /\ Schemes(h, Methods(t[3])) = {}
        <3>1. t \in OfferedBy(conf, order) /\ Path(t) \in DOMAIN spec.paths
            BY <2>2 DEF OfferedBy, Validated
        <3>2. t[1] = h
            BY DEF Offered
        <3> QED
            BY <2>1, <3>1, <3>2 DEF Agrees, SchemesOf, Says
    <2> QED
        BY <2>1, <2>2 DEF ServedIsCurrent
<1>2. TypeOK /\ ApiInv => ServedIsCurrent
    BY <1>1 DEF ServedIsCurrent
<1> QED
    BY <1>2, ApiInvariant, PTL
=============================================================================
