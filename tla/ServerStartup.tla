---------------------------- MODULE ServerStartup ----------------------------
(***************************************************************************)
(* How the applications of a process are started and stopped: the startup   *)
(* hooks of the web server (server/web.py), the job runner (server/job.py)  *)
(* and the Server both use (server/engine.py).  Each hook runs to its end   *)
(* before the next one starts; any await in it may raise.                   *)
(*                                                                          *)
(* What an application does once it runs is in the other modules.           *)
(***************************************************************************)
EXTENDS ApiSpec

CONSTANTS Orders,     \* possible orders of --config-files
          Releases,   \* earlier applications, with their order
          MaxWrites,  \* bound of the model: writes of the API file
          Launchers,  \* what may start the process: "web", "job"
          EnabledGroups, \* possible --enabled-groups, none for all
          CreateKeys, \* BOOLEAN: auth.create_keys
          MaxFaults,  \* bound of the model
          NoApp, NoEvent

ASSUME StartupAssumption ==
    /\ Orders \subseteq Seq(Apps) /\ Releases \subseteq Configs \X Seq(Apps)
    /\ Launchers \subseteq {"web", "job"} /\ CreateKeys \in BOOLEAN
    /\ MaxWrites \in Nat /\ MaxFaults \in Nat /\ NoApp \notin Apps /\ NoEvent \notin Events
    /\ \A o \in Orders : o # <<>> /\ IsInjective(o)
    /\ \A c \in Configs : \A a \in Apps : c[a].connections \in Nat

VARIABLES
    conf, order, launcher, \* what the process is started with
    groups, streams, \* --enabled-groups and --start-streams
    api,            \* "file", "auto" or "none": what the server validates with
    file,           \* the API file
    fresh, writes,  \* it was last written for conf and order; how many times it was
    spec,           \* the specification the server runs with
    request, owner, \* the job: its event and the application that has it
    result,         \* how the event of the job ended
    at,             \* where the process is
    app,            \* the application whose hook runs
    todo,           \* what is left of the hook: events of host and plugin
    engine,         \* of each application, its engine
    engines,        \* app_engines: the registered ones, in order
    clients,        \* of each application, how many of its app_connections are open
    routes,         \* <<host, plugin, event>> that have a route
    ran,            \* how often each <<host, plugin>> ran its SETUP event
    tasks,          \* <<application, type>> of the background events started
    worked,         \* an event other than a SETUP one has been started
    faults

choice == <<conf, order, launcher, groups, streams, api, request>>
job == <<owner, result>>
apis == <<file, fresh, writes, spec>>
vars == <<choice, job, apis, at, app, todo, engine, engines, clients, routes, ran, tasks, worked, faults>>

Places == {"files", "start", "connected", "setup", "ready", "owner", "stopping", "ended", "aborted"}
Background(e) == e.type \in {"STREAM", "SERVICE"}
\* The events of an application that run here.
Enabled(e) == groups = {} \/ e.group \in groups \cup {"DEFAULT"}
Effective(a) == {e \in conf[a].events : Enabled(e)}
HasStreams(a) == \E e \in Effective(a) : e.type = "STREAM" \/ e.writes
Registered(a) == a \in ToSet(engines)
\* Every host runs each kind of SETUP event at most once for each plugin.
Pairs == Apps \X Apps \X PlugModes

\* The command line of the web server and that of a job.
Options ==
    /\ IF launcher = "web"
       THEN /\ groups \in EnabledGroups /\ streams \in BOOLEAN
            /\ api \in {"none", "auto", "file"} /\ request = NoEvent
       ELSE groups = {} /\ streams = FALSE /\ api = "none" /\ request \in Events
    /\ owner = NoApp /\ result = "none"

Init ==
    /\ conf \in Configs /\ order \in Orders /\ launcher \in Launchers /\ Options
    /\ file = EmptySpec /\ fresh = FALSE /\ writes = 0 /\ spec = EmptySpec
    /\ at = "files" /\ app = Head(order) /\ todo = {}
    /\ engine = [a \in Apps |-> "none"] /\ engines = <<>> /\ clients = [a \in Apps |-> 0]
    /\ routes = {} /\ ran = [p \in Pairs |-> 0] /\ tasks = {}
    /\ worked = FALSE /\ faults = 0

\* Mutant: a job that fails to start ends without stopping anything.
FailUnstopped == at' = "ended"

\* A hook raises.  The job runner stops what it has started, the web server
\* ends without.
Fail == at' = IF launcher = "job" THEN "stopping" ELSE "ended"
Fault == faults < MaxFaults /\ faults' = faults + 1

-----------------------------------------------------------------------------
(* The API file: the commands of `hopeit openapi`, and prepare_engine       *)

Inputs(base) == {r \in Releases \cup {<<conf, order>>} : Complete(base, r[1], r[2])}

CreateFile ==
    \E r \in Inputs(EmptySpec), v \in Versions, generate \in BOOLEAN :
    /\ at = "files" /\ api = "file" /\ writes < MaxWrites /\ writes' = writes + 1
    /\ file' = Created(v, r[1], r[2], generate)
    /\ fresh' = (r = <<conf, order>>)
    /\ UNCHANGED <<choice, job, spec, at, app, todo, engine, engines, clients, routes, ran, tasks, worked, faults>>

\* Refused when there are changes and the version is the same.
UpdateFile ==
    \E r \in Inputs(file), v \in Versions, generate \in BOOLEAN :
    /\ at = "files" /\ api = "file" /\ 0 < writes /\ writes < MaxWrites /\ writes' = writes + 1
    /\ ~Refused(file, v, r[1], r[2], generate)
    /\ file' = Updated(file, v, r[1], r[2], generate)
    /\ fresh' = (r = <<conf, order>>)
    /\ UNCHANGED <<choice, job, spec, at, app, todo, engine, engines, clients, routes, ran, tasks, worked, faults>>

\* The server reads its configuration files: with a file that differs from
\* what it computes it does not start.
Prepare ==
    /\ at = "files" /\ launcher = "web"
    /\ api = "file" => writes > 0
    /\ \/ /\ api # "none" => Complete(file, conf, order)
          /\ api = "file" => Current(file, conf, order)
          /\ at' = "start"
          /\ spec' = CASE api = "none" -> EmptySpec [] api = "file" -> file
                       [] OTHER -> Register(EmptySpec, conf, order, FALSE)
       \/ /\ api # "none" /\ (~Complete(file, conf, order) \/ (api = "file" /\ ~Current(file, conf, order)))
          /\ at' = "ended" /\ UNCHANGED spec
    /\ UNCHANGED <<choice, job, file, fresh, writes, app, todo, engine, engines, clients, routes, ran, tasks, worked, faults>>

\* A job needs one application that has its event, and not two.
SelectOwner ==
    LET matches == {a \in ToSet(order) : request \in conf[a].events} IN
    /\ at = "files" /\ launcher = "job"
    /\ IF Cardinality(matches) = 1 THEN at' = "start" /\ owner' \in matches
       ELSE at' = "ended" /\ UNCHANGED owner
    /\ UNCHANGED <<choice, result, apis, app, todo, engine, engines, clients, routes, ran, tasks, worked, faults>>

-----------------------------------------------------------------------------
(* start_app and AppEngine.start                                            *)

\* The web server looks the plugins' engines up, the job runner their
\* configuration files.
PluginsFound(a) ==
    \A p \in ToSet(conf[a].plugins) :
        IF launcher = "web" THEN Registered(p) ELSE p \in ToSet(order)

\* The stream manager connects.
StartApp ==
    /\ at = "start"
    /\ IF ~PluginsFound(app) THEN Fail /\ UNCHANGED <<engine, faults>>
       ELSE \/ /\ at' = "connected" /\ UNCHANGED faults
               /\ engine' = [engine EXCEPT ![app] = IF HasStreams(app) THEN "connected" ELSE "new"]
            \/ HasStreams(app) /\ Fault /\ Fail /\ UNCHANGED engine
    /\ UNCHANGED <<choice, job, apis, app, todo, engines, clients, routes, ran, tasks, worked>>

\* What the hook of an application does with its events and its plugins'.
HookEvents(a) ==
    IF launcher = "web"
    THEN {t \in Offered(conf, a) : Enabled(t[3])}
    ELSE {<<a, a, e>> : e \in {e \in conf[a].events : e.type = "SETUP"}}

KeysReady(a) == conf[a].keys \/ CreateKeys

\* The clients of the application's connections start one after the other; those
\* that did stay open when one fails.
RegisterAppConnections(a, all) ==
    \E n \in IF all THEN {conf[a].connections} ELSE 0..conf[a].connections :
        clients' = [clients EXCEPT ![a] = n]

\* They stop one after the other; those that are left stay open when one fails.
StopAppConnections(a, all) ==
    \E n \in IF all THEN {0} ELSE 0..clients[a] : clients' = [clients EXCEPT ![a] = n]

\* The keys are found or created, the connections of the application opened;
\* then the engine is registered.  What fails here is not registered, and
\* its stream manager stays connected.
FinishStart ==
    /\ at = "connected"
    /\ \/ /\ KeysReady(app)
          /\ RegisterAppConnections(app, TRUE)
          /\ engine' = [engine EXCEPT ![app] = "started"]
          /\ engines' = Append(engines, app)
          /\ at' = "setup" /\ todo' = HookEvents(app)
          /\ UNCHANGED faults
       \/ /\ ~KeysReady(app) /\ Fail /\ UNCHANGED <<engine, engines, clients, todo, faults>>
       \/ /\ KeysReady(app) /\ Fault /\ Fail /\ RegisterAppConnections(app, FALSE)
          /\ UNCHANGED <<engine, engines, todo>>
    /\ UNCHANGED <<choice, job, apis, app, routes, ran, tasks, worked>>

-----------------------------------------------------------------------------
(* Routes and SETUP events                                                  *)

AddRoute(t) == routes' = routes \cup {t}

\* Requests to a route whose path is in the specification are validated.
Validated(t) == api # "none" /\ Path(t) \in DOMAIN spec.paths
Run(h, p, e) == ran' = [ran EXCEPT ![<<h, p, e.plug_mode>>] = @ + 1]

\* The web server gives each event its routes and executes those of type
\* SETUP; a background event that is to run ON_APP is an error.
SetUp ==
    \E t \in todo : LET h == t[1]  p == t[2]  e == t[3] IN
    /\ at = "setup"
    /\ todo' = todo \ {t}
    /\ CASE e.type = "SETUP" ->
              /\ \/ Run(h, p, e) /\ UNCHANGED <<at, faults>>
                 \/ Fault /\ Fail /\ UNCHANGED ran
              /\ UNCHANGED routes
         [] Background(e) /\ h # p -> Fail /\ UNCHANGED <<routes, ran, faults>>
         [] OTHER -> AddRoute(t) /\ UNCHANGED <<at, ran, faults>>
    /\ UNCHANGED <<choice, job, apis, app, engine, engines, clients, tasks, worked>>

\* What the job runner does when every application has started: the ON_APP
\* SETUP events of the owner's plugins.
OwnersPlugins ==
    {t \in Offered(conf, owner) : t[3].type = "SETUP" /\ t[3].plug_mode = "ON_APP"}

BackgroundOf(a) == {<<a, e.type>> : e \in {e \in Effective(a) : Background(e)}}

\* Mutant: streams start with the hook of their application.
NextHookStreaming ==
    /\ at = "setup" /\ todo = {}
    /\ tasks' = tasks \cup BackgroundOf(app)
    /\ worked' = (tasks' # {})
    /\ IF app # Last(order)
       THEN at' = "start" /\ app' = order[Len(engines) + 1]
       ELSE at' = "ready" /\ UNCHANGED app
    /\ UNCHANGED <<choice, job, apis, todo, engine, engines, clients, routes, ran, faults>>

\* Mutant: the hooks that start streams are all made for the last application.
NextHookLast ==
    /\ at = "setup" /\ todo = {}
    /\ tasks' = IF streams /\ app = Last(order) THEN BackgroundOf(app) ELSE {}
    /\ worked' = (tasks' # {})
    /\ IF app # Last(order)
       THEN at' = "start" /\ app' = order[Len(engines) + 1]
       ELSE at' = "ready" /\ UNCHANGED app
    /\ UNCHANGED <<choice, job, apis, todo, engine, engines, clients, routes, ran, faults>>

\* The next application; or the hooks that start the streams of all of them,
\* if --start-streams is given; or the job.
NextHook ==
    /\ at = "setup" /\ todo = {}
    /\ IF Len(engines) < Len(order) THEN at' = "start" /\ app' = order[Len(engines) + 1] /\ UNCHANGED <<todo, tasks, worked>>
       ELSE /\ UNCHANGED app
            /\ IF launcher = "web"
               THEN /\ at' = "ready" /\ UNCHANGED todo
                    /\ tasks' = IF streams THEN UNION {BackgroundOf(a) : a \in ToSet(order)} ELSE {}
                    /\ worked' = (tasks' # {})
               ELSE at' = "owner" /\ todo' = OwnersPlugins /\ UNCHANGED <<tasks, worked>>
    /\ UNCHANGED <<choice, job, apis, engine, engines, clients, routes, ran, faults>>

OwnerSetUp ==
    \E t \in todo :
    /\ at = "owner" /\ todo' = todo \ {t}
    /\ \/ Run(t[1], t[2], t[3]) /\ UNCHANGED <<at, faults>>
       \/ Fault /\ Fail /\ UNCHANGED ran
    /\ UNCHANGED <<choice, job, apis, app, engine, engines, clients, routes, tasks, worked>>

\* The payload of the job's event is parsed; the event may answer in its
\* preprocess hook, which leaves it without a result, or be executed.
ExecuteEvent(payload) ==
    \/ payload = "invalid" /\ result' = "failed" /\ UNCHANGED worked
    \/ result' \in {"done", "ignored", "failed"} /\ worked' = TRUE

\* run_job executes the event or consumes its stream, or finds that it can do
\* neither: the type is not supported, or --start-streams is not given.
Execute ==
    \E payload \in {"none", "valid", "invalid"}, start_streams \in BOOLEAN :
    LET direct == request.type \in {"GET", "POST"} \/ (request.type = "STREAM" /\ payload # "none") IN
    /\ at = "owner" /\ todo = {}
    /\ at' = "stopping"
    /\ CASE direct -> ExecuteEvent(payload)
         [] ~direct /\ request.type = "STREAM" /\ start_streams ->
              result' \in {"done", "failed"} /\ worked' = TRUE
         [] OTHER -> result' = "failed" /\ UNCHANGED worked
    /\ UNCHANGED <<choice, owner, apis, app, todo, engine, engines, clients, routes, ran, tasks, faults>>

-----------------------------------------------------------------------------
(* Server.stop: one engine after the other; if one raises, the rest stay up *)

Signal ==
    /\ at = "ready" /\ at' = "stopping"
    /\ UNCHANGED <<choice, job, apis, app, todo, engine, engines, clients, routes, ran, tasks, worked, faults>>

Running == {i \in DOMAIN engines : engine[engines[i]] = "started"}

StopNext ==
    /\ at = "stopping"
    /\ \/ Running = {} /\ at' = "ended" /\ UNCHANGED <<engine, clients, tasks, faults>>
       \/ \E i \in Running : LET next == engines[i] IN
             /\ \A j \in Running : i <= j
             /\ \/ /\ StopAppConnections(next, TRUE)
                   /\ engine' = [engine EXCEPT ![next] = "stopped"]
                   /\ tasks' = {t \in tasks : t[1] # next}
                   /\ UNCHANGED <<at, faults>>
                \/ /\ Fault /\ at' = "aborted" /\ StopAppConnections(next, FALSE)
                   /\ UNCHANGED <<engine, tasks>>
    /\ UNCHANGED <<choice, job, apis, app, todo, engines, routes, ran, worked>>

Next == \/ CreateFile \/ UpdateFile \/ Prepare \/ SelectOwner
        \/ StartApp \/ FinishStart \/ SetUp \/ NextHook \/ OwnerSetUp \/ Execute
        \/ Signal \/ StopNext

Spec == Init /\ [][Next]_vars

-----------------------------------------------------------------------------
(* Properties                                                               *)

\* Types; the engines that are registered are those whose start succeeded,
\* each once, and background events belong to engines that run.
TypeOK ==
    /\ conf \in Configs /\ order \in Orders /\ launcher \in Launchers
    /\ groups \in EnabledGroups \cup {{}} /\ streams \in BOOLEAN
    /\ owner \in Apps \cup {NoApp} /\ request \in Events \cup {NoEvent}
    /\ result \in {"none", "done", "ignored", "failed"} /\ clients \in [Apps -> Nat]
    /\ api \in {"none", "auto", "file"} /\ fresh \in BOOLEAN /\ writes \in 0..MaxWrites
    /\ at \in Places /\ app \in Apps /\ faults \in 0..MaxFaults
    /\ todo \subseteq Apps \X Apps \X Events /\ routes \subseteq Apps \X Apps \X Events
    /\ engine \in [Apps -> {"none", "new", "connected", "started", "stopped"}]
    /\ ran \in [Pairs -> Nat] /\ worked \in BOOLEAN
    /\ engines \in Seq(Apps) /\ IsInjective(engines)
    /\ \A a \in Apps : Registered(a) = (engine[a] \in {"started", "stopped"})
    /\ \A t \in tasks : engine[t[1]] = "started"

\* The SETUP events a host owes to p: its own, or those p leaves to its hosts.
Done(h, p) ==
    \A e \in Effective(p) :
        e.type = "SETUP" /\ e.plug_mode = (IF h = p THEN "STANDALONE" ELSE "ON_APP")
        => ran[<<h, p, e.plug_mode>>] > 0

\* No stream, service or job starts before the SETUP events it may rely on
\* have run: those of every application, and for each host those its plugins
\* leave to it, a job's host being the owner of its event (prepare_engine,
\* _setup_app_event_routes, run_job).
SetupBeforeWork ==
    [][~worked /\ worked' =>
          \A h \in ToSet(order) :
              /\ engine[h] = "started" /\ Done(h, h)
              /\ launcher = "web" \/ h = owner => \A p \in ToSet(conf[h].plugins) : Done(h, p)]_vars

\* A server that is ready has a route for each event of its applications and
\* for each event that a plugin leaves to them; the streams and services of
\* every application run if --start-streams is given and not otherwise, and no
\* plugin has left one to an application (_setup_app_event_routes,
\* stream_startup_hook).
ReadyIsComplete ==
    at = "ready" => \A h \in ToSet(order) :
        /\ \A e \in Effective(h) : e.plug_mode = "STANDALONE" /\ e.type # "SETUP" =>
              <<h, h, e>> \in routes
        /\ \A p \in ToSet(conf[h].plugins) : \A e \in Effective(p) :
              e.plug_mode = "ON_APP" /\ e.type # "SETUP" =>
                  <<h, p, e>> \in routes /\ ~Background(e)
        /\ \A e \in Effective(h) : Background(e) => (<<h, e.type>> \in tasks <=> streams)

\* However far its start got and whatever failed, a job ends with every
\* engine stopped that was registered, and its connections closed, unless the
\* stop of one raised (run_job, Server.stop).
JobStopsAll ==
    at = "ended" /\ launcher = "job" =>
        \A a \in Apps : engine[a] # "started" /\ (Registered(a) => clients[a] = 0)

\* A file that was written for the applications a server starts with, from
\* nothing or over any file of other applications, is accepted by it: what
\* the server registers again adds nothing (register_apps, enable_swagger).
FreshFileServes ==
    at = "files" /\ fresh => Current(file, conf, order)

\* Whatever was in its file, a server that is ready validates requests by
\* what its events are now: the security of a path is what the server itself
\* asks for (_set_path_security, _auth_types), apart from an event that says
\* nothing and asks for nothing; and every schema that is referred to is there.
ServedIsCurrent ==
    at = "ready" /\ api # "none" =>
        /\ \A h \in ToSet(order) : \A t \in Offered(conf, h) :
              t \in routes /\ Http(t) /\ Validated(t) =>
                  LET schemes == Schemes(h, Methods(t[3])) IN
                  \/ spec.paths[Path(t)].security = schemes
                  \/ t[3].doc \in {NoDoc, FromFile} /\ schemes = {}
        /\ RefsOf(spec.paths, spec.schemas) \subseteq DOMAIN spec.schemas
=============================================================================
