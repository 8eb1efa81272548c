------------------------------- MODULE ApiSpec -------------------------------
(***************************************************************************)
(* The OpenAPI specification of a server (server/api.py): what `hopeit      *)
(* openapi create` and `update` write to a file, and what the web server    *)
(* computes from that file and its applications when it starts.             *)
(*                                                                          *)
(* A path is named by its host, the application that implements it and the  *)
(* event; the text of a description or of a schema is a value, of which     *)
(* only the names of the schemas it refers to matter.                       *)
(***************************************************************************)
EXTENDS Naturals, Sequences, FiniteSets, SequencesExt

CONSTANTS Apps,
          Events,      \* those of all the applications
          Configs,     \* possible applications: plugins, events, headers, data
          Names,       \* of schemas
          Versions,    \* of a file
          DefaultAuth, \* default_auth_methods of the server
          NoDoc,       \* an event that has no __api__
          FromFile     \* one whose __api__ is api_from_config

EventTypes == {"GET", "POST", "MULTIPART", "STREAM", "SERVICE", "SETUP"}
PlugModes == {"STANDALONE", "ON_APP"}
AuthTypes == {"basic", "bearer", "refresh", "unsecured"}

\* A type of the language has a schema of its own, an object or a list of
\* objects refers to that of its class.
SchemaRefs(datatypes) == {d.of : d \in {d \in datatypes : d.kind \in {"object", "list"}}}

ASSUME ApiAssumption ==
    /\ \A e \in Events :
          /\ e.type \in EventTypes /\ e.plug_mode \in PlugModes /\ e.auth \subseteq AuthTypes
          /\ \/ e.doc \in {NoDoc, FromFile}
             \/ /\ SchemaRefs(e.doc.payload \cup e.doc.fields \cup e.doc.responses) \subseteq Names
                /\ e.doc.payload = {} \/ e.doc.fields = {}
    /\ \A c \in Configs : \A a \in Apps :
          /\ c[a].plugins \in Seq(Apps) /\ c[a].events \subseteq Events
          /\ c[a].keys \in BOOLEAN /\ c[a].headers \in Seq(ToSet(c[a].headers))
          \* An event is named, in its application, by its type and plug mode.
          /\ \A e, f \in c[a].events : e.type = f.type /\ e.plug_mode = f.plug_mode => e = f
    /\ DefaultAuth \subseteq AuthTypes

\* A schema comes with those it refers to.  What an event says of itself speaks
\* of data objects its application's steps take or give, which nothing checks.
ASSUME SchemasAssumption ==
    \A c \in Configs : \A a \in Apps : LET data == c[a].data IN
        /\ \A e \in c[a].events : e.doc \notin {NoDoc, FromFile} =>
              SchemaRefs(e.doc.payload \cup e.doc.fields \cup e.doc.responses) \subseteq DOMAIN data
        /\ \A n \in DOMAIN data : data[n].refs \subseteq DOMAIN data

\* The events a host offers: its own and those its plugins leave to it.
Offered(c, h) ==
    {<<h, h, e>> : e \in {e \in c[h].events : e.plug_mode = "STANDALONE"}} \cup
    UNION {{<<h, p, e>> : e \in {e \in c[p].events : e.plug_mode = "ON_APP"}} :
              p \in ToSet(c[h].plugins)}
Http(t) == t[3].type \in {"GET", "POST", "MULTIPART"}
Path(t) == <<t[1], t[2], t[3].type, t[3].plug_mode>>

EmptySpec == [version |-> 0, paths |-> <<>>, schemas |-> <<>>]

-----------------------------------------------------------------------------
(* Paths                                                                    *)

\* The tokens of a REFRESH event are in a cookie of its host.
Scheme(h, a) == IF a = "refresh" THEN <<h, a>> ELSE <<"auth", a>>
Schemes(h, auth) == {Scheme(h, a) : a \in auth \ {"unsecured"}}

\* An event that names no method takes those of the server.
Methods(e) == IF e.auth = {} THEN DefaultAuth ELSE e.auth

\* Mutant: headers are added again each time a file is read.
AddAlways(s, new) == s \o new

AddMissing(s, new) ==
    FoldLeft(LAMBDA acc, x : IF x \in ToSet(acc) THEN acc ELSE Append(acc, x), s, new)

\* An argument of the query is required unless its type is optional.
Parameters(args) == {[name |-> a.name, required |-> ~a.optional] : a \in args}

\* The parts of a form: files, texts and objects.
Encoding(d) ==
    CASE d.kind = "binary" -> "file" [] d.kind = "builtin" -> "text" [] OTHER -> "json"

\* A body that is announced is required.
Body(type, doc) ==
    IF doc.payload \cup doc.fields = {} THEN "none"
    ELSE <<IF type = "MULTIPART" THEN "form" ELSE "json", {Encoding(d) : d \in doc.fields}>>

\* What event_api(...) makes of its arguments.
EventApi(type, doc) ==
    [text |-> doc.text, args |-> Parameters(doc.args), body |-> Body(type, doc),
     refs |-> SchemaRefs(doc.payload \cup doc.fields \cup doc.responses)]

Described(doc) == [doc |-> doc, headers |-> <<>>, security |-> {}]
Stub == Described([text |-> "stub", args |-> {}, body |-> "none", refs |-> {}])

\* What the event says of itself, or what there is.
Base(e, old) == IF e.doc \in {NoDoc, FromFile} THEN old ELSE Described(EventApi(e.type, e.doc))

\* Mutant: the security of a path is only set when it has none.
OperationKeeping(c, t, old) ==
    LET base == Base(t[3], old)
    IN [base EXCEPT !.headers = AddMissing(@, c[t[1]].headers),
                    !.security = IF @ = {} THEN Schemes(t[1], Methods(t[3])) ELSE @]

\* What an event says of itself replaces what was there; the headers its host
\* tracks are added, and the security of the path is set, when there is any.
Operation(c, t, old) ==
    LET base == Base(t[3], old)
        schemes == Schemes(t[1], Methods(t[3]))
    IN [base EXCEPT !.headers = AddMissing(@, c[t[1]].headers),
                    !.security = IF schemes = {} THEN @ ELSE schemes]

\* Paths of events that are gone stay; an event that says nothing of itself
\* keeps what the file says, or gets a stub when --generate is given.
UpdatePaths(paths, c, o, generate) ==
    LET offered == UNION {{t \in Offered(c, h) : Http(t)} : h \in ToSet(o)}
        described == {t \in offered : \/ t[3].doc # NoDoc \/ generate
                                      \/ Path(t) \in DOMAIN paths}
        Old(q) == IF q \in DOMAIN paths THEN paths[q] ELSE Stub
    IN [q \in DOMAIN paths \cup {Path(t) : t \in described} |->
          IF \E t \in described : Path(t) = q
          THEN Operation(c, CHOOSE t \in described : Path(t) = q, Old(q))
          ELSE paths[q]]

\* api_from_config looks for the path of the event in its own application and
\* for its type as a method: it raises for an event that is offered by a host,
\* and for a form, whose method is POST.
FoundInFile(paths, c, o) ==
    \A h \in ToSet(o) : \A t \in Offered(c, h) :
        Http(t) /\ t[3].doc = FromFile =>
            h = t[2] /\ t[3].type # "MULTIPART" /\ Path(t) \in DOMAIN paths

-----------------------------------------------------------------------------
(* Schemas                                                                  *)

\* What f gives, and g where f gives nothing.
Over(f, g) == [n \in DOMAIN f \cup DOMAIN g |-> IF n \in DOMAIN f THEN f[n] ELSE g[n]]

\* Of the data objects with one name, that of the first application.
RuntimeSchemas(c, o) == FoldLeft(LAMBDA acc, a : Over(acc, c[a].data), <<>>, o)

\* That of errors is always there.
Predefined == [n \in {"ErrorInfo"} |-> [text |-> "error", refs |-> {}]]

RefsOf(paths, schemas) ==
    UNION ({paths[q].doc.refs : q \in DOMAIN paths} \cup {schemas[n].refs : n \in DOMAIN schemas})

\* Schemas nothing refers to are removed until none is left: the largest set
\* in which each is referred to by a path or by a member of the set.
Used(paths, schemas) ==
    UNION {S \in SUBSET DOMAIN schemas : S \subseteq RefsOf(paths, Restrict(schemas, S))}

-----------------------------------------------------------------------------
(* Specifications                                                           *)

Register(spec, c, o, generate) ==
    LET paths == UpdatePaths(spec.paths, c, o, generate)
        schemas == Over(Predefined, Over(RuntimeSchemas(c, o), spec.schemas))
    IN [spec EXCEPT !.paths = paths, !.schemas = Restrict(schemas, Used(paths, schemas))]

\* Every plugin is among the applications, and what is to be in the file is.
Complete(spec, c, o) ==
    /\ \A h \in ToSet(o) : ToSet(c[h].plugins) \subseteq ToSet(o)
    /\ FoundInFile(spec.paths, c, o)

\* What create writes, and what update does to a file.
Created(v, c, o, generate) == [Register(EmptySpec, c, o, generate) EXCEPT !.version = v]
Updated(file, v, c, o, generate) == [Register(file, c, o, generate) EXCEPT !.version = v]
Refused(file, v, c, o, generate) == Register(file, c, o, generate) # file /\ file.version = v

\* A server starts with a file when it says what the server computes.
Current(file, c, o) == Register(file, c, o, FALSE) = file
=============================================================================
