--------------------------- MODULE MCServerStartup ---------------------------
(* An application with a plugin and one without; a data object refers to    *)
(* another, and what an earlier release offered may be gone or be secured    *)
(* in another way.                                                          *)
EXTENDS ServerStartup
CONSTANTS main, plugin, other

Ev(t, m, auth, doc) ==
    [type |-> t, plug_mode |-> m, auth |-> auth, doc |-> doc, writes |-> t = "POST",
     group |-> IF t \in {"SERVICE", "POST"} THEN "work" ELSE "DEFAULT"]
Plain(t, m) == Ev(t, m, {}, NoDoc)
Object(n) == [kind |-> "object", of |-> n]
Doc == [text |-> "main", args |-> {[name |-> "id", optional |-> TRUE]}, payload |-> {Object("Item")}, fields |-> {},
        responses |-> {[kind |-> "builtin", of |-> "str"]}]
Form == [text |-> "form", args |-> {}, payload |-> {}, fields |-> {Object("Item"), [kind |-> "binary", of |-> "file"]}, responses |-> {}]
Post(auth) == Ev("POST", "STANDALONE", auth, Doc)
Get(auth, doc) == Ev("GET", "ON_APP", auth, doc)
Gone == Ev("MULTIPART", "STANDALONE", {"unsecured"}, Form)
MainEvents == {{Post({"refresh"}), Plain("SETUP", "STANDALONE")},
               {Ev("POST", "STANDALONE", {"bearer"}, FromFile)},
               {Plain("STREAM", "STANDALONE"), Plain("SETUP", "STANDALONE")}}
PluginEvents == SUBSET {Plain("SETUP", "ON_APP"), Plain("SETUP", "STANDALONE"),
                        Get({}, NoDoc), Plain("SERVICE", "ON_APP")}
OtherEvents == {Plain("STREAM", "STANDALONE")}
OldMain == {Post({"basic"}), Gone}
OldPlugin == {{Get({"basic"}, Doc)}, {Get({"basic"}, NoDoc)}}
AllEvents == UNION (MainEvents \cup PluginEvents \cup {OtherEvents, OldMain} \cup OldPlugin)

Data == [n \in {"Item", "Part"} |-> [text |-> n, refs |-> IF n = "Item" THEN {"Part"} ELSE {}]]
OldData == [n \in {"Item"} |-> [text |-> "old", refs |-> {"Item"}]]
Application(plugins, events, keys, headers, data) ==
    [plugins |-> plugins, events |-> events, keys |-> keys, headers |-> headers, data |-> data,
     connections |-> Len(headers)]
Three(m, p, o) == [a \in Apps |-> CASE a = main -> m [] a = plugin -> p [] OTHER -> o]
Current3(m, p, k) ==
    Three(Application(<<plugin>>, m, TRUE, <<"ts", "caller">>, Data),
          Application(<<>>, p, TRUE, <<"ts">>, <<>>),
          Application(<<>>, OtherEvents, k, <<"ts">>, OldData))
Old3(p) == Three(Application(<<plugin>>, OldMain, TRUE, <<"ts">>, OldData),
                 Application(<<>>, p, TRUE, <<"ts">>, OldData),
                 Application(<<>>, OtherEvents, TRUE, <<"ts">>, <<>>))

CurrentConfigs == {Current3(m, p, k) : m \in MainEvents, p \in PluginEvents, k \in BOOLEAN}
OldReleases == {<<Old3(p), <<plugin, main>>>> : p \in OldPlugin}
AllConfigs == CurrentConfigs \cup {r[1] : r \in OldReleases}
AllGroups == {{}, {"other"}}
AllOrders == {<<plugin, main, other>>, <<other, main, plugin>>, <<plugin, other, main>>, <<main>>}
=============================================================================
