----------------------------- MODULE MCAdmission -----------------------------
(* Documents for TLC: a plain one, and others that differ in one section, or in two *)
(* sections the checks relate.                                                      *)
EXTENDS Admission

MCText ==
    { Empty, Bad, "", ".", "..", "hermes", "mine", "v2026.3.30", "latest", "IfNotPresent",
      "Always", "gateway", "cli", "RollingUpdate", "OnDelete", "Recreate", "ClusterIP",
      "NodePort", "Any", "ReadWriteOnce", "ReadWriteMany", "ReadOnlyMany", "ReadWriteOncePod",
      "HOME", "HERMES_HOME", "s1", "k", "l", "a", "b",
      "etc", "tmp", "data", "var", "run", "secrets", "config.yaml", "labels" }

Sections == {"updateStrategy", "persistence", "service", "networkPolicy"}

NoSource == [raw |-> FALSE, configMapRef |-> Unset, secretRef |-> Unset]
NoProbe  == [enabled |-> Unset, initialDelay |-> 0, period |-> 0, timeout |-> 0, failures |-> 0]

Plain ==
    [ given |-> {},
      image |-> [repository |-> Unset, tag |-> Unset, pullPolicy |-> Unset],
      mode |-> Unset, replicas |-> Unset, automount |-> Unset,
      config |-> NoSource, gatewayConfig |-> NoSource,
      env |-> <<>>, envFrom |-> {}, secretRefs |-> <<>>, imagePullSecrets |-> {},
      fileMounts |-> <<>>,
      updateStrategy |-> [type |-> Unset, rollingUpdate |-> FALSE, partition |-> Unset],
      persistence |-> [enabled |-> Unset, size |-> Unset, accessModes |-> Unset],
      service |-> [enabled |-> Unset, type |-> Unset, port |-> Unset, targetPort |-> Unset],
      networkPolicy |-> [enabled |-> Unset, destinations |-> {}, tcp |-> {}, udp |-> {}],
      probes |-> [p \in ProbeNames |-> NoProbe] ]

KeyRefs  == {Unset, {"name", "key"}, {"name"}, {"key"}}
NameRefs == {Unset, {"name"}, {}}

Images ==
    {[Plain EXCEPT !.image = i] :
        i \in [ repository : {Unset, Empty, "mine"}, tag : {Unset, Empty, "latest"},
                pullPolicy : {Unset, Empty, "Always", Bad} ]}

Modes == {[Plain EXCEPT !.mode = m, !.automount = a] : m \in {Empty, "cli"}, a \in BOOLEAN}

Sources ==
    {[Plain EXCEPT !.config = c] :
        c \in [raw : BOOLEAN, configMapRef : KeyRefs, secretRef : KeyRefs]}

EnvVars ==
    [ name : {Empty, "HOME", "HERMES_HOME"}, value : BOOLEAN,
      configMapKeyRef : KeyRefs, secretKeyRef : KeyRefs ]
Env ==
    {[Plain EXCEPT !.env = env] : env \in UNION {{<<v>>, <<v, v>>} : v \in EnvVars}}
    \cup
    {[Plain EXCEPT !.envFrom = {e}] : e \in [configMapRef : NameRefs, secretRef : NameRefs]}

Path(abs, segments) == [abs |-> abs, segments |-> segments]
Item(key, path, mode) == [key |-> key, path |-> path, mode |-> mode]
Mount(path, items, mode) ==
    [configMapRef |-> {"name"}, secretRef |-> Unset, mountPath |-> path, items |-> items,
     defaultMode |-> mode]

Etc  == Path(TRUE, <<"etc", "hermes">>)
File == Path(FALSE, <<"a">>)
Paths == { Etc, NoPath, Path(FALSE, <<"etc">>), Path(TRUE, <<"tmp">>),
           Path(TRUE, <<"data", "hermes", "config.yaml">>),
           Path(TRUE, <<"var", "run", "hermes", "secrets", "s1">>) }
ItemPaths == {File, NoPath, Path(TRUE, <<"a">>), Path(FALSE, <<"..", "a">>), Path(FALSE, <<"a", "">>)}
FileModes == {Unset, -1, 0, 511, 512}

Mounts ==
    {[Plain EXCEPT !.fileMounts = <<[Mount(Etc, <<>>, Unset) EXCEPT !.configMapRef = c,
                                                                   !.secretRef = r]>>] :
        c \in NameRefs, r \in NameRefs}
    \cup
    {[Plain EXCEPT !.fileMounts = <<Mount(Etc, <<>>, m), Mount(p, <<>>, Unset)>>,
                   !.config = [NoSource EXCEPT !.raw = raw], !.secretRefs = refs] :
        p \in Paths, m \in FileModes, raw \in BOOLEAN,
        refs \in {<<>>, <<"s1">>, <<"s1", "s1">>, <<Empty>>}}
    \cup
    {[Plain EXCEPT !.fileMounts =
          <<Mount(Etc, <<Item(k, p, m), Item("k", q, Unset)>>, Unset)>>] :
        k \in {Empty, "k", "l"}, p \in ItemPaths, q \in {File, Path(FALSE, <<"b">>)}, m \in FileModes}

Storage ==
    {[Plain EXCEPT !.given = g, !.replicas = n,
                   !.persistence = IF "persistence" \in g THEN p ELSE @] :
        g \in {{}, {"persistence"}}, n \in {Unset, -1, 0, 2},
        p \in [ enabled : {Unset, FALSE, TRUE}, size : {Unset, Empty, Bad, -1, 0, 5},
                accessModes : {Unset, {}, {"ReadWriteMany", "ReadOnlyMany"}, {"Any"},
                               {"ReadWriteOncePod"}, {"ReadWriteOncePod", "ReadWriteOnce"}} ]}

Strategies ==
    {[Plain EXCEPT !.given = {"updateStrategy"}, !.updateStrategy = u] :
        u \in [ type : {Unset, Empty, "OnDelete", "RollingUpdate", "Recreate"},
                rollingUpdate : {TRUE}, partition : {Unset, -1, 0, 1} ]
              \cup [type : {Unset, "OnDelete"}, rollingUpdate : {FALSE}, partition : {Unset}]}

Services ==
    {[Plain EXCEPT !.given = {"service"}, !.service = v] :
        v \in [ enabled : {Unset, TRUE}, type : {Unset, Empty, "NodePort", "Any"},
                port : {Unset, -1, 0, 1, 65535, 65536},
                targetPort : {Unset, -1, 0, 65535, 65536} ]}

Destinations ==
    [ cidr : {Empty, Bad, {1, 2}}, except : {{}, {Bad}, {{1}}, {{1, 2}}, {{3}}},
      namespaceSelector : {Unset, "labels"}, podSelector : {Unset, "labels", Bad} ]
Policies ==
    {[Plain EXCEPT !.given = {"networkPolicy"},
                   !.networkPolicy = [enabled |-> e, destinations |-> {d}, tcp |-> {}, udp |-> {}]] :
        e \in {Unset, TRUE}, d \in Destinations}
    \cup
    {[Plain EXCEPT !.given = {"networkPolicy"},
                   !.networkPolicy = [enabled |-> TRUE, destinations |-> {}, tcp |-> {t}, udp |-> {u}]] :
        t \in {-1, 0, 22, 443, 65535, 65536}, u \in {0, 53, 65536}}

Probes ==
    {[Plain EXCEPT !.probes[p] = c] :
        p \in ProbeNames,
        c \in [ enabled : {Unset, FALSE}, initialDelay : {-1, 0, 1}, period : {0, 1},
                timeout : {-1, 0, 1}, failures : {0, 1} ]}

PullSecrets == {[Plain EXCEPT !.imagePullSecrets = n] : n \in {{"s1"}, {Empty}}}

MCDocuments ==
    {Plain} \cup Images \cup Modes \cup Sources \cup Env \cup Mounts \cup Storage \cup Strategies
       \cup Services \cup Policies \cup Probes \cup PullSecrets

MCUpdates == {Plain, [Plain EXCEPT !.replicas = 2]} \cup PullSecrets
=============================================================================
