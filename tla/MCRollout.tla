----------------------------- MODULE MCRollout -----------------------------
(* Small instances of the rollout for TLC. *)
EXTENDS Rollout, Sequences

CONSTANTS cm, sec, k1, k2, c1, c2, e1, e2

MCNames    == {cm, sec}
MCKindOf   == [n \in MCNames |-> IF n = cm THEN "ConfigMap" ELSE "Secret"]
MCContents == {c1, c2}
MCBase64   == [c \in MCContents |-> IF c = c1 THEN e1 ELSE e2]
MCBackend  == [c \in MCContents |-> IF c = c2 THEN "ssh" ELSE None]

\* The keys k1 and k2 of an object.
Pair(a, b)  == [k \in Keys |-> IF k = k1 THEN a ELSE b]
Text(a, b)  == [data |-> Pair(a, b), binaryData |-> Pair(None, None)]
Bytes(a, b) == [data |-> Pair(None, b), binaryData |-> Pair(a, None)]

\* The two objects go through these values in this order: no content comes back.
ConfigMapStages ==
    <<None, Text(c1, None), Text(c2, c1), Bytes(c1, c1), Text(None, c1)>>
SecretStages == <<None, Text(c1, None), Text(c2, None), Text(None, c2)>>

Forward(stages) == {<<stages[i], stages[i + 1]>> : i \in 1 .. Len(stages) - 1}

MCInputEdits == [n \in MCNames |-> Forward(IF n = cm THEN ConfigMapStages ELSE SecretStages)]

Uses(role, name, key, items, optional) ==
    [role |-> role, name |-> name, key |-> key, items |-> items, optional |-> optional]

Agent(config, gateway, uses) ==
    [ raw |-> [id \in ConfigIds |-> IF id = "config" THEN config ELSE gateway],
      uses |-> uses, terminal |-> "local",
      strategy |-> "RollingUpdate", partition |-> 0 ]

Inline == Agent(c1, None, {Uses("fileMount", cm, None, {k1}, FALSE),
                           Uses("env", sec, k1, {}, TRUE)})
Mapped == Agent(None, c1, {Uses("config", cm, k1, {}, FALSE),
                           Uses("secretRef", sec, None, {}, FALSE)})
Secret == Agent(None, None, {Uses("config", sec, k1, {}, FALSE),
                             Uses("env", cm, k1, {}, FALSE)})
Other  == Agent(c2, c1, {Uses("envFrom", cm, None, {}, TRUE),
                         Uses("fileMount", sec, None, {k1}, FALSE)})
Manual == [Agent(c1, None, {}) EXCEPT !.terminal = "ssh", !.strategy = "OnDelete"]

SpecStages  == <<Inline, Mapped, Secret, Other>>
MCSpecs     == {Inline, Mapped}
MCSpecEdits == Forward(SpecStages) \cup {<<Mapped, Manual>>}

MCInitialInputs ==
    { [n \in MCNames |-> None],
      [n \in MCNames |-> IF n = cm THEN Text(c2, c1) ELSE Text(c1, None)] }

\* A partition that holds back the first pod, and a new text for config.yaml.
Held(c) == [Agent(c, None, {}) EXCEPT !.partition = 1]
HeldSpecs     == {Held(c1)}
HeldEdits     == {<<Held(c1), Held(c2)>>}
NoInputs      == {[n \in MCNames |-> None]}
NoInputEdits  == [n \in MCNames |-> {}]

\* The text changes only once both pods run, and with them the first revision.
SettledSpec ==
    Init /\ [][Next /\ (agent' # agent => Idle /\ \A i \in Ordinals : Ready(i))]_vars
=============================================================================
