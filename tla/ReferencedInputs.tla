-------------------------- MODULE ReferencedInputs --------------------------
(***************************************************************************)
(* What a HermesAgent takes from ConfigMaps and Secrets, key by key: the   *)
(* snapshots a pass takes of them, the inputs it reports missing and the   *)
(* hash it puts on the pod template (resolveReferencedInputs,              *)
(* missingReferenceMessages, computeConfigHash), beside what the kubelet   *)
(* does with the same references when it starts a container.  The module   *)
(* HermesResources has one content per input; here an input has keys, and  *)
(* a ConfigMap keeps text (data) and bytes (binaryData).                   *)
(***************************************************************************)
EXTENDS Integers, FiniteSets

CONSTANTS
    None,      \* an unset field, a missing key, a missing object
    Names,     \* the objects of the namespace that agents refer to
    KindOf,    \* "ConfigMap" or "Secret", by name
    Keys,
    Contents,  \* what a key may hold
    Base64,    \* the text StdEncoding makes of a content
    Backend    \* the terminal.backend a text names as config.yaml, None if it names none

(* Base64 is injective; that no key's text happens to be the encoding of   *)
(* another content is an assumption on the users' data.                    *)
ASSUME InputsAssumption ==
    /\ KindOf \in [Names -> {"ConfigMap", "Secret"}]
    /\ DOMAIN Base64 = Contents
    /\ \A c, d \in Contents : Base64[c] = Base64[d] => c = d
    /\ \A c \in Contents : Base64[c] \notin Contents \cup {None}
    /\ None \notin Contents \cup Keys \cup Names
    /\ DOMAIN Backend = Contents

ConfigIds == {"config", "gateway-config"}

Entries == [Keys -> Contents \cup {None}]

\* The API server refuses a key in both halves, and a Secret has only data.
ObjectsOf(n) ==
    {o \in [data : Entries, binaryData : Entries] :
        \A k \in Keys : o.binaryData[k] # None =>
            KindOf[n] = "ConfigMap" /\ o.data[k] = None}

(* A use of an object: as one of the two files, as a file mount (items,    *)
(* all keys when empty), as an env value, with envFrom, as a secretRef.    *)
(* Only the environment has optional references.                           *)
Use ==
    {u \in [ role     : ConfigIds \cup {"fileMount", "env", "envFrom", "secretRef"},
             name     : Names,
             key      : Keys \cup {None},
             items    : SUBSET Keys,
             optional : BOOLEAN ] :
        /\ u.key # None <=> u.role \in ConfigIds \cup {"env"}
        /\ u.items # {} => u.role = "fileMount"
        /\ u.optional => u.role \in {"env", "envFrom"}
        /\ u.role = "secretRef" => KindOf[u.name] = "Secret"}

-----------------------------------------------------------------------------
(* The snapshots of the controller.                                        *)

configMapFileValue(o, k) ==
    IF o.data[k] # None THEN o.data[k]
    ELSE IF o.binaryData[k] # None THEN Base64[o.binaryData[k]]
    ELSE None

copyConfigMapData(o) ==
    [k \in Keys |-> IF o.binaryData[k] # None THEN Base64[o.binaryData[k]] ELSE o.data[k]]

encodeSecretData(o) ==
    [k \in Keys |-> IF o.data[k] # None THEN Base64[o.data[k]] ELSE None]

\* One key, and all keys, of an object of either kind.
fileValue(n, o, k) ==
    IF KindOf[n] = "ConfigMap" THEN configMapFileValue(o, k) ELSE encodeSecretData(o)[k]

allValues(n, o) ==
    IF KindOf[n] = "ConfigMap" THEN copyConfigMapData(o) ELSE encodeSecretData(o)

NoData == [k \in Keys |-> None]

EmptySnapshot(use) ==
    [ kind |-> KindOf[use.name], name |-> use.name, key |-> use.key,
      optional |-> use.optional, present |-> FALSE, keyFound |-> FALSE,
      missingKeys |-> {}, data |-> NoData ]

\* newConfigMapFileSnapshot, newConfigMapKeySnapshot, newSecretKeySnapshot.
newKeySnapshot(use, o) ==
    LET value == fileValue(use.name, o, use.key)
    IN  [EmptySnapshot(use) EXCEPT
            !.present  = TRUE,
            !.keyFound = value # None,
            !.data     = [NoData EXCEPT ![use.key] = value]]

\* newConfigMapEnvFromSnapshot, newSecretSnapshot.
newWholeSnapshot(use, o) ==
    [EmptySnapshot(use) EXCEPT !.present = TRUE, !.data = allValues(use.name, o)]

\* Mutant of newProjectionSnapshot: the items decide what is missing, but all keys are kept.
newProjectionOfAll(use, o) ==
    LET missing == {k \in use.items : fileValue(use.name, o, k) = None}
    IN  [EmptySnapshot(use) EXCEPT
            !.present     = TRUE,
            !.keyFound    = missing = {},
            !.missingKeys = missing,
            !.data        = allValues(use.name, o)]

\* newConfigMapProjectionSnapshot, newSecretProjectionSnapshot.
newProjectionSnapshot(use, o) ==
    LET value(k) == IF k \in use.items THEN fileValue(use.name, o, k) ELSE None
        missing  == {k \in use.items : value(k) = None}
    IN  [EmptySnapshot(use) EXCEPT
            !.present     = TRUE,
            !.keyFound    = missing = {},
            !.missingKeys = missing,
            !.data        = [k \in Keys |-> value(k)]]

newSnapshot(use, o) ==
    CASE o = None                           -> EmptySnapshot(use)
      [] o # None /\ use.key # None          -> newKeySnapshot(use, o)
      [] o # None /\ use.key = None /\ use.items # {} -> newProjectionSnapshot(use, o)
      [] o # None /\ use.key = None /\ use.items = {} -> newWholeSnapshot(use, o)

resolveReferencedInputs(uses, objects) ==
    [u \in uses |-> newSnapshot(u, objects[u.name])]

\* Mutant of missingReference: the keys of file mounts are not looked at.
missingKeyOrObject(s) ==
    IF s.present THEN ~s.keyFound /\ s.key # None /\ ~s.optional ELSE ~s.optional

\* A snapshot missingReferenceMessages has a message about.
missingReference(s) ==
    IF s.present
    THEN /\ ~s.keyFound
         /\ \/ s.key # None /\ ~s.optional
            \/ s.missingKeys # {}
    ELSE ~s.optional

missingReferences(refs) == {u \in DOMAIN refs : missingReference(refs[u])}

\* Mutant of computeConfigHash: the content of file mounts is left out.
computeHashWithoutMounts(spec, refs) ==
    [ raw |-> spec.raw, uses |-> spec.uses,
      refs |-> [u \in {v \in DOMAIN refs : v.role # "fileMount"} |-> refs[u]] ]

\* SHA-256 of the JSON of the plan, taken to be injective.
computeConfigHash(spec, refs) == [raw |-> spec.raw, uses |-> spec.uses, refs |-> refs]

\* Mutant of configSourceTerminalBackend: the value of a Secret is not decoded.
undecodedTerminalBackend(spec, refs) ==
    LET files   == {u \in DOMAIN refs : u.role = "config"}
        content == Contents \cap ({spec.raw["config"]}
                                     \cup {refs[u].data[u.key] : u \in files})
    IN  IF content = {} THEN None ELSE Backend[CHOOSE c \in content : TRUE]

\* The backend config.yaml names: from its text, or from the snapshot of the object
\* it comes from.  A Secret's value is decoded, a ConfigMap's is not.
configSourceTerminalBackend(spec, refs) ==
    LET files   == {u \in DOMAIN refs : u.role = "config"}
        held(u) == LET v == refs[u].data[u.key]
                   IN  IF refs[u].kind = "Secret"
                       THEN {c \in Contents : Base64[c] = v}
                       ELSE Contents \cap {v}
        content == (Contents \cap {spec.raw["config"]}) \cup UNION {held(u) : u \in files}
    IN  IF content = {} THEN None ELSE Backend[CHOOSE c \in content : TRUE]

effectiveTerminalBackend(spec, refs) ==
    LET named == configSourceTerminalBackend(spec, refs)
    IN  IF named # None THEN named ELSE spec.terminal

-----------------------------------------------------------------------------
(* The watches of the controller.                                          *)

\* referencesConfigMap and referencesSecret.
references(spec, n) == \E u \in spec.uses : u.name = n

-----------------------------------------------------------------------------
(* The kubelet: an environment variable takes text only, a volume takes    *)
(* bytes as well; a reference that is not optional must resolve before the *)
(* container starts.                                                       *)

Content(use, o, k) ==
    IF o.data[k] = None /\ use.role \notin {"env", "envFrom"}
    THEN o.binaryData[k]
    ELSE o.data[k]

Selected(use) ==
    IF use.key # None THEN {use.key} ELSE IF use.items # {} THEN use.items ELSE Keys

Seen(use, o) ==
    [k \in Keys |->
        IF o # None /\ k \in Selected(use) THEN Content(use, o, k) ELSE None]

Startable(use, o) ==
    \/ use.optional
    \/ /\ o # None
       /\ (use.key # None \/ use.items # {}) =>
              \A k \in Selected(use) : Content(use, o, k) # None
=============================================================================
