------------------------------ MODULE MCHermes ------------------------------
(* Small instances of the reconciler for TLC. *)
EXTENDS HermesProperties

CONSTANTS c1, c2, i1, img1

MCContents == {c1, c2}
MCInputs   == {i1}
MCBackend  == [c \in MCContents |-> IF c = c2 THEN "ssh" ELSE None]

\* One content: an input has it, lacks its key or is absent.
OneContent == {c1}
OneBackend == [c \in OneContent |-> None]

Sources(config, gateway) == [id \in ConfigIds |-> IF id = "config" THEN config ELSE gateway]

\* One inline file, a claim and a StatefulSet of one pod.
Plain ==
    [ valid |-> TRUE, image |-> img1, src |-> Sources(c1, None),
      env |-> [i \in MCInputs |-> "none"], persistence |-> TRUE, modes |-> {},
      class |-> None, size |-> 1, service |-> None, networkPolicy |-> FALSE,
      terminal |-> "local", replicas |-> 0 ]

Ephemeral == [Plain EXCEPT !.persistence = FALSE]
FromInput == [Ephemeral EXCEPT !.src = Sources(i1, c1)]

NodePort(port) == [type |-> "NodePort", port |-> port]
Exposed ==
    [Ephemeral EXCEPT !.service = NodePort(0), !.networkPolicy = TRUE, !.replicas = 2]

\* A file from an input, and a spec that is refused.
SpecsInputs == {FromInput, [Ephemeral EXCEPT !.valid = FALSE]}

\* config.yaml from text, or from an input that also fills the environment.
SpecsFile ==
    { Ephemeral,
      [Ephemeral EXCEPT !.src = Sources(i1, None), !.env = [i \in MCInputs |-> "whole"]] }

\* Every optional child on, off, and on with other settings.
SpecsOptional ==
    { Exposed,
      Ephemeral,
      [Exposed EXCEPT !.service = NodePort(9090), !.src = Sources(c2, None), !.replicas = 1] }

\* Storage: grown, changes the claim cannot follow, none at all; a spec that is refused.
SpecsStorage ==
    { Plain,
      [Plain EXCEPT !.size = 2],
      [Plain EXCEPT !.modes = {"ReadWriteMany"}, !.class = "fast"],
      Ephemeral,
      [Ephemeral EXCEPT !.valid = FALSE] }

\* A claim, one with an unreadable size, and a spec that is refused.
SpecsLag == {Plain, [Plain EXCEPT !.size = 0], [Plain EXCEPT !.valid = FALSE]}

\* A storage change the claim cannot follow, together with a change of the files.
SpecsDrift == {Plain, [Plain EXCEPT !.modes = {"ReadWriteMany"}, !.src = Sources(None, c1)]}

SpecsEphemeral == {Ephemeral}

\* The input starts out complete or absent.
KeyedSpec == Init /\ api[i1] # NoKey /\ [][Next]_vars

\* A StatefulSet that is scaled up is scaled back before its second pod is ready.
OnePod     == api["StatefulSet"] = Absent \/ api["StatefulSet"].status.ready <= 1
OnePodSpec == Init /\ [][Next /\ OnePod']_vars

Optional == OptKinds
=============================================================================
