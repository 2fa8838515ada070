-------------------------- MODULE MCConfigLifecycle --------------------------
(* Two configurations with a live provider each: one without a namespace,   *)
(* which the collision guard refuses, and one at another URL behind one.    *)
EXTENDS ConfigLifecycle

CONSTANTS u1, u2, o1, o2

Conflicting == [plugin |-> [executor |-> "on", namespace |-> "empty"],
                provider |-> [url |-> u2, state |-> "live"], other |-> o2]
Namespaced  == [Conflicting EXCEPT !.plugin.namespace = "set", !.provider.url = u1]

MCUrls    == {u1, u2, NoUrl}
MCConfigs == {Namespaced, Conflicting}
=============================================================================
