-------------------------- MODULE MCRealtimeClient --------------------------
(* Two callers: of the same key, of two filter variants of one topic, or the
   second one of a topic the server refuses. *)
EXTENDS RealtimeClient, TLC

CONSTANTS a, b, kf, kg, kr, topic, refused

MCCallers == {a, b}
MCKeys == {kf, kg, kr}
MCWants == {(a :> kf) @@ (b :> k) : k \in MCKeys}
MCTopicOf == (kf :> topic) @@ (kg :> topic) @@ (kr :> refused)
MCRejected == {refused}

=============================================================================
