---------------------------- MODULE MCTaskBroker ----------------------------
(* Two agents, each with a task, and scopes that contain, meet or miss each other. *)
EXTENDS TaskBroker

CONSTANTS a1, a2

Agents == {a1, a2}

OwnTasks == a1 :> 1 @@ a2 :> 2

Tree == {<<"a">>, <<"a", "b">>, <<"a", "c">>, <<"b", "b">>, <<"a", "c", "b">>}

Asked ==
    {[kind |-> "path", target |-> p] : p \in {<<"a", "b">>, <<"*", "b">>}}
    \union {[kind |-> "package", target |-> p] : p \in {<<"a">>, <<"a", "c">>}}

=============================================================================
