-------------------------- MODULE MCHostMiddleware --------------------------
(* Instances of HostMiddleware for TLC. *)
EXTENDS HostMiddleware, TLC

(* Two middleware for every agent, one for the helper. *)
TwoAndHelper == <<{}, {}, {"desk"}>>

Root == <<"agent">>
Waiting == <<"agent", "desk">>    \* the helper waits for the user

NoStacks == {}
RootOnly == {Root}
Stacks == {Root, Waiting}

AlikeTools == Permutations(Tools)
=============================================================================
