---------------------------- MODULE MCTokenAuth ----------------------------
(***************************************************************************)
(* Two registry names; of the first, a repository and the bare name, whose *)
(* leaf is the name itself.                                                *)
(***************************************************************************)
EXTENDS TokenAuth, TLC

CONSTANTS acme, beta

MCPath == {<<acme, "app">>, <<acme>>, <<beta, "app">>}

\* Everything, and a pull of one repository beside an action nobody knows.
MCAccess ==
    {MCPath \X {"*"}, {<<<<acme, "app">>, "pull">>, <<<<acme>>, "delete">>}}

Symmetries ==
    Permutations(Registry) \cup Permutations(Repository) \cup Permutations(Key)
    \cup Permutations(Tenant) \cup Permutations(Caller)
=============================================================================
