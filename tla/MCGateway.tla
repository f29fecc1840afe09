----------------------------- MODULE MCGateway ------------------------------
(***************************************************************************)
(* Gateway with one HTTP request, two peers of which the second offers the *)
(* model, and a store of one job, so that another client's quote evicts    *)
(* that of the request.                                                    *)
(***************************************************************************)
EXTENDS Gateway, TLC

CONSTANTS h1, j1, j2, chat, m1

MCRequests == {h1}

MCCalls == MCRequests \X {"execute", "cancel"}

MCAdvertised == (1 :> {}) @@ (2 :> {<<chat, m1>>})

MCWant == (h1 :> <<chat, m1>>)

MCOffers == {[extra |-> 0, bound |-> TRUE], [extra |-> 1, bound |-> TRUE]}

Configuration(map, default, max) ==
    [modelMap |-> map, defaultPeer |-> default, maxPrice |-> max,
     allowlist |-> {}, allowUnlisted |-> FALSE]

MCConfigs ==
    {Configuration(EmptyMap, 0, 1), Configuration((m1 :> 1), 2, 0),
     [Configuration(EmptyMap, 1, 1) EXCEPT !.allowlist = {m1}]}
=============================================================================
