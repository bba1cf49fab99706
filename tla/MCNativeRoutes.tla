---------------------------- MODULE MCNativeRoutes ----------------------------
(***************************************************************************)
(* A small instance of NativeRoutes for TLC.                               *)
(***************************************************************************)
EXTENDS NativeRoutes

App(methods, table, origins) == [methods |-> methods, table |-> table, origins |-> origins]

SomeApps ==
    {App({"GET", "DELETE"}, "users", {"o1"}), App({"DELETE", "PUT"}, "notes", {}),
     App({"GET"}, "no table", {"*"})}

Asked(method, id, body, origin) == [method |-> method, id |-> id, body |-> body, origin |-> origin]

SomeRequests ==
    {Asked("GET", 0, FALSE, "o1"), Asked("GET", 1, FALSE, "o2"), Asked("DELETE", 1, FALSE, "o1"),
     Asked("DELETE", 0, FALSE, "o1"), Asked("PUT", 1, TRUE, "o1")}
=============================================================================
