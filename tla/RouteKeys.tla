------------------------------ MODULE RouteKeys ------------------------------
(***************************************************************************)
(* The constants every module of the project shares.                       *)
(***************************************************************************)
CONSTANTS
    Routes,     \* the Route keys (namespace/name)
    Nil         \* the nil pointer, the absent object
=============================================================================
