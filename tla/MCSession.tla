----------------------------- MODULE MCSession -----------------------------
(***************************************************************************)
(* Every route of the product, every role a token may carry, one token     *)
(* that comes close to its end and two uses of a control or a retry: a     *)
(* handler of two writes and a reload, and two handlers side by side.      *)
(***************************************************************************)
EXTENDS Session

AllRoutes == ProductRoutes
=============================================================================
