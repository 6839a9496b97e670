----------------------------- MODULE MCWebServer -----------------------------
(* Small instances of WebServer.                                              *)
EXTENDS WebServer, TLC

CONSTANTS users, orders, getUsers, getOrders, postOrders, home

MCRoutesOf == users :> <<getUsers>> @@ orders :> <<getOrders, postOrders>>
=============================================================================
