---------------------------- MODULE MCZcCommands ----------------------------
(* ZcCommands for TLC: one credential set in two data centers, one of them   *)
(* named by an alias; the same without the cache; a given token; and three   *)
(* shells no client can be built in.                                         *)
EXTENDS ZcCommands

Own ==
    [dataCenter |-> "", clientID |-> "id", clientSecret |-> "secret",
     refreshToken |-> "refresh", accessToken |-> "", environment |-> "",
     apiVersion |-> "", noCache |-> ""]

MCShells ==
    { [Own EXCEPT !.noCache = "false"],
      [Own EXCEPT !.dataCenter = "zohoapis.eu", !.accessToken = "old"],
      [Own EXCEPT !.noCache = "yes"],
      [Own EXCEPT !.refreshToken = "", !.accessToken = "given", !.apiVersion = "v2"],
      [Own EXCEPT !.dataCenter = "moon"],
      [Own EXCEPT !.clientSecret = ""],
      [Own EXCEPT !.environment = "qa"] }
=============================================================================
