----------------------------- MODULE MCLifecycle -----------------------------
(* Small instances of Lifecycle.  The scripts are the ones of the modules of  *)
(* this repository that matter to App: data.Module registers data.db and a    *)
(* hook, web.Server registers web.server and a hook.                          *)
EXTENDS Lifecycle, TLC

CONSTANTS web, data, openDB, serve, audit, webServer, dataDB, appConfig, Repo

Service(n) == [op |-> "service", id |-> n]
Hooked(h)  == [op |-> "hook", id |-> h]

MCScript == web :> <<Service(webServer), Hooked(serve)>>
            @@ data :> <<Service(dataDB), Hooked(openDB)>>
MCInitialModules == <<data, web>>
MCAutowired == <<Repo>>
=============================================================================
