------------------------------ MODULE MCWorker ------------------------------
EXTENDS Worker

(* No library (only Apache runs on without one), one from before           *)
(* ParseWithConfig, one without the entry points added last, one without   *)
(* ParseJson, and a current one.                                           *)
MCLibraries ==
    {{}, {"InitCache"}, Symbols \ {"ParseJson", "ParseWithConfigCtx"},
     Symbols \ {"ParseJson"}, Symbols}

============================================================================
