----------------------------- MODULE MCLifecycle -----------------------------
(***************************************************************************)
(* Start-up and shutdown of the server over every combination of config    *)
(* file state, containerised flag, sources section and SOURCES_JSON value, *)
(* meta storage presence, pool size (unset or set) and version reminder.   *)
(***************************************************************************)
EXTENDS Lifecycle

MCConfigs ==
  [cfgFile : {"none", "ok", "bad"}, containerized : BOOLEAN,
   sourcesFile : SourceForms,
   sourcesEnv : {"unset", "{}", "unparsable", "none", "inline"},
   metaDummy : BOOLEAN, poolSize : {0, 2}, reminder : BOOLEAN]

=============================================================================
