---------------------------- MODULE MCEngineLog -----------------------------
(* The instances of EngineLog that TLC checks.                             *)
EXTENDS EngineLog

MCGenerator == {"generator"}
MCEngines == {"engine1", "engine2"}
MCEngine1AndGenerator == {"engine1", "generator"}
MCNone == {}
=============================================================================
