--------------------------- MODULE MCTracerEvents ---------------------------
(* The tracer with its events on a small instance. *)
EXTENDS MCTracer, TracerEvents
=============================================================================
