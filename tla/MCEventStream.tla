----------------------------- MODULE MCEventStream -----------------------------
(* Connections with and without previews. *)
EXTENDS EventStream

MCOptIns == {{}, PreviewTypes}
===============================================================================
