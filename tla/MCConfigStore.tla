--------------------------- MODULE MCConfigStore ---------------------------
(* ConfigStore on three configurations and a few restarts. *)
EXTENDS ConfigStore

CONSTANTS c0, c1, c2, zero

const_Configs == {c0, c1, c2}
const_NoReadErrors == {{}}
=============================================================================
