---------------------------- MODULE MC_MoveConfig ----------------------------
(* Settings over the tokens "/", "~", "..", "bin" and the mys binary name: *)
(* server.path of up to 3 tokens ("~/bin", "/..", "bin/..", "../mys" ...), *)
(* mys.path of up to 2.                                                     *)
EXTENDS MoveConfig

CONSTANT null

MC_Names == {"bin"}

=============================================================================
