-------------------------- MODULE MCApplyServices --------------------------
(* Two containers of service "web" (a scaled service) and one of "db".      *)
EXTENDS ApplyServices

MCServices == {"web", "db"}
MCScaled == <<"web", "web", "db">>
=============================================================================
