---------------------------- MODULE MCRipperMain ----------------------------
(* RipperMain with as many places that may fail as its properties allow: all *)
(* those that neither safety property excludes, and all those that are not   *)
(* Needed.                                                                   *)
EXTENDS RipperMain

MCFaults == {Places \ {"claim", "marking"}, Places \ Needed}
=============================================================================
