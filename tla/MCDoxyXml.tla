----------------------------- MODULE MCDoxyXml -----------------------------
(* DoxyXml with the classes there are, for TLC.                            *)
EXTENDS DoxyXml, DoxyClasses
=============================================================================
