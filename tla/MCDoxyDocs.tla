----------------------------- MODULE MCDoxyDocs -----------------------------
(* DoxyDocs on two classes: what is said of b is said in its class, of a   *)
(* only in its header; a memberdef of another kind may take the name of    *)
(* a's make function in a header, and of its constructor in the class.     *)
EXTENDS DoxyDocs

MCDescribed == {<<"class", "b">>, <<"header", "a">>}
MCHeaderDefs ==
  {Function(Make("a")), Function(Make("b")), Other(Make("a")),
   Function(Plain("operator bool"))}
MCClassDefs ==
  {Friend(Make("a")), Friend(Make("b")), Function(Plain("a")),
   Function(Plain("b")), Other(Plain("a"))}
=============================================================================
