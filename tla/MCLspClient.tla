------------------------------ MODULE MCLspClient -------------------------------
(***************************************************************************)
(* An instance of LspClient for TLC: pipes of two messages, and a server   *)
(* that numbers its own requests like the client.                          *)
(***************************************************************************)
EXTENDS LspInvariant

SomeServerIds == {1, 2}

================================================================================
