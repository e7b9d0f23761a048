--------------------------- MODULE MCExampleUsage ---------------------------
(* Small instances of ExampleUsage.                                         *)
EXTENDS ExampleUsage
=============================================================================
