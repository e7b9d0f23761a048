-------------------------- MODULE MCSharedLogPointer --------------------------
(* Small instances of SharedLogPointer.                                     *)
EXTENDS SharedLogPointer

=============================================================================
