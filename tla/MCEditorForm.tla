---------------------------- MODULE MCEditorForm ----------------------------
(* A small instance of EditorForm: two records, of one page at a time.     *)
EXTENDS EditorForm

CONSTANTS r1, r2
=============================================================================
