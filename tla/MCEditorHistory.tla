---------------------------- MODULE MCEditorHistory ----------------------------
(***************************************************************************)
(* The editor and its history for TLC, in the sessions of MCEditor.        *)
(***************************************************************************)
EXTENDS EditorHistory, MCEditor
===============================================================================
