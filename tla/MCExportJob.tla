---------------------------- MODULE MCExportJob ----------------------------
(* ExportJob with two requests next to the background task.                *)
EXTENDS ExportJob

CONSTANTS c1, c2
=============================================================================
