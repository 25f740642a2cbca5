----------------------------- MODULE MCSqlText -----------------------------
(* TLC instance of SqlText.                                                *)
EXTENDS SqlText
=============================================================================
