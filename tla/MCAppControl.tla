----------------------------- MODULE MCAppControl -----------------------------
(* The instances of MCAppSync, with a client that acts on an app.          *)
EXTENDS AppControl, MCAppSync
=============================================================================
