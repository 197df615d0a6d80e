--------------------------- MODULE MCHttpSurface ---------------------------
(* An instance of HttpSurface for TLC.                                     *)
EXTENDS HttpSurface

OneToken == {1}
Unlimited == NoDeadline
=============================================================================
