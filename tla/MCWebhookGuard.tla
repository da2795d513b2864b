--------------------------- MODULE MCWebhookGuard ---------------------------
(***************************************************************************)
(* A small instance of WebhookGuard.  Requests are interchangeable, and so *)
(* are processes; the run checks safety only, so symmetry is sound.        *)
(***************************************************************************)
EXTENDS WebhookGuard, TLC

GuardSymmetry == Permutations(Request) \cup Permutations(Process)
=============================================================================
