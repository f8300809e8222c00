---------------------------- MODULE MCDemoForge -----------------------------
(***************************************************************************)
(* Small instances of DemoForge.                                           *)
(***************************************************************************)
EXTENDS DemoForge, TLC

CONSTANTS r1, r2, r3, s1, bad

\* Two requests of one scenario and a bad one.
BadPayload == r1 :> s1 @@ r2 :> s1 @@ r3 :> bad
=============================================================================
