---------------------------- MODULE MCInjection ----------------------------
(* Model-checking instance of Injection: the default configuration, and    *)
(* those with one switch turned the other way.                             *)
EXTENDS Injection, TLC

Defaults == Flag \ {"passthroughOnly"}

OneSwitchTurned == {Defaults, Flag} \cup {Defaults \ {flag} : flag \in Defaults}
=============================================================================
