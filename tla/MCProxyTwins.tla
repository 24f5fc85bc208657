---------------------------- MODULE MCProxyTwins -----------------------------
(* ProxyTwins for TLC: its definitions, and those TLC has of its own.        *)
EXTENDS ProxyTwins, TLC
=============================================================================
