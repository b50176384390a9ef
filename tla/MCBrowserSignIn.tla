-------------------------- MODULE MCBrowserSignIn --------------------------
(* An instance of BrowserSignIn for TLC: one tab signs out, the other keeps    *)
(* the session alive and reads.                                               *)
EXTENDS BrowserSignIn, TLC

CONSTANTS t1, t2

MCCallsOf == t1 :> {"logout"} @@ t2 :> {"activity", "api"}
=============================================================================
