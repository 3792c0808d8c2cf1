------------------------------- MODULE MCStdio -------------------------------
(* A small instance of Stdio for TLC: one line of every kind.              *)
EXTENDS Stdio, TLC

CONSTANTS l1, l2, l3, l4, l5, l6

Input == {l1, l2, l3, l4, l5, l6}

\* Two requests, one of which is answered early, and one line of each other kind.
InputKind ==
    l1 :> "request" @@ l2 :> "early" @@ l3 :> "malformed" @@ l4 :> "notification"
      @@ l5 :> "blank" @@ l6 :> "request"
=============================================================================
