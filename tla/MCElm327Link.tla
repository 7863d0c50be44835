---------------------------- MODULE MCElm327Link ----------------------------
(***************************************************************************)
(* Elm327Link on small instances.                                          *)
(***************************************************************************)
EXTENDS Elm327LinkStream

CONSTANTS h1, iso

(* A single frame under one header, a message of two frames under the      *)
(* other, which is also the one a connect sets.                            *)
MCMessages == {[hdr |-> h1, n |-> 1], [hdr |-> iso, n |-> 2]}
MCSingle == {[hdr |-> h1, n |-> 1]}

(* Where a session stands after PassThruOpen and PassThruConnect of a VPW  *)
(* channel: the periodic-message thread cannot run before.                 *)
ConnectedInit ==
    /\ pc = [c \in Callers |-> "idle"]
    /\ job = [c \in Callers |-> NoJob]
    /\ got = [c \in Callers |-> <<>>]
    /\ currentHeader = Unset
    /\ received = <<>>
    /\ portOpen = TRUE
    /\ isOpen = TRUE
    /\ calls = 0
    /\ toDev = <<>> /\ devOut = <<>> /\ fromDev = <<>>
    /\ devHeader = HeaderReset
    /\ devEcho = FALSE
    /\ lastFrame = NoFrame
    /\ stale = FALSE /\ headerAtRisk = FALSE
ConnectedSpec == ConnectedInit /\ [][Next]_vars
=============================================================================
