---------------------------- MODULE FrameStream -----------------------------
(***************************************************************************)
(* What the link to the adapter promises of the messages written to it,    *)
(* with nothing of commands, answers, prompts and retries: the frames of   *)
(* the messages reach the bus in the order in which the messages were      *)
(* written and each message's frames were built, none of them twice, and   *)
(* each under the header its message asked for, unless the header is known *)
(* to be at risk.  A frame may be lost on the way; nothing is said about   *)
(* when one arrives.                                                       *)
(*                                                                         *)
(* Elm327LinkStream shows that Elm327Link implements this for the one      *)
(* thread inside a PassThru* function.                                     *)
(***************************************************************************)
EXTENDS Naturals

CONSTANTS
    Ids,          \* names of the messages, in the order they are written
    Headers,      \* headers of the adapter, and that of no frame yet
    MaxFrames,    \* most frames of one message
    NoFrame       \* the last frame before the first one

VARIABLES
    pending,      \* frames written and not on the bus, nor lost
    last,         \* the frame that was put on the bus last
    risk          \* the adapter's header may not be the one asked for

vars == <<pending, last, risk>>

WrittenFrame == [id : Ids, k : 1..MaxFrames, want : Headers]
Precedes(a, b) == a.id < b.id \/ (a.id = b.id /\ a.k < b.k)

Init == pending = {} /\ last = NoFrame /\ risk = FALSE

(* The header does not become right again.                                 *)
RiskRemains == risk' \in BOOLEAN /\ (risk => risk')

(* A message is written: its frames come after all there were.             *)
Write(id, hdr, n) ==
    /\ id > last.id
    /\ \A f \in pending : id > f.id
    /\ pending' = pending \cup {[id |-> id, k |-> k, want |-> hdr] : k \in 1..n}
    /\ UNCHANGED last
    /\ RiskRemains

(* The frame that is first in line goes on the bus.                        *)
Transmit(f) ==
    /\ \A g \in pending \ {f} : Precedes(f, g)
    /\ pending' = pending \ {f}
    /\ \E hdr \in Headers :
          /\ ~risk => hdr = f.want
          /\ last' = [id |-> f.id, k |-> f.k, want |-> f.want, hdr |-> hdr]
    /\ RiskRemains

(* Frames are lost: a command that did not leave, a call that gave up.     *)
Lose == /\ pending' \subseteq pending
        /\ UNCHANGED last
        /\ RiskRemains

Next == \/ \E id \in Ids, hdr \in Headers, n \in 1..MaxFrames : Write(id, hdr, n)
        \/ \E f \in pending : Transmit(f)
        \/ Lose

Spec == Init /\ [][Next]_vars
=============================================================================
