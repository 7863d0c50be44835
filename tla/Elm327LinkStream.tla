-------------------------- MODULE Elm327LinkStream --------------------------
(***************************************************************************)
(* Elm327Link implements FrameStream, with one thread on the port.         *)
(***************************************************************************)
EXTENDS Elm327Link

(* The frames a call has still to write, and those the adapter has still   *)
(* to execute: a frame whose answer is waited for has left, or is lost.    *)
FirstUnsent(c) == IF job[c].op = "header" THEN 1
                  ELSE IF pc[c] = "read" THEN job[c].k + 1 ELSE job[c].k
Unsent(c) == IF job[c].op \in {"header", "frame"}
             THEN {[id |-> job[c].id, k |-> k, want |-> job[c].hdr] :
                      k \in FirstUnsent(c)..job[c].n}
             ELSE {}
Queued == {[id |-> toDev[i].id, k |-> toDev[i].k, want |-> toDev[i].hdr] :
              i \in {j \in DOMAIN toDev : toDev[j].op = "frame"}}

Stream == INSTANCE FrameStream WITH
              Ids <- 1..MaxCalls,
              Headers <- AllHeaders,
              pending <- Queued \cup UNION {Unsent(c) : c \in Callers},
              last <- lastFrame,
              risk <- headerAtRisk

(* With one thread on the port, what happens to the frames of the messages *)
(* written is what FrameStream allows, through every pattern of timeouts,  *)
(* late answers, header retries and pokes: none is sent twice, overtaken   *)
(* or given another header while belief and adapter agree.                 *)
ImplementsStream == Stream!Spec
=============================================================================
