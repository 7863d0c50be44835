-------------------------- MODULE MCPassThruSession -------------------------
(***************************************************************************)
(* PassThruSession on two small instances, in one run.  With the focus on  *)
(* the dialogs one thread opens the device, with every choice in every     *)
(* dialog, failures to save and restarts.  With the focus on the calls     *)
(* every dialog is left with the same choice, or cancelled, and the        *)
(* application runs once.                                                  *)
(***************************************************************************)
EXTENDS PassThruSession, TLC

VARIABLE focus

MCPort == CHOOSE p \in Ports : TRUE

(* The thread that makes the calls of the first focus.                     *)
MCThread == CHOOSE t \in Threads : TRUE

MCDialogs == /\ \A t \in Threads : at'[t] # "idle" =>
                    t = MCThread /\ call'[t].op = "Open"
             /\ writeTimeout' = "initial" /\ received' = 0

MCCalls == /\ SerialPorts' \in {<<>>, <<MCPort>>}
           /\ choice'.folder = DefaultFolder /\ choice'.rate = FirstRate
           /\ restarts' = 0

MCInit == Init /\ focus \in {"dialogs", "calls"}
MCNext == Next /\ focus' = focus /\ (IF focus = "dialogs" THEN MCDialogs ELSE MCCalls)
MCSpec == MCInit /\ [][MCNext]_<<vars, focus>>
=============================================================================
