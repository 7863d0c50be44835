------------------------------ MODULE MCIsoTp -------------------------------
(***************************************************************************)
(* IsoTp on small instances.  The lengths are those around the boundaries: *)
(* a single frame, the first frames of a segmented message, the frame      *)
(* number's wrap at 16, the byte kept of a received length, the largest    *)
(* message.                                                                *)
(***************************************************************************)
EXTENDS IsoTp

MCSizes == (1..30) \cup (109..126) \cup {4095}
MCAnswerSizes == (1..30) \cup (109..126) \cup {250, 254, 255}
MCShort == 1..15
=============================================================================
