---------------------------- MODULE MCAudioReset ----------------------------
(* AudioReset for TLC: the training level, VS BATTLE, whose spec a level's    *)
(* replaces without a change of status, and a song of the title's spec, which *)
(* replaces either with a blocking reset.  Every other reset waits.           *)
EXTENDS AudioReset

CONSTANTS training, lane, versus, specCO, specTR, specTITLE, specVS

MCLevels == Track \cap {training}
MCSpecOf == [t \in Track |->
  IF t = training THEN specTR ELSE IF t = lane THEN specTITLE ELSE specVS]
MCReset == [p \in Specs \X Specs |->
  IF p \in {<<specTR, specTITLE>>, <<specVS, specTITLE>>} THEN "BLOCK"
  ELSE IF p[1] = specVS THEN "unchanged" ELSE "WAIT"]
MCFade == [i \in 2..4 |-> IF i = 3 THEN 1 ELSE 0]

=============================================================================
