------------------------------ MODULE MCNvram ------------------------------
(***************************************************************************)
(* Two variables with one-letter names.  CmosSize 16 leaves 8 bytes below  *)
(* NVRAM_MAX: two entries fit only if one of them is empty; MiniSize 20    *)
(* lets the fallback buffer outgrow the CMOS.                              *)
(***************************************************************************)
EXTENDS Nvram

MCParams == {<<97>>, <<98>>}
MCVals == {<< >>, <<116>>, <<102, 102>>}
MCDefault == (<<97>> :> <<116>>) @@ (<<98>> :> << >>)
=============================================================================
