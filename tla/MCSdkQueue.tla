----------------------------- MODULE MCSdkQueue -----------------------------
(* An instance of SdkQueue: sizes chosen so that both budgets overflow. An *)
(* OK event is too large for its budget, and another cannot be encoded.    *)
EXTENDS SdkQueue

CONSTANTS okSmall, okLarge, err, panic, huge, broken

MCSize == [e \in Events |-> CASE e = broken -> 0
                              [] e = okSmall -> 1
                              [] e = huge -> 4
                              [] OTHER -> 2]
=============================================================================
