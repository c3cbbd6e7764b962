--------------------------- MODULE MC_AmqpSender ---------------------------
(* Model-checking instance of AmqpSender: the Send callers are model values *)
(* and interchangeable, so safety runs may use their permutations.          *)
EXTENDS AmqpSender, TLC

CallerSymmetry == Permutations(Callers)
=============================================================================
