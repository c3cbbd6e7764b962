---------------------------- MODULE MC_LinkAttach ----------------------------
(* LinkAttach for TLC: links are interchangeable goroutines.               *)
EXTENDS LinkAttach, TLC

LinkSymmetry == Permutations(Links)
====
