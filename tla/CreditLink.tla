----------------------------- MODULE CreditLink -----------------------------
(***************************************************************************)
(* What a sending link promises its callers and its peer (spec.md 4.5 and  *)
(* 5), with frames, the mux and the session abstracted away.               *)
(*   granted  : the delivery limit the link has learnt from the peer; it   *)
(*              only grows while the peer never lowers its limit;          *)
(*   wire     : the deliveries completed on the link, in order;            *)
(*   returned : the outcomes Send has reported;                            *)
(*   open     : the link still accepts deliveries.                         *)
(* A delivery is completed at most once, only while the link is open and   *)
(* only within the granted limit; Send reports each message once, and      *)
(* reports success only for a message that was delivered.                  *)
(***************************************************************************)
EXTENDS Naturals, Sequences, FiniteSets

CONSTANT Msgs     \* the messages (delivery tags) callers may send

VARIABLES granted, wire, returned, open

vars == <<granted, wire, returned, open>>

Outcomes == [m: Msgs, res: {"ok", "err"}]

TypeOK ==
    /\ granted \in Nat
    /\ wire \in Seq(Msgs)
    /\ returned \subseteq Outcomes
    /\ open \in BOOLEAN

Init ==
    /\ granted = 0
    /\ wire = <<>>
    /\ returned = {}
    /\ open = TRUE

\* The peer raises the limit (a flow reaches the link).
Grant ==
    /\ granted' > granted
    /\ UNCHANGED <<wire, returned, open>>

\* A delivery is completed: its last frame is on the wire.
Deliver(m) ==
    /\ open
    /\ Len(wire) < granted
    /\ \A i \in 1..Len(wire) : wire[i] # m
    /\ wire' = Append(wire, m)
    /\ UNCHANGED <<granted, returned, open>>

\* Send reports the outcome of message m, once.
Report(m, res) ==
    /\ \A r \in returned : r.m # m
    /\ res = "ok" => \E i \in 1..Len(wire) : wire[i] = m
    /\ returned' = returned \cup {[m |-> m, res |-> res]}
    /\ UNCHANGED <<granted, wire, open>>

\* The link stops taking deliveries (close, detach, session end).
Stop ==
    /\ open
    /\ open' = FALSE
    /\ UNCHANGED <<granted, wire, returned>>

Next ==
    \/ Grant
    \/ \E m \in Msgs : Deliver(m)
    \/ \E m \in Msgs, res \in {"ok", "err"} : Report(m, res)
    \/ Stop

Spec == Init /\ [][Next]_vars
=============================================================================
