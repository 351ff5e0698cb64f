------------------------------ MODULE DurableLog ------------------------------
(***************************************************************************)
(* What the session journal promises: a log of facts whose acknowledged    *)
(* prefix is never lost or rewritten.  A crash may cut any part of the     *)
(* log that has not been acknowledged.  A write error ends the promise.    *)
(***************************************************************************)
EXTENDS Naturals, Sequences

CONSTANT Facts

VARIABLES
    log,    \* the facts accepted so far
    acked,  \* how many of them are known to be durable
    damaged \* a write has failed

vars == <<log, acked, damaged>>

Init == log = <<>> /\ acked = 0 /\ damaged = FALSE

Accept(fact) ==
    /\ ~ damaged
    /\ log' = Append(log, fact)
    /\ UNCHANGED <<acked, damaged>>

Acknowledge(n) ==
    /\ n \in (acked + 1)..Len(log)
    /\ acked' = n
    /\ UNCHANGED <<log, damaged>>

Crash(n) ==
    /\ n \in acked..Len(log)
    /\ log' = SubSeq(log, 1, n)
    /\ UNCHANGED <<acked, damaged>>

WriteError ==
    /\ log' = <<>> /\ acked' = 0
    /\ damaged' = TRUE

Next ==
    \/ \E fact \in Facts : Accept(fact)
    \/ \E n \in 1..Len(log) : Acknowledge(n)
    \/ \E n \in 0..Len(log) : Crash(n)
    \/ WriteError

Spec == Init /\ [][Next]_vars
=============================================================================
