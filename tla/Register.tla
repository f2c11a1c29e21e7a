----------------------------- MODULE Register -----------------------------
(***************************************************************************)
(* What the store promises for one key, with no replica, fan-out, call,    *)
(* hint or stored list in it: a regular register that keeps conflicting    *)
(* versions.  A get, and the read a put begins with, returns versions none *)
(* of which supersedes another, all of puts under way or ended, and for    *)
(* each put that was acknowledged before it began that put's version or a  *)
(* newer one.  The version of a put supersedes all that the put read.  Of  *)
(* puts that overlap the read, or were refused, it may return any: two     *)
(* reads may even see such a put in the wrong order.                       *)
(*                                                                         *)
(* A delete leaves nothing behind that a read could return, so from the    *)
(* first delete on a read may miss what it likes; and so it may once the   *)
(* store is no longer sound.  (Modules QuorumKV and HandoffKV implement    *)
(* the register, and say when it is sound.)                                *)
(***************************************************************************)
EXTENDS VectorClock

CONSTANTS Put, Get, Delete

Write   == Put \cup Delete
Request == Put \cup Get \cup Delete

VARIABLES stage,   \* of each request: idle, open, done or refused
          before,  \* the writes acknowledged before the request began
          result,  \* what a get returned, and what a put read
          clk,     \* the clock a put minted; ZeroClock before
          sound    \* whether reads can be relied upon

Minted(p) == clk[p] # ZeroClock

Init == /\ stage = [o \in Request |-> "idle"]
        /\ before = [o \in Request |-> {}]
        /\ result = [o \in Request |-> {}]
        /\ clk = [p \in Put |-> ZeroClock]
        /\ sound \in BOOLEAN

Begin(o) ==
    /\ stage[o] = "idle"
    /\ stage' = [stage EXCEPT ![o] = "open"]
    /\ before' = [before EXCEPT ![o] = {q \in Write : stage[q] = "done"}]
    /\ UNCHANGED <<result, clk, sound>>

MayReturn(o, versions) ==
    /\ \A v \in versions : Minted(v)
    /\ IsAntichain(clk, versions)
    /\ sound /\ (\A d \in Delete : stage[d] = "idle") =>
          \A p \in before[o] \cap Put : Covers(clk, versions, clk[p])

\* A get returns the versions it read.
Answer(g) ==
    /\ stage[g] = "open"
    /\ \E versions \in SUBSET Put :
          /\ MayReturn(g, versions)
          /\ result' = [result EXCEPT ![g] = versions]
    /\ stage' = [stage EXCEPT ![g] = "done"]
    /\ UNCHANGED <<before, clk, sound>>

\* A put reads, and makes a version that supersedes what it read.
Mint(p) ==
    /\ stage[p] = "open" /\ ~ Minted(p)
    /\ \E versions \in SUBSET Put :
          /\ MayReturn(p, versions)
          /\ result' = [result EXCEPT ![p] = versions]
          /\ \A v \in versions : Compare(clk'[p], clk[v]) = "dominates"
    /\ clk'[p] \in Clock \ {ZeroClock}
    /\ clk' = [clk EXCEPT ![p] = clk'[p]]
    /\ UNCHANGED <<stage, before, sound>>

\* A write is acknowledged; a put only with a version of its own.
Return(o) ==
    /\ stage[o] = "open" /\ (o \in Put => Minted(o))
    /\ stage' = [stage EXCEPT ![o] = "done"]
    /\ UNCHANGED <<before, result, clk, sound>>

\* Nothing is undone: a put that minted its version may be read later on.
Refuse(o) ==
    /\ stage[o] = "open"
    /\ stage' = [stage EXCEPT ![o] = "refused"]
    /\ UNCHANGED <<before, result, clk, sound>>

Weaken == /\ sound /\ sound' = FALSE
          /\ UNCHANGED <<stage, before, result, clk>>

Next == \/ \E o \in Request : Begin(o) \/ Refuse(o)
        \/ \E g \in Get : Answer(g)
        \/ \E p \in Put : Mint(p)
        \/ \E o \in Write : Return(o)
        \/ Weaken

Spec == Init /\ [][Next]_<<stage, before, result, clk, sound>>
=============================================================================
