--------------------------- MODULE MemoryService ---------------------------
(***************************************************************************)
(* What claim and release promise a client: a set of free addresses.  No   *)
(* list, no blocks: a fixed claim is granted exactly when every address of *)
(* it is free, an aligned one gets the lowest aligned range that is free,  *)
(* and what is released can be claimed again in any other pieces.          *)
(***************************************************************************)
EXTENDS Integers

VARIABLES free,    \* the addresses nobody holds
          reply    \* the last call and its answer

Range(a, s) == a .. a + s - 1

\* The bases of the free ranges of s addresses that start on a multiple of al.
Bases(al, s) == {a \in free : a % al = 0 /\ Range(a, s) \subseteq free}

Init ==
  /\ free = {}
  /\ reply = [op |-> "none"]

\* The memory is handed over once, less what the firmware keeps.
Install ==
  /\ free = {} /\ reply.op = "none"
  /\ free' # {}
  /\ reply' = [op |-> "installed"]

\* A range that could be granted: the caller gets it, or is told that there
\* was no room for the bookkeeping.  When the room for the new "available"
\* property is missing ("nodesc") the range is gone although the call failed.
Grant(R) == \/ reply'.ret = "ok" /\ free' = free \ R
            \/ reply'.ret = "nomem" /\ free' = free
            \/ reply'.ret = "nodesc" /\ free' = free \ R

ClaimFixed ==
  /\ reply'.op = "claim" /\ reply'.align = 0
  /\ LET R == Range(reply'.addr, reply'.size)
     IN \/ R \subseteq free /\ Grant(R)
        \/ ~ (R \subseteq free) /\ reply'.ret = "out" /\ free' = free

ClaimAligned ==
  /\ reply'.op = "claim" /\ reply'.align > 0
  /\ LET B == Bases(reply'.align, reply'.size)
     IN \/ /\ reply'.addr \in B
           /\ \A b \in B : reply'.addr <= b
           /\ Grant(Range(reply'.addr, reply'.size))
        \/ B = {} /\ reply'.ret = "out" /\ free' = free

\* A claim of no bytes is refused or granted, and takes nothing.
ClaimNothing ==
  /\ reply'.op = "claim" /\ reply'.size = 0
  /\ free' = free

Release ==
  /\ reply'.op = "release"
  /\ LET R == Range(reply'.addr, reply'.size)
     IN \/ R \cap free = {} /\ reply'.ret \in {"ok", "nodesc"} /\ free' = free \cup R
        \/ R \cap free = {} /\ reply'.ret = "nomem" /\ free' = free
        \/ R \cap free # {} /\ reply'.ret = "bad" /\ free' = free

\* The release service of the client interface.
ClientRelease == reply'.op = "client-release" /\ free' = free

Next == Install \/ ClaimFixed \/ ClaimAligned \/ ClaimNothing \/ Release \/ ClientRelease

Spec == Init /\ [][Next]_<<free, reply>>

=============================================================================
