---------------------------- MODULE MCSmartBoot ----------------------------
(* SmartBoot on disks of up to three partition blocks: a first block of    *)
(* every kind before a sound one that ends the chain or links back, and    *)
(* three sound blocks.                                                     *)
EXTENDS SmartBoot

Sound(d, p, n) ==
  [readable |-> TRUE, magic |-> TRUE, checksum |-> TRUE, geometry |-> TRUE,
   dostype |-> d, pri |-> p, next |-> n]

Kinds(n) ==
  {Sound("DOS", 0, n), Sound("EXT", 0, n), Sound("LNX", 1, n),
   Sound("SFS", -1, n), Sound("SWP", 0, n)}
    \union {[Sound("LNX", 0, n) EXCEPT !.checksum = FALSE],
            [Sound("LNX", 0, n) EXCEPT !.geometry = FALSE],
            [Sound("LNX", 0, n) EXCEPT !.readable = FALSE]}

TwoBlocks == {[first |-> 1, blocks |-> <<a, b>>] :
                a \in Kinds(2),
                b \in {Sound("LNX", 0, EndOfChain), Sound("DOS", 0, 1)}}
ThreeBlocks == {[first |-> 1, blocks |-> <<Sound("EXT", p, 2), Sound("LNX", 0, 3),
                                           Sound("DOS", 0, EndOfChain)>>] :
                  p \in {-1, 0, 1}}
MCDisks == TwoBlocks \union ThreeBlocks
             \union {[first |-> EndOfChain, blocks |-> << >>]}

MCPriorityLists ==
  {<< >>, <<"amiga", Junk, "linux">>}

MCTypedCommands ==
  {Command("hd", 1, "/vmlinux", None),
   [Command("cd", 0, "vmlinux", None) EXCEPT !.go = FALSE]}

MCBootDevices == <<[dev |-> "hd", slot |-> -1], [dev |-> "cd", slot |-> 0]>>
=============================================================================
