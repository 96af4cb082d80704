-------------------------- MODULE ClientInterface --------------------------
(***************************************************************************)
(* A booted OS calling back into the firmware: ci_handler, ci_dispatch and *)
(* ci_dispatch_body (of/ci_entry.c, the build without tracing), with the   *)
(* workarounds for the NULL ihandles and the property enumeration of       *)
(* amigaboot.of, over upstream's client_interface and the services whose   *)
(* effects meet in them.  Which calls the OS makes, with what MSR[EE], is  *)
(* arbitrary.  A handle is the address of an instance, and a later open    *)
(* may get the address of a closed one again.                              *)
(***************************************************************************)
EXTENDS Integers, Sequences, SequencesExt

CONSTANTS Handles,   \* addresses instances can be allocated at
          Null,      \* a NULL handle
          Names,     \* property names
          LongNames, \* those of more than 31 characters
          Depth      \* cells of the Forth stack (STACK_SIZE)

ASSUME HandleAssumption == Null \notin Handles /\ LongNames \subseteq Names
ASSUME DepthAssumption == Depth \in Nat
ASSUME NamesAssumption == "" \notin Names   \* "" begins an enumeration

VARIABLES pc,     \* os, entry, body, service, collect, leave
          call,   \* the call structure: service, handle, name, nargs, nrets
          rc,     \* what ci_handler returns: 0 or -1
          ee,     \* MSR[EE]
          osEE,   \* MSR[EE] of the OS when it called (saved_msr)
          live,   \* instances that are open
          last,   \* g_last_ihandle
          freed,  \* instances a method was run on after they were closed
          sp,     \* cells on the Forth stack
          base,   \* the sp that client_interface saved
          taken,  \* cells (by index) returned to the OS by this call
          props,  \* the property list of a package, newest first
          walk    \* the OS's enumeration: what it began with, what it got

vars == <<pc, call, rc, ee, osEE, live, last, freed, sp, base, taken, props, walk>>

NoCall == [svc |-> "none", ih |-> Null, name |-> "", nargs |-> 0, nrets |-> 0]
NoWalk == [state |-> "none", prev |-> "", had |-> <<>>, got |-> <<>>]

\* A call the OS can make.  The handles it passes are NULL or open; the name is
\* the previous property for nextprop, "" to begin, and the new one for setprop.
Calls ==
  [svc : {"call-method", "read"}, ih : live \union {Null}, name : {""}, nargs : {3}, nrets : {1, 2}]
  \union [svc : {"close"}, ih : live \union {Null}, name : {""}, nargs : {1}, nrets : {0, 1}]
  \union [svc : {"open", "unknown"}, ih : {Null}, name : {""}, nargs : {1}, nrets : {0, 1}]
  \union [svc : {"setprop"}, ih : {Null}, name : Names, nargs : {4}, nrets : {1}]
  \union [svc : {"nextprop"}, ih : {Null}, name : {"", walk.prev}, nargs : {3}, nrets : {1}]

\* The OS is started from a prompt whose stack may hold cells already.
Init ==
  /\ pc = "os"
  /\ call = NoCall
  /\ rc = 0
  /\ ee \in {"on", "off"}
  /\ osEE = ee
  /\ live = {}
  /\ last = Null
  /\ freed = {}
  /\ sp \in 0 .. Depth - 1
  /\ base = sp
  /\ taken = {}
  /\ props \in {<<>>} \union {<<n>> : n \in Names}
  /\ walk = NoWalk

\* The OS changes its MSR[EE].
OsMsr ==
  /\ pc = "os"
  /\ ee' = IF ee = "on" THEN "off" ELSE "on"
  /\ osEE' = ee'
  /\ UNCHANGED <<pc, call, rc, live, last, freed, sp, base, taken, props, walk>>

\* The OS calls; ci_dispatch saves the MSR and sets EE.  A nextprop with an
\* empty name begins an enumeration.
Enter ==
  /\ pc = "os"
  /\ \E c \in Calls :
       /\ call' = c
       /\ walk' = IF c.svc = "nextprop" /\ c.name = ""
                  THEN [NoWalk EXCEPT !.state = "on", !.had = props] ELSE walk
  /\ osEE' = ee
  /\ ee' = "on"
  /\ taken' = {}
  /\ pc' = "entry"
  /\ UNCHANGED <<rc, live, last, freed, sp, base, props>>

\* amigaboot_ihandle_fixup_in: a NULL handle is replaced by the last one
\* seen, if there is one; any other is remembered.
FixupIn ==
  /\ pc = "entry"
  /\ IF call.svc \in {"call-method", "read"}
     THEN IF call.ih = Null
          THEN call' = [call EXCEPT !.ih = last] /\ UNCHANGED last
          ELSE last' = call.ih /\ UNCHANGED call
     ELSE UNCHANGED <<call, last>>
  /\ pc' = "body"
  /\ UNCHANGED <<rc, ee, osEE, live, freed, sp, base, taken, props, walk>>

\* Where find_table finds the previous name; nowhere if nextprop cut it at 31
\* characters (no other property is taken to have the name that is left).
FoundAt == {k \in DOMAIN props : props[k] = call.name /\ call.name \notin LongNames}

\* Mutant of After: the entry that was found, as if the link were not followed.
AfterSame == IF call.name = "" THEN {1} ELSE FoundAt

\* The entries that follow the previous name: at most one.
After == IF call.name = "" THEN {1} ELSE {k + 1 : k \in FoundAt}

\* The nextprop that ci_dispatch_body answers itself, without the Forth stack.
Nextprop ==
  /\ pc = "body"
  /\ call.svc = "nextprop"
  /\ IF After \subseteq DOMAIN props /\ After # {}
     THEN \E k \in After :
            walk' = [walk EXCEPT !.prev = props[k], !.got = Append(@, props[k])]
     ELSE walk' = [walk EXCEPT !.prev = "", !.state = "over"]
  /\ rc' = 0
  /\ pc' = "leave"
  /\ UNCHANGED <<call, ee, osEE, live, last, freed, sp, base, taken, props>>

\* client_interface: sp is saved; the arguments are pushed if they fit.
PushArgs ==
  /\ pc = "body"
  /\ call.svc # "nextprop"
  /\ sp + call.nargs < Depth
  /\ base' = sp
  /\ sp' = sp + call.nargs
  /\ pc' = "service"
  /\ UNCHANGED <<call, rc, ee, osEE, live, last, freed, taken, props, walk>>

\* They do not fit.
StackFull ==
  /\ pc = "body"
  /\ call.svc # "nextprop"
  /\ sp + call.nargs >= Depth
  /\ rc' = -1
  /\ base' = sp
  /\ pc' = "leave"
  /\ UNCHANGED <<call, ee, osEE, live, last, freed, sp, taken, props, walk>>

\* Mutant of Fail: the stack is left as the failed service left it.
FailUnbalanced ==
  /\ pc = "service"
  /\ \/ call.svc = "unknown"
     \/ call.svc \in {"call-method", "read"} /\ call.ih = Null
  /\ rc' = -1
  /\ pc' = "leave"
  /\ UNCHANGED <<call, ee, osEE, live, last, freed, sp, base, taken, props, walk>>

\* A service that is unknown, or that is given no instance, returns an error;
\* sp goes back to what it was.
Fail ==
  /\ pc = "service"
  /\ \/ call.svc = "unknown"
     \/ call.svc \in {"call-method", "read"} /\ call.ih = Null
  /\ rc' = -1
  /\ sp' = base
  /\ pc' = "leave"
  /\ UNCHANGED <<call, ee, osEE, live, last, freed, base, taken, props, walk>>

\* amigaboot_ihandle_track_open: the handle is remembered if the OS takes it.
TrackOpen(h) == IF call.nrets >= 1 THEN h ELSE last

\* open pushes the handle of the new instance, or 0 where there is none.
OpenDev ==
  /\ pc = "service"
  /\ call.svc = "open"
  /\ \/ \E h \in Handles \ live :
          /\ live' = live \union {h}
          /\ freed' = freed \ {h}
          /\ last' = TrackOpen(h)
     \/ UNCHANGED <<live, freed, last>>
  /\ sp' = base + 1
  /\ pc' = "collect"
  /\ UNCHANGED <<call, rc, ee, osEE, base, taken, props, walk>>

\* close deletes the instance and leaves nothing.  g_last_ihandle stays.
CloseDev ==
  /\ pc = "service"
  /\ call.svc = "close"
  /\ live' = live \ {call.ih}
  /\ sp' = base
  /\ pc' = "collect"
  /\ UNCHANGED <<call, rc, ee, osEE, last, freed, base, taken, props, walk>>

\* call-method and read, write, seek run a method of the instance.  A method
\* may leave any number of cells, fewer than there were included; of read, write
\* and seek an error of the method ends the call.
RunMethod ==
  /\ pc = "service"
  /\ call.svc \in {"call-method", "read"}
  /\ call.ih # Null
  /\ freed' = IF call.ih \in live THEN freed ELSE freed \union {call.ih}
  /\ \/ /\ \E n \in 0 .. Depth - 1 : sp' = n
        /\ pc' = "collect"
        /\ UNCHANGED rc
     \/ /\ call.svc = "read"
        /\ sp' = base
        /\ rc' = -1
        /\ pc' = "leave"
  /\ UNCHANGED <<call, ee, osEE, live, last, base, taken, props, walk>>

\* add_prop: a new property goes to the head of the list.
AddProp(name) == IF Contains(props, name) THEN props ELSE <<name>> \o props

\* setprop; without memory for the value nothing changes.
Setprop ==
  /\ pc = "service"
  /\ call.svc = "setprop"
  /\ props' \in {props, AddProp(call.name)}
  /\ sp' = base + 1
  /\ pc' = "collect"
  /\ UNCHANGED <<call, rc, ee, osEE, live, last, freed, base, taken, walk>>

\* The cells that are popped for the OS: at most nrets, none below the base.
Results == {k \in sp - call.nrets + 1 .. sp : k > base}

\* client_interface pops the results, unless the stack as a whole holds fewer
\* than nrets cells, and puts sp back.
Collect ==
  /\ pc = "collect"
  /\ IF call.nrets # 0 /\ sp < call.nrets
     THEN rc' = -1 /\ UNCHANGED taken
     ELSE rc' = 0 /\ taken' = Results
  /\ sp' = base
  /\ pc' = "leave"
  /\ UNCHANGED <<call, ee, osEE, live, last, freed, base, props, walk>>

\* ci_dispatch restores the MSR and returns to the OS.
Leave ==
  /\ pc = "leave"
  /\ ee' = osEE
  /\ call' = NoCall
  /\ pc' = "os"
  /\ UNCHANGED <<rc, osEE, live, last, freed, sp, base, taken, props, walk>>

Next == OsMsr \/ Enter \/ FixupIn \/ Nextprop \/ PushArgs \/ StackFull \/ Fail
        \/ OpenDev \/ CloseDev \/ RunMethod \/ Setprop \/ Collect \/ Leave

Spec == Init /\ [][Next]_vars

-----------------------------------------------------------------------------
(* Properties *)

\* Whatever the call was and however it ended, the OS gets back the MSR[EE]
\* it called with (ci_dispatch) and the Forth stack is as deep as it was
\* before (client_interface), so calls can be made for ever; and no cell that
\* was on it before was handed out as a result, even if the method took more
\* than it was given.
CallLeavesNoTrace ==
  /\ pc = "os" => ee = osEE /\ sp = base
  /\ \A k \in taken : k > base

\* amigaboot's enumeration of the properties: what it gets is a prefix of the
\* properties the package had when it began, in order and once each, however
\* many were added meanwhile (they go to the head of the list); when it is
\* over it has seen them all, unless a name of more than 31 characters ended it.
EnumerationComplete ==
  /\ IsPrefix(walk.got, walk.had)
  /\ walk.state = "over" /\ Range(walk.had) \intersect LongNames = {} => walk.got = walk.had

\* The handle used for a NULL one is "the most-recently-used valid ihandle":
\* no method runs on an instance that was closed.
NoMethodOnFreed == freed = {}

\* The handler runs with the MSR of the OS.
SameMsr == pc # "os" => ee = osEE

\* -1 is returned for a service whose name is unknown and for nothing else.
MinusOneMeansUnknown == pc = "leave" /\ rc = -1 => call.svc = "unknown"
=============================================================================
