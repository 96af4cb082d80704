--------------------------- MODULE PropertyProofs ---------------------------
(***************************************************************************)
(* Theorems about the two places where properties live.  ClientInterface,  *)
(* for every set of handles and names and every depth of the stack: a call *)
(* leaves no trace, and the enumeration of properties is complete.  Nvram, *)
(* for every set of variables and values and every CMOS size up to that of *)
(* the VT8231: the image stays canonical and inside its buffer, /options   *)
(* agrees with it, and no boot accepts what a store has written.           *)
(***************************************************************************)
EXTENDS ClientInterface, Nvram, SequenceTheorems, WellFoundedInduction, TLAPS

-----------------------------------------------------------------------------
(* MSR and stack. *)

(* While a call is on its way in, and once it is on its way out, the stack  *)
(* is as deep as client_interface found it; only a service may change that. *)
(* No result has been taken before the service has run.                     *)
StackInv ==
  /\ pc = "os" => ee = osEE
  /\ pc \in {"os", "entry", "body", "leave"} => sp = base
  /\ pc \in {"entry", "body", "service", "collect"} => taken = {}
  /\ \A k \in taken : k > base

LEMMA StackInvStep == StackInv /\ [Next]_vars => StackInv'
<1> SUFFICES ASSUME StackInv, [Next]_vars PROVE StackInv'
  OBVIOUS
<1> USE DEF StackInv
<1>1. CASE OsMsr \/ Enter
  BY <1>1 DEF OsMsr, Enter
<1>2. CASE FixupIn \/ Nextprop
  BY <1>2 DEF FixupIn, Nextprop
<1>3. CASE PushArgs \/ StackFull \/ Fail
  BY <1>3 DEF PushArgs, StackFull, Fail
<1>4. CASE OpenDev \/ CloseDev \/ Setprop
  BY <1>4 DEF OpenDev, CloseDev, Setprop
<1>5. CASE RunMethod
  BY <1>5 DEF RunMethod
<1>6. CASE Collect
  <2>1. pc' = "leave" /\ sp' = base /\ base' = base /\ taken = {}
    BY <1>6 DEF Collect
  <2>2. taken' = {} \/ taken' = Results
    BY <1>6, <2>1 DEF Collect
  <2>3. \A k \in Results : k > base
    BY DEF Results
  <2>4. QED
    BY <2>1, <2>2, <2>3
<1>7. CASE Leave
  BY <1>7 DEF Leave
<1>8. CASE UNCHANGED vars
  BY <1>8 DEF vars
<1>9. QED
  BY <1>1, <1>2, <1>3, <1>4, <1>5, <1>6, <1>7, <1>8 DEF Next

(* The OS gets its MSR[EE] back from ci_dispatch and the Forth stack keeps  *)
(* its depth through client_interface, whatever the service did and however *)
(* the call ended, and no cell of before is handed out: for every depth of  *)
(* the stack and every sequence of calls.                                   *)
THEOREM NoTraceHolds == Spec => []CallLeavesNoTrace
<1>1. Init => StackInv
  BY DEF Init, StackInv
<1>2. StackInv => CallLeavesNoTrace
  BY DEF StackInv, CallLeavesNoTrace
<1>3. QED
  BY <1>1, <1>2, StackInvStep, PTL DEF Spec

-----------------------------------------------------------------------------
(* Types. *)

CallType ==
  [svc : {"none", "call-method", "read", "close", "open", "unknown", "setprop", "nextprop"},
   ih : Handles \union {Null}, name : Names \union {""}, nargs : Nat, nrets : Nat]

WalkType ==
  [state : {"none", "on", "over"}, prev : Names \union {""}, had : Seq(Names), got : Seq(Names)]

TypeInv ==
  /\ call \in CallType
  /\ last \in Handles \union {Null}
  /\ live \subseteq Handles
  /\ props \in Seq(Names)
  /\ walk \in WalkType
  /\ call.svc = "setprop" => call.name \in Names

LEMMA CallSets ==
  ASSUME NEW S1, NEW S2, NEW S3, NEW S4, NEW S5,
         NEW c \in [svc : S1, ih : S2, name : S3, nargs : S4, nrets : S5],
         NEW T1, NEW T2, NEW T3, NEW T4, NEW T5,
         S1 \subseteq T1, S2 \subseteq T2, S3 \subseteq T3, S4 \subseteq T4, S5 \subseteq T5
  PROVE  /\ c.svc \in S1 /\ c.name \in S3
         /\ c \in [svc : T1, ih : T2, name : T3, nargs : T4, nrets : T5]
OBVIOUS

LEMMA CallsTyped ==
  ASSUME live \subseteq Handles, walk \in WalkType, NEW c \in Calls
  PROVE  /\ c \in CallType
         /\ c.svc = "setprop" => c.name \in Names
         /\ c.svc = "nextprop" => c.name \in {"", walk.prev}
<1>1. {0, 1, 2} \subseteq Nat /\ {0, 1} \subseteq Nat /\ {1, 2} \subseteq Nat
      /\ {1} \subseteq Nat /\ {3} \subseteq Nat /\ {4} \subseteq Nat
  OBVIOUS
<1>2. {"", walk.prev} \subseteq Names \union {""}
  BY DEF WalkType
<1>3. live \union {Null} \subseteq Handles \union {Null} /\ {Null} \subseteq Handles \union {Null}
  OBVIOUS
<1>4. {""} \subseteq Names \union {""} /\ Names \subseteq Names \union {""}
  OBVIOUS
<1> DEFINE Svcs == {"none", "call-method", "read", "close", "open", "unknown", "setprop", "nextprop"}
<1>5. /\ {"call-method", "read"} \subseteq Svcs /\ {"close"} \subseteq Svcs
      /\ {"open", "unknown"} \subseteq Svcs
      /\ {"setprop"} \subseteq Svcs /\ {"nextprop"} \subseteq Svcs
  BY Zenon
<1>6. CallType = [svc : Svcs, ih : Handles \union {Null}, name : Names \union {""},
                  nargs : Nat, nrets : Nat]
  BY DEF CallType
<1> HIDE DEF Svcs
<1>7. CASE c \in [svc : {"call-method", "read"}, ih : live \union {Null}, name : {""},
                 nargs : {3}, nrets : {1, 2}]
  <2>1. c.svc \in {"call-method", "read"} /\ c \in CallType
    BY <1>1, <1>3, <1>4, <1>5, <1>6, <1>7, CallSets
  <2>2. QED
    BY <2>1, Zenon
<1>8. CASE c \in [svc : {"close"}, ih : live \union {Null}, name : {""}, nargs : {1}, nrets : {0, 1}]
  <2>1. c.svc \in {"close"} /\ c \in CallType
    BY <1>1, <1>3, <1>4, <1>5, <1>6, <1>8, CallSets
  <2>2. QED
    BY <2>1, Zenon
<1>9. CASE c \in [svc : {"open", "unknown"}, ih : {Null}, name : {""}, nargs : {1}, nrets : {0, 1}]
  <2>1. c.svc \in {"open", "unknown"} /\ c \in CallType
    BY <1>1, <1>3, <1>4, <1>5, <1>6, <1>9, CallSets
  <2>2. QED
    BY <2>1, Zenon
<1>10. CASE c \in [svc : {"setprop"}, ih : {Null}, name : Names, nargs : {4}, nrets : {1}]
  <2>1. c.svc \in {"setprop"} /\ c.name \in Names /\ c \in CallType
    BY <1>1, <1>3, <1>4, <1>5, <1>6, <1>10, CallSets
  <2>2. QED
    BY <2>1, Zenon
<1>11. CASE c \in [svc : {"nextprop"}, ih : {Null}, name : {"", walk.prev}, nargs : {3}, nrets : {1}]
  <2>1. c.svc \in {"nextprop"} /\ c.name \in {"", walk.prev} /\ c \in CallType
    BY <1>1, <1>2, <1>3, <1>5, <1>6, <1>11, CallSets
  <2>2. QED
    BY <2>1, Zenon
<1>12. QED
  BY <1>7, <1>8, <1>9, <1>10, <1>11 DEF Calls

LEMMA AddPropSeq ==
  ASSUME NEW s \in Seq(Names), NEW e \in Names
  PROVE  /\ <<e>> \o s \in Seq(Names)
         /\ Len(<<e>> \o s) = Len(s) + 1
         /\ (<<e>> \o s)[1] = e
         /\ \A i \in 1 .. Len(s) : (<<e>> \o s)[i + 1] = s[i]
<1>1. <<e>> \in Seq(Names) /\ Len(<<e>>) = 1 /\ <<e>>[1] = e
  OBVIOUS
<1>2. QED
  BY <1>1, ConcatProperties

LEMMA NoWalkTyped == NoWalk \in WalkType
BY DEF NoWalk, WalkType

LEMMA NextTyped == TypeInv /\ [Next]_vars => TypeInv'
<1> SUFFICES ASSUME TypeInv, [Next]_vars PROVE TypeInv'
  OBVIOUS
<1> USE DEF TypeInv
<1>1. CASE Enter
  <2>1. PICK c \in Calls :
          /\ call' = c
          /\ walk' = IF c.svc = "nextprop" /\ c.name = ""
                     THEN [NoWalk EXCEPT !.state = "on", !.had = props] ELSE walk
    BY <1>1 DEF Enter
  <2>2. [NoWalk EXCEPT !.state = "on", !.had = props] \in WalkType
    <3>1. ASSUME NEW r \in WalkType
          PROVE  [r EXCEPT !.state = "on", !.had = props] \in WalkType
      BY DEF WalkType
    <3>2. QED
      BY <3>1, NoWalkTyped
  <2>3. walk' \in WalkType
    BY <2>1, <2>2
  <2>4. UNCHANGED <<last, live, props>>
    BY <1>1 DEF Enter
  <2>5. QED
    BY <2>1, <2>3, <2>4, CallsTyped
<1>2. CASE FixupIn
  <2>1. UNCHANGED <<live, props, walk>>
    BY <1>2 DEF FixupIn
  <2>2. call' \in CallType /\ call'.svc = call.svc /\ call'.name = call.name
    BY <1>2 DEF FixupIn, CallType
  <2>3. last' \in Handles \union {Null}
    BY <1>2 DEF FixupIn, CallType
  <2>4. QED
    BY <2>1, <2>2, <2>3
<1>3. CASE Nextprop
  <2>1. UNCHANGED <<call, last, live, props>>
    BY <1>3 DEF Nextprop
  <2>2. walk' \in WalkType
    <3>1. CASE After \subseteq DOMAIN props /\ After # {}
      <4>1. PICK k \in After :
              walk' = [walk EXCEPT !.prev = props[k], !.got = Append(@, props[k])]
        BY <1>3, <3>1 DEF Nextprop
      <4>2. props[k] \in Names
        BY <3>1, ElementOfSeq, LenProperties
      <4>3. walk.got \in Seq(Names)
        BY DEF WalkType
      <4>4. Append(walk.got, props[k]) \in Seq(Names)
        BY <4>2, <4>3, AppendProperties
      <4>5. walk' = [walk EXCEPT !.prev = props[k], !.got = Append(walk.got, props[k])]
        BY <4>1
      <4>6. QED
        BY <4>2, <4>4, <4>5 DEF WalkType
    <3>2. CASE ~(After \subseteq DOMAIN props /\ After # {})
      BY <1>3, <3>2 DEF Nextprop, WalkType
    <3>3. QED
      BY <3>1, <3>2
  <2>3. QED
    BY <2>1, <2>2
<1>4. CASE Setprop
  <2>1. UNCHANGED <<call, last, live, walk>> /\ props' \in {props, AddProp(call.name)}
    BY <1>4 DEF Setprop
  <2>2. call.name \in Names
    BY <1>4 DEF Setprop
  <2>3. props' \in Seq(Names)
    BY <2>1, <2>2, AddPropSeq DEF AddProp
  <2>4. QED
    BY <2>1, <2>3
<1>5. CASE OpenDev
  <2>1. last' \in Handles \union {Null} /\ live' \subseteq Handles
    BY <1>5 DEF OpenDev, TrackOpen
  <2>2. QED
    BY <1>5, <2>1 DEF OpenDev
<1>6. CASE CloseDev
  BY <1>6 DEF CloseDev
<1>7. CASE Leave
  <2>1. NoCall \in CallType /\ NoCall.svc = "none"
    BY DEF NoCall, CallType
  <2>2. QED
    BY <1>7, <2>1 DEF Leave
<1>8. CASE OsMsr \/ PushArgs \/ StackFull \/ Fail \/ RunMethod \/ Collect
  BY <1>8 DEF OsMsr, PushArgs, StackFull, Fail, RunMethod, Collect
<1>9. CASE UNCHANGED vars
  BY <1>9 DEF vars
<1>10. QED
  BY <1>1, <1>2, <1>3, <1>4, <1>5, <1>6, <1>7, <1>8, <1>9 DEF Next

LEMMA InitTyped == Init => TypeInv
<1> SUFFICES ASSUME Init PROVE TypeInv
  OBVIOUS
<1>1. props \in Seq(Names)
  <2>1. << >> \in Seq(Names) /\ \A n \in Names : <<n>> \in Seq(Names)
    OBVIOUS
  <2>2. props = << >> \/ \E n \in Names : props = <<n>>
    BY DEF Init
  <2>3. QED
    BY <2>1, <2>2
<1>2. NoCall \in CallType /\ NoCall.svc = "none"
  BY DEF NoCall, CallType
<1>3. NoWalk \in WalkType
  BY NoWalkTyped
<1>4. QED
  BY <1>1, <1>2, <1>3 DEF Init, TypeInv

-----------------------------------------------------------------------------
(* The enumeration. *)

Unique(p) == \A i, j \in DOMAIN p : p[i] = p[j] => i = j

EndsWith(p, h) ==
  /\ Len(h) <= Len(p)
  /\ \A i \in 1 .. Len(h) : h[i] = p[i + (Len(p) - Len(h))]

BeginsWith(h, g) ==
  /\ Len(g) <= Len(h)
  /\ \A i \in 1 .. Len(g) : g[i] = h[i]

(* A new name at the head moves the old ones up by one place. *)
LEMMA ConsKeeps ==
  ASSUME NEW p \in Seq(Names), NEW h \in Seq(Names), NEW e \in Names,
         Unique(p), EndsWith(p, h), ~Contains(p, e)
  PROVE  Unique(<<e>> \o p) /\ EndsWith(<<e>> \o p, h)
<1> DEFINE q == <<e>> \o p
           n == Len(p)
           m == Len(h)
<1>1. /\ n \in Nat /\ m \in Nat /\ q \in Seq(Names) /\ Len(q) = n + 1 /\ q[1] = e
      /\ \A i \in 1 .. n : q[i + 1] = p[i]
      /\ DOMAIN p = 1 .. n /\ DOMAIN q = 1 .. n + 1
  BY AddPropSeq, LenProperties
<1>2. \A i \in 1 .. n : p[i] # e
  BY DEF Contains
<1>3. /\ \A i, j \in 1 .. n : p[i] = p[j] => i = j
      /\ m <= n /\ \A i \in 1 .. m : h[i] = p[i + (n - m)]
  BY <1>1 DEF Unique, EndsWith
<1>4. Len(q) = n + 1
  BY <1>1
<1> HIDE DEF q, n, m
<1>5. \A i \in 2 .. n + 1 : i - 1 \in 1 .. n /\ q[i] = p[i - 1]
  <2> TAKE i \in 2 .. n + 1
  <2>1. i - 1 \in 1 .. n /\ (i - 1) + 1 = i
    BY <1>1
  <2>2. QED
    BY <1>1, <2>1
<1>6. Unique(q)
  <2> SUFFICES ASSUME NEW i \in 1 .. n + 1, NEW j \in 1 .. n + 1, q[i] = q[j] PROVE i = j
    BY <1>1 DEF Unique
  <2>1. CASE i = 1 \/ j = 1
    BY <1>1, <1>2, <1>5, <2>1
  <2>2. CASE i # 1 /\ j # 1
    <3>1. i \in 2 .. n + 1 /\ j \in 2 .. n + 1
      BY <1>1, <2>2
    <3>2. p[i - 1] = p[j - 1] /\ i - 1 \in 1 .. n /\ j - 1 \in 1 .. n
      BY <1>5, <3>1
    <3>3. i - 1 = j - 1
      BY <1>3, <3>2
    <3>4. QED
      BY <1>1, <3>3
  <2>3. QED
    BY <2>1, <2>2
<1>7. \A i \in 1 .. m : h[i] = q[i + (n + 1 - m)]
  <2> TAKE i \in 1 .. m
  <2>1. i + (n - m) \in 1 .. n /\ (i + (n - m)) + 1 = i + (n + 1 - m)
    BY <1>1, <1>3
  <2>2. q[(i + (n - m)) + 1] = p[i + (n - m)]
    BY <1>1, <2>1
  <2>3. QED
    BY <1>3, <2>1, <2>2
<1>8. EndsWith(q, h)
  <2>1. m <= Len(q)
    BY <1>1, <1>3
  <2>2. \A i \in 1 .. m : h[i] = q[i + (Len(q) - m)]
    <3>1. Len(q) - m = n + 1 - m
      BY <1>1, <1>4
    <3>2. QED
      BY <1>7, <3>1, Zenon
  <2>3. QED
    BY <2>1, <2>2 DEF EndsWith, m
<1>9. QED
  BY <1>6, <1>8 DEF q

(* Where the list has the last name that was got, and what follows it. *)
LEMMA PlaceOfLast ==
  ASSUME NEW p \in Seq(Names), NEW h \in Seq(Names), NEW g \in Seq(Names),
         Unique(p), EndsWith(p, h), BeginsWith(h, g)
  PROVE  LET k == Len(g) + (Len(p) - Len(h)) IN
         /\ k \in Nat
         /\ Len(g) > 0 => {i \in DOMAIN p : p[i] = g[Len(g)]} = {k}
         /\ Len(g) < Len(h) => k + 1 \in DOMAIN p /\ p[k + 1] = h[Len(g) + 1]
         /\ Len(g) = Len(h) => k + 1 \notin DOMAIN p
<1> DEFINE n == Len(p)
           m == Len(h)
           l == Len(g)
           k == l + (n - m)
<1>1. /\ n \in Nat /\ m \in Nat /\ l \in Nat /\ DOMAIN p = 1 .. n
      /\ m <= n /\ l <= m
      /\ \A i, j \in 1 .. n : p[i] = p[j] => i = j
      /\ \A i \in 1 .. m : h[i] = p[i + (n - m)]
      /\ \A i \in 1 .. l : g[i] = h[i]
  BY LenProperties DEF Unique, EndsWith, BeginsWith
<1> HIDE DEF n, m, l
<1>2. k \in Nat
  BY <1>1
<1>3. ASSUME l > 0 PROVE {i \in DOMAIN p : p[i] = g[l]} = {k}
  <2>1. l \in 1 .. m /\ l \in 1 .. l /\ k \in 1 .. n
    BY <1>1, <1>3
  <2>2. p[k] = g[l]
    BY <1>1, <2>1
  <2> HIDE DEF k
  <2>3. \A i \in 1 .. n : p[i] = g[l] <=> i = k
    BY <1>1, <2>1, <2>2
  <2>4. QED
    BY <1>1, <2>1, <2>3
<1>4. ASSUME l < m PROVE k + 1 \in DOMAIN p /\ p[k + 1] = h[l + 1]
  <2>1. l + 1 \in 1 .. m /\ k + 1 \in 1 .. n /\ k + 1 = (l + 1) + (n - m)
    BY <1>1, <1>4
  <2>2. QED
    BY <1>1, <2>1
<1>5. ASSUME l = m PROVE k + 1 \notin DOMAIN p
  BY <1>1, <1>5
<1>6. QED
  BY <1>2, <1>3, <1>4, <1>5 DEF n, m, l

(* One name more is got. *)
LEMMA GotOneMore ==
  ASSUME NEW h \in Seq(Names), NEW g \in Seq(Names), BeginsWith(h, g), Len(g) < Len(h)
  PROVE  LET x == h[Len(g) + 1]
             t == Append(g, x)
         IN x \in Names /\ t \in Seq(Names) /\ Len(t) = Len(g) + 1 /\ t[Len(t)] = x /\ BeginsWith(h, t)
<1> DEFINE m == Len(h)
           l == Len(g)
           x == h[l + 1]
           t == Append(g, x)
<1>1. /\ m \in Nat /\ l \in Nat /\ l < m /\ \A i \in 1 .. l : g[i] = h[i]
  BY LenProperties DEF BeginsWith
<1>2. x \in Names
  BY <1>1, ElementOfSeq
<1>3. /\ t \in Seq(Names) /\ Len(t) = l + 1 /\ t[l + 1] = x
      /\ \A i \in 1 .. l : t[i] = g[i]
  BY <1>2, AppendProperties
<1> HIDE DEF t, l, m
<1>4. \A i \in 1 .. l + 1 : t[i] = h[i]
  BY <1>1, <1>3
<1>5. BeginsWith(h, t)
  <2>1. l + 1 <= m
    BY <1>1
  <2>2. QED
    BY <1>3, <1>4, <2>1 DEF BeginsWith, m
<1>6. QED
  BY <1>2, <1>3, <1>5 DEF t, l

(* add_prop's list has no name twice, and ends with what it was when the    *)
(* enumeration began: new properties go to its head.                        *)
ListInv == Unique(props) /\ EndsWith(props, walk.had)

(* What the OS got is the beginning of what there was, and the name it goes *)
(* on from is the last it got.                                              *)
GotInv ==
  /\ BeginsWith(walk.had, walk.got)
  /\ walk.prev # "" => /\ walk.state = "on" /\ Len(walk.got) > 0
                       /\ walk.prev = walk.got[Len(walk.got)]
  /\ walk.state = "over" => \/ Len(walk.got) = Len(walk.had)
                            \/ Range(walk.had) \intersect LongNames # {}

(* A nextprop on its way in asks for what follows the last name, or has     *)
(* just begun.                                                              *)
AskInv ==
  pc \in {"entry", "body"} /\ call.svc = "nextprop" =>
    /\ call.name = walk.prev /\ walk.state = "on"
    /\ call.name = "" => walk.got = << >> /\ walk.had = props

WalkInv == ListInv /\ GotInv /\ AskInv

LEMMA EmptyFits ==
  ASSUME NEW s \in Seq(Names)
  PROVE  EndsWith(s, << >>) /\ EndsWith(s, s) /\ BeginsWith(s, << >>)
<1>1. Len(s) \in Nat /\ Len(<< >>) = 0
  BY LenProperties
<1>2. Len(s) - Len(s) = 0 /\ \A i \in 1 .. Len(s) : i + 0 = i
  BY <1>1
<1>3. QED
  BY <1>1, <1>2 DEF EndsWith, BeginsWith

LEMMA InitWalk == Init => WalkInv
<1> SUFFICES ASSUME Init PROVE WalkInv
  OBVIOUS
<1>1. walk = NoWalk /\ pc = "os" /\ (props = << >> \/ \E n \in Names : props = <<n>>)
  BY DEF Init
<1>2. walk.had = << >> /\ walk.got = << >> /\ walk.prev = "" /\ walk.state = "none"
  BY <1>1 DEF NoWalk
<1>3. props \in Seq(Names)
  BY InitTyped DEF TypeInv
<1>4. Unique(props)
  <2>1. Unique(<< >>) /\ \A n \in Names : Unique(<<n>>)
    BY DEF Unique
  <2>2. QED
    BY <1>1, <2>1
<1>5. << >> \in Seq(Names)
  OBVIOUS
<1>6. QED
  BY <1>1, <1>2, <1>3, <1>4, <1>5, EmptyFits DEF WalkInv, ListInv, GotInv, AskInv

(* A new enumeration begins with the list as it is. *)
LEMMA EnterWalk == TypeInv /\ WalkInv /\ Enter => WalkInv'
<1> SUFFICES ASSUME TypeInv, WalkInv, Enter PROVE WalkInv'
  OBVIOUS
<1>1. PICK c \in Calls :
        /\ call' = c
        /\ walk' = IF c.svc = "nextprop" /\ c.name = ""
                   THEN [NoWalk EXCEPT !.state = "on", !.had = props] ELSE walk
  BY DEF Enter
<1>2. props' = props /\ pc' = "entry" /\ props \in Seq(Names)
  BY DEF Enter, TypeInv
<1>3. c.svc = "nextprop" => c.name \in {"", walk.prev}
  BY CallsTyped DEF TypeInv
<1>4. CASE c.svc = "nextprop" /\ c.name = ""
  <2>1. /\ walk'.state = "on" /\ walk'.prev = "" /\ walk'.had = props /\ walk'.got = << >>
    BY <1>1, <1>4 DEF NoWalk
  <2>2. ListInv'
    BY <1>2, <2>1, EmptyFits DEF WalkInv, ListInv
  <2>3. GotInv'
    BY <1>2, <2>1, EmptyFits DEF GotInv
  <2>4. AskInv'
    BY <1>1, <1>2, <1>4, <2>1 DEF AskInv
  <2>5. QED
    BY <2>2, <2>3, <2>4 DEF WalkInv
<1>5. CASE ~(c.svc = "nextprop" /\ c.name = "")
  <2>1. walk' = walk
    BY <1>1, <1>5
  <2>2. ListInv' /\ GotInv'
    BY <1>2, <2>1 DEF WalkInv, ListInv, GotInv
  <2>3. AskInv'
    BY <1>1, <1>3, <1>5, <2>1 DEF AskInv, WalkInv, GotInv
  <2>4. QED
    BY <2>2, <2>3 DEF WalkInv
<1>6. QED
  BY <1>4, <1>5

(* The name after the last one, in the list as it is now, is the next one   *)
(* of the list as it was.                                                   *)
LEMMA NextpropWalk == TypeInv /\ WalkInv /\ Nextprop => WalkInv'
<1> SUFFICES ASSUME TypeInv, WalkInv, Nextprop PROVE WalkInv'
  OBVIOUS
<1> DEFINE h == walk.had
           g == walk.got
           k == Len(g) + (Len(props) - Len(h))
<1>1. /\ props \in Seq(Names) /\ h \in Seq(Names) /\ g \in Seq(Names)
      /\ walk \in WalkType /\ call.name \in Names \union {""}
  BY DEF TypeInv, WalkType, CallType
<1>2. Unique(props) /\ EndsWith(props, h) /\ BeginsWith(h, g)
  BY DEF WalkInv, ListInv, GotInv
<1>3. /\ call.name = walk.prev /\ walk.state = "on"
      /\ call.name = "" => g = << >> /\ h = props
  BY DEF Nextprop, WalkInv, AskInv
<1>4. call.name # "" => Len(g) > 0 /\ call.name = g[Len(g)]
  BY <1>3 DEF WalkInv, GotInv
<1>5. /\ k \in Nat
      /\ Len(g) > 0 => {i \in DOMAIN props : props[i] = g[Len(g)]} = {k}
      /\ Len(g) < Len(h) => k + 1 \in DOMAIN props /\ props[k + 1] = h[Len(g) + 1]
      /\ Len(g) = Len(h) => k + 1 \notin DOMAIN props
  BY <1>1, <1>2, PlaceOfLast
<1>6. props' = props /\ pc' = "leave"
  BY DEF Nextprop
<1>7. AskInv'
  BY <1>6 DEF AskInv
<1>8. Len(g) \in Nat /\ Len(h) \in Nat /\ Len(props) \in Nat /\ Len(g) <= Len(h)
  BY <1>1, <1>2, LenProperties DEF BeginsWith
<1>9. ASSUME walk' = [walk EXCEPT !.prev = "", !.state = "over"],
             Len(g) = Len(h) \/ Range(h) \intersect LongNames # {}
      PROVE  WalkInv'
  <2>1. walk'.prev = "" /\ walk'.state = "over" /\ walk'.had = h /\ walk'.got = g
    BY <1>1, <1>9 DEF WalkType
  <2> HIDE DEF g, h
  <2>2. ListInv' /\ GotInv'
    BY <1>2, <1>6, <1>9, <2>1 DEF ListInv, GotInv
  <2>3. QED
    BY <1>7, <2>2 DEF WalkInv
<1>10. CASE call.name \in LongNames
  <2>1. call.name # ""
    BY <1>10, HandleAssumption, NamesAssumption
  <2>2. After = {}
    BY <1>10, <2>1 DEF After, FoundAt
  <2>3. walk' = [walk EXCEPT !.prev = "", !.state = "over"]
    BY <2>2 DEF Nextprop
  <2>4. call.name \in Range(h)
    <3>1. Len(g) \in 1 .. Len(h) /\ g[Len(g)] = h[Len(g)]
      <4>1. \A i \in 1 .. Len(g) : g[i] = h[i]
        BY <1>2 DEF BeginsWith
      <4>2. Len(g) > 0
        BY <1>4, <2>1
      <4> HIDE DEF g, h
      <4>3. QED
        BY <1>8, <4>1, <4>2
    <3>2. DOMAIN h = 1 .. Len(h)
      BY <1>1, LenProperties
    <3>3. QED
      BY <1>4, <2>1, <3>1, <3>2 DEF Range
  <2>5. QED
    BY <1>9, <1>10, <2>3, <2>4
<1>11. CASE call.name \notin LongNames
  <2>1. After = {k + 1}
    <3>1. CASE call.name = ""
      <4>1. Len(g) = 0 /\ Len(h) = Len(props)
        BY <1>3, <3>1
      <4>2. k + 1 = 1
        BY <1>8, <4>1
      <4>3. QED
        BY <3>1, <4>2 DEF After
    <3>2. CASE call.name # ""
      <4>1. FoundAt = {k}
        BY <1>4, <1>5, <1>11, <3>2 DEF FoundAt
      <4>2. QED
        BY <3>2, <4>1 DEF After
    <3>3. QED
      BY <3>1, <3>2
  <2>2. CASE Len(g) < Len(h)
    <3> DEFINE x == h[Len(g) + 1]
               t == Append(g, x)
    <3>1. k + 1 \in DOMAIN props /\ props[k + 1] = x
      BY <1>5, <2>2
    <3>2. walk' = [walk EXCEPT !.prev = x, !.got = t]
      <4> HIDE DEF k
      <4> QED BY <2>1, <3>1 DEF Nextprop
    <3>3. x \in Names /\ t \in Seq(Names) /\ Len(t) = Len(g) + 1 /\ t[Len(t)] = x /\ BeginsWith(h, t)
      BY <1>1, <1>2, <2>2, GotOneMore
    <3> HIDE DEF x, t
    <3>4. walk'.prev = x /\ walk'.state = "on" /\ walk'.had = h /\ walk'.got = t
      BY <1>1, <1>3, <3>2 DEF WalkType
    <3>5. Len(t) > 0
      BY <1>8, <3>3
    <3> HIDE DEF g, h, k
    <3>6. ListInv' /\ GotInv'
      BY <1>2, <1>6, <3>3, <3>4, <3>5 DEF ListInv, GotInv
    <3>7. QED
      BY <1>7, <3>6 DEF WalkInv
  <2>3. CASE Len(g) = Len(h)
    <3>1. k + 1 \notin DOMAIN props
      BY <1>5, <2>3
    <3>2. walk' = [walk EXCEPT !.prev = "", !.state = "over"]
      <4> HIDE DEF g, h, k
      <4> QED BY <2>1, <3>1 DEF Nextprop
    <3>3. QED
      BY <1>9, <2>3, <3>2
  <2>4. QED
    BY <1>8, <2>2, <2>3
<1>12. QED
  BY <1>10, <1>11

LEMMA SetpropWalk == TypeInv /\ WalkInv /\ Setprop => WalkInv'
<1> SUFFICES ASSUME TypeInv, WalkInv, Setprop PROVE WalkInv'
  OBVIOUS
<1>1. /\ props \in Seq(Names) /\ walk.had \in Seq(Names) /\ call.name \in Names
  BY DEF TypeInv, WalkType, Setprop
<1>2. walk' = walk /\ pc' = "collect" /\ props' \in {props, AddProp(call.name)}
  BY DEF Setprop
<1>3. GotInv' /\ AskInv'
  BY <1>2 DEF WalkInv, GotInv, AskInv
<1>4. ListInv'
  <2>1. CASE props' = props
    BY <1>2, <2>1 DEF WalkInv, ListInv
  <2>2. CASE props' # props
    <3>1. props' = <<call.name>> \o props /\ ~Contains(props, call.name)
      BY <1>2, <2>2 DEF AddProp
    <3>2. QED
      BY <1>1, <1>2, <3>1, ConsKeeps DEF WalkInv, ListInv
  <2>3. QED
    BY <2>1, <2>2
<1>5. QED
  BY <1>3, <1>4 DEF WalkInv

LEMMA WalkStep == TypeInv /\ WalkInv /\ [Next]_vars => WalkInv'
<1> SUFFICES ASSUME TypeInv, WalkInv, [Next]_vars PROVE WalkInv'
  OBVIOUS
<1>0. ASSUME UNCHANGED <<props, walk>>,
             pc' \in {"entry", "body"} => /\ pc \in {"entry", "body"}
                                          /\ call'.svc = call.svc /\ call'.name = call.name
      PROVE  WalkInv'
  BY <1>0 DEF WalkInv, ListInv, GotInv, AskInv
<1>1. CASE Enter
  BY <1>1, EnterWalk
<1>2. CASE FixupIn
  BY <1>0, <1>2 DEF FixupIn, TypeInv, CallType
<1>3. CASE Nextprop
  BY <1>3, NextpropWalk
<1>4. CASE Setprop
  BY <1>4, SetpropWalk
<1>5. CASE OsMsr \/ PushArgs \/ StackFull \/ Fail \/ Collect \/ Leave
  BY <1>0, <1>5 DEF OsMsr, PushArgs, StackFull, Fail, Collect, Leave
<1>6. CASE OpenDev \/ CloseDev \/ RunMethod
  BY <1>0, <1>6 DEF OpenDev, CloseDev, RunMethod
<1>7. CASE UNCHANGED vars
  BY <1>0, <1>7 DEF vars
<1>8. QED
  BY <1>1, <1>2, <1>3, <1>4, <1>5, <1>6, <1>7 DEF Next

LEMMA WalkGivesProperty == TypeInv /\ WalkInv => EnumerationComplete
<1> SUFFICES ASSUME TypeInv, WalkInv PROVE EnumerationComplete
  OBVIOUS
<1>1. walk.had \in Seq(Names) /\ walk.got \in Seq(Names)
  BY DEF TypeInv, WalkType
<1>2. /\ Len(walk.got) \in Nat /\ Len(walk.had) \in Nat /\ Len(walk.got) <= Len(walk.had)
      /\ \A i \in 1 .. Len(walk.got) : walk.got[i] = walk.had[i]
  BY <1>1, LenProperties DEF WalkInv, GotInv, BeginsWith
<1>3. IsPrefix(walk.got, walk.had)
  <2> DEFINE s == SubSeq(walk.got, 1, Len(walk.got))
             t == SubSeq(walk.had, 1, Len(walk.got))
  <2>1. /\ s \in Seq(Names) /\ Len(s) = Len(walk.got)
        /\ \A i \in 1 .. Len(walk.got) : s[i] = walk.got[i]
    BY <1>1, <1>2, SubSeqProperties
  <2>2. /\ t \in Seq(Names) /\ Len(t) = Len(walk.got)
        /\ \A i \in 1 .. Len(walk.got) : t[i] = walk.had[i]
    BY <1>1, <1>2, SubSeqProperties
  <2> HIDE DEF s, t
  <2>3. s = t
    BY <1>2, <2>1, <2>2, SeqEqual
  <2>4. QED
    BY <1>2, <2>3 DEF IsPrefix, s, t
<1>4. ASSUME walk.state = "over", Range(walk.had) \intersect LongNames = {}
      PROVE  walk.got = walk.had
  <2>1. Len(walk.got) = Len(walk.had)
    BY <1>4 DEF WalkInv, GotInv
  <2>2. QED
    BY <1>1, <1>2, <2>1, SeqEqual
<1>5. QED
  BY <1>3, <1>4 DEF EnumerationComplete

(* amigaboot's enumeration through nextprop of ci_dispatch_body gives every *)
(* property of the package once, in order, although setprop adds others     *)
(* between its calls, for any number of properties and any names.           *)
THEOREM EnumerationHolds == Spec => []EnumerationComplete
<1>1. Init => TypeInv /\ WalkInv
  BY InitTyped, InitWalk
<1>2. TypeInv /\ WalkInv /\ [Next]_vars => TypeInv' /\ WalkInv'
  BY NextTyped, WalkStep
<1>3. QED
  BY <1>1, <1>2, WalkGivesProperty, PTL DEF Spec

-----------------------------------------------------------------------------
(* Sums and concatenations *)

LEMMA LeastNatural ==
  ASSUME NEW T, T \subseteq Nat, T # {}
  PROVE  \E x \in T : \A y \in T : x <= y
<1>1. ASSUME NEW R, IsWellFoundedOn(R, Nat), \A x, y \in Nat : y < x => <<y, x>> \in R
      PROVE  \E x \in T : \A y \in T : x <= y
  <2>1. PICK x \in T : \A y \in T : ~ (<<y, x>> \in R)
    BY <1>1, WFMin
  <2>2. \A y \in T : ~ (y < x)
    BY <1>1, <2>1
  <2>3. QED
    BY <2>2
<1>2. \A x, y \in Nat : y < x => <<y, x>> \in OpToRel(<, Nat)
  BY DEF OpToRel
<1>3. QED
  BY <1>1, <1>2, NatLessThanWellFounded, Zenon

(* The recursive definition of ByteSum has a solution. *)
LEMMA SumExists ==
  ASSUME NEW s, NEW n \in Nat
  PROVE  \E g : g = [i \in 0 .. n |-> IF i = 0 THEN 0 ELSE g[i - 1] + s[i]]
<1> DEFINE Solves(g, m) == g = [i \in 0 .. m |-> IF i = 0 THEN 0 ELSE g[i - 1] + s[i]]
           T == {m \in Nat : ~ \E g : Solves(g, m)}
<1>1. SUFFICES ASSUME T # {} PROVE FALSE
  BY <1>1
<1>2. T \subseteq Nat
  OBVIOUS
<1> HIDE DEF T
<1>3. PICK m \in T : \A y \in T : m <= y
  BY <1>1, <1>2, LeastNatural
<1>4. m \in Nat /\ ~ \E g : Solves(g, m)
  BY <1>3 DEF T
<1>5. CASE m = 0
  <2> DEFINE g == [i \in 0 .. 0 |-> 0]
  <2>1. Solves(g, 0)
    OBVIOUS
  <2>2. QED
    BY <1>4, <1>5, <2>1
<1>6. CASE m # 0
  <2>1. m - 1 \in Nat /\ m - 1 \notin T
    BY <1>3, <1>4, <1>6
  <2>2. PICK g : Solves(g, m - 1)
    BY <2>1 DEF T
  <2> DEFINE h == [i \in 0 .. m |-> IF i = m THEN g[m - 1] + s[m] ELSE g[i]]
             r == [i \in 0 .. m |-> IF i = 0 THEN 0 ELSE h[i - 1] + s[i]]
  <2>3. \A i \in 0 .. m - 1 : g[i] = IF i = 0 THEN 0 ELSE g[i - 1] + s[i]
    BY <2>2
  <2>4. ASSUME NEW i \in 0 .. m PROVE h[i] = r[i]
    <3>1. CASE i = m
      <4>1. i - 1 \in 0 .. m /\ i - 1 # m /\ i # 0
        BY <1>4, <1>6, <3>1
      <4>2. h[i] = g[m - 1] + s[m] /\ h[i - 1] = g[m - 1]
        BY <3>1, <4>1
      <4>3. QED
        BY <3>1, <4>1, <4>2
    <3>2. CASE i # m
      <4>1. i \in 0 .. m - 1 /\ h[i] = g[i]
        BY <1>4, <3>2
      <4>2. i # 0 => i - 1 \in 0 .. m /\ i - 1 # m
        BY <1>4, <4>1
      <4>3. i # 0 => h[i - 1] = g[i - 1]
        BY <4>2
      <4>4. QED
        BY <2>3, <4>1, <4>3
    <3>3. QED
      BY <3>1, <3>2
  <2>5. h = r
    <3>1. h = [i \in 0 .. m |-> h[i]] /\ r = [i \in 0 .. m |-> r[i]]
      OBVIOUS
    <3> HIDE DEF h, r
    <3>2. QED
      BY <2>4, <3>1
  <2>6. Solves(h, m)
    BY <2>5
  <2>7. QED
    BY <1>4, <2>6
<1>7. QED
  BY <1>5, <1>6

(* The sum of n bytes is at most 255 n and at least the first of them. *)
LEMMA SumBounds ==
  ASSUME NEW s \in Seq(Byte)
  PROVE  /\ ByteSum(s) \in Nat /\ ByteSum(s) <= 255 * Len(s)
         /\ Len(s) > 0 => ByteSum(s) >= s[1]
<1> DEFINE n == Len(s)
           Solves(g) == g = [i \in 0 .. n |-> IF i = 0 THEN 0 ELSE g[i - 1] + s[i]]
           u == CHOOSE g : Solves(g)
<1>1. n \in Nat /\ \A i \in 1 .. n : s[i] \in 0 .. 255
  BY LenProperties, ElementOfSeq DEF Byte
<1>2. \E g : Solves(g)
  BY <1>1, SumExists
<1>3. Solves(u)
  <2> HIDE DEF Solves
  <2>1. QED
    BY <1>2, Zenon
<1>4. ByteSum(s) = u[n]
  BY Zenon DEF ByteSum
<1> HIDE DEF u, n
<1>5. \A i \in 0 .. n : u[i] = IF i = 0 THEN 0 ELSE u[i - 1] + s[i]
  BY <1>3
<1> DEFINE Good(i) == u[i] \in Nat /\ u[i] <= 255 * i /\ (i > 0 => u[i] >= s[1])
           T == {m \in 0 .. n : ~Good(m)}
<1>6. T = {}
  <2> SUFFICES ASSUME T # {} PROVE FALSE
    OBVIOUS
  <2>1. T \subseteq Nat
    OBVIOUS
  <2> HIDE DEF T
  <2>2. PICK m \in T : \A y \in T : m <= y
    BY <2>1, LeastNatural
  <2>3. m \in 0 .. n /\ ~Good(m)
    BY <2>2 DEF T
  <2>4. m # 0
    BY <1>5, <2>3
  <2>5. m - 1 \in 0 .. n /\ m - 1 < m /\ m \in 1 .. n
    BY <1>1, <2>3, <2>4
  <2>6. Good(m - 1)
    BY <2>2, <2>3, <2>5 DEF T
  <2>7. u[m] = u[m - 1] + s[m] /\ s[m] \in 0 .. 255
    BY <1>1, <1>5, <2>3, <2>4, <2>5
  <2>8. u[m] \in Nat /\ u[m] <= 255 * m
    <3>1. ASSUME NEW x \in Nat, NEW y \in 0 .. 255, x <= 255 * (m - 1)
          PROVE  x + y \in Nat /\ x + y <= 255 * m
      BY <2>5, <3>1
    <3>2. u[m - 1] \in Nat /\ u[m - 1] <= 255 * (m - 1)
      BY <2>6
    <3> HIDE DEF Good
    <3>3. QED
      BY <2>7, <3>1, <3>2
  <2>9. u[m] >= s[1]
    <3> HIDE DEF Good
    <3>0. ASSUME NEW x \in Nat, NEW y \in 0 .. 255, NEW z \in 0 .. 255, x >= z \/ y = z
          PROVE  x + y >= z
      BY <3>0
    <3>1. CASE m = 1
      <4>1. u[0] = 0 /\ u[1] = u[0] + s[1] /\ s[1] \in 0 .. 255
        BY <1>1, <1>5, <2>5, <2>7, <3>1
      <4>2. u[0] + s[1] >= s[1]
        BY <3>0, <4>1
      <4>3. QED
        BY <3>1, <4>1, <4>2
    <3>2. CASE m # 1
      <4>1. u[m - 1] \in Nat /\ u[m - 1] >= s[1] /\ s[1] \in 0 .. 255
        BY <1>1, <2>5, <2>6, <3>2 DEF Good
      <4>2. QED
        BY <2>7, <3>0, <4>1
    <3>3. QED
      BY <3>1, <3>2
  <2>10. QED
    BY <2>3, <2>8, <2>9
<1>7. Good(n)
  BY <1>1, <1>6
<1>8. QED
  BY <1>4, <1>7 DEF n

(* The same for the recursion of FlattenSeq, which begins with 1. *)
LEMMA FlattenExists ==
  ASSUME NEW ss, NEW n \in Nat
  PROVE  \E g : g = [i \in 1 .. n |-> IF i = 1 THEN ss[i] ELSE g[i - 1] \o ss[i]]
<1> DEFINE Solves(g, m) == g = [i \in 1 .. m |-> IF i = 1 THEN ss[i] ELSE g[i - 1] \o ss[i]]
           T == {m \in Nat : ~ \E g : Solves(g, m)}
<1>1. SUFFICES ASSUME T # {} PROVE FALSE
  BY <1>1
<1>2. T \subseteq Nat
  OBVIOUS
<1> HIDE DEF T
<1>3. PICK m \in T : \A y \in T : m <= y
  BY <1>1, <1>2, LeastNatural
<1>4. m \in Nat /\ ~ \E g : Solves(g, m)
  BY <1>3 DEF T
<1>5. CASE m = 0
  <2> DEFINE g == [i \in 1 .. 0 |-> ss[i]]
  <2>1. Solves(g, 0)
    OBVIOUS
  <2>2. QED
    BY <1>4, <1>5, <2>1
<1>6. CASE m # 0
  <2>1. m - 1 \in Nat /\ m - 1 \notin T
    BY <1>3, <1>4, <1>6
  <2>2. PICK g : Solves(g, m - 1)
    BY <2>1 DEF T
  <2> DEFINE last1 == IF m = 1 THEN ss[m] ELSE g[m - 1] \o ss[m]
             h == [i \in 1 .. m |-> IF i = m THEN last1 ELSE g[i]]
             r == [i \in 1 .. m |-> IF i = 1 THEN ss[i] ELSE h[i - 1] \o ss[i]]
  <2>3. \A i \in 1 .. m - 1 : g[i] = IF i = 1 THEN ss[i] ELSE g[i - 1] \o ss[i]
    BY <2>2
  <2>4. ASSUME NEW i \in 1 .. m PROVE h[i] = r[i]
    <3>1. CASE i = m
      <4>1. i # 1 => i - 1 \in 1 .. m /\ i - 1 # m
        BY <1>4, <3>1
      <4>2. h[i] = last1 /\ (i # 1 => h[i - 1] = g[m - 1])
        BY <3>1, <4>1
      <4>3. QED
        BY <3>1, <4>1, <4>2
    <3>2. CASE i # m
      <4>1. i \in 1 .. m - 1 /\ h[i] = g[i]
        BY <1>4, <3>2
      <4>2. i # 1 => i - 1 \in 1 .. m /\ i - 1 # m
        BY <1>4, <4>1
      <4>3. i # 1 => h[i - 1] = g[i - 1]
        BY <4>2
      <4>4. QED
        BY <2>3, <4>1, <4>3
    <3>3. QED
      BY <3>1, <3>2
  <2>5. h = r
    <3>1. h = [i \in 1 .. m |-> h[i]] /\ r = [i \in 1 .. m |-> r[i]]
      OBVIOUS
    <3> HIDE DEF h, r
    <3>2. QED
      BY <2>4, <3>1
  <2>6. Solves(h, m)
    BY <2>5
  <2>7. QED
    BY <1>4, <2>6
<1>7. QED
  BY <1>5, <1>6

LEMMA FlattenTyped ==
  ASSUME NEW S, NEW n \in Nat, NEW ss \in [1 .. n -> Seq(S)]
  PROVE  FlattenSeq(ss) \in Seq(S) /\ (n = 0 => Len(FlattenSeq(ss)) = 0)
<1>1. Len(ss) = n
  OBVIOUS
<1>2. CASE n = 0
  <2>1. FlattenSeq(ss) = ss
    BY <1>1, <1>2 DEF FlattenSeq
  <2>2. ss \in [1 .. n -> S]
    BY <1>2
  <2>3. ss \in Seq(S)
    BY <2>2, SeqDef
  <2>4. QED
    BY <1>1, <1>2, <2>1, <2>3
<1>3. CASE n # 0
  <2> DEFINE Solves(g) == g = [i \in 1 .. n |-> IF i = 1 THEN ss[i] ELSE g[i - 1] \o ss[i]]
             u == CHOOSE g : Solves(g)
  <2>1. \E g : Solves(g)
    BY FlattenExists
  <2>2. Solves(u)
    <3> HIDE DEF Solves
    <3>1. QED
      BY <2>1, Zenon
  <2>3. FlattenSeq(ss) = u[n]
    BY <1>1, <1>3, Zenon DEF FlattenSeq
  <2> HIDE DEF u
  <2>4. \A i \in 1 .. n : u[i] = IF i = 1 THEN ss[i] ELSE u[i - 1] \o ss[i]
    BY <2>2
  <2> DEFINE T == {m \in 1 .. n : u[m] \notin Seq(S)}
  <2>5. T = {}
    <3> SUFFICES ASSUME T # {} PROVE FALSE
      OBVIOUS
    <3>1. T \subseteq Nat
      OBVIOUS
    <3> HIDE DEF T
    <3>2. PICK m \in T : \A y \in T : m <= y
      BY <3>1, LeastNatural
    <3>3. m \in 1 .. n /\ u[m] \notin Seq(S)
      BY <3>2 DEF T
    <3>4. m # 1
      BY <2>4, <3>3
    <3>5. m - 1 \in 1 .. n /\ m - 1 < m
      BY <3>3, <3>4
    <3>6. u[m - 1] \in Seq(S) /\ ss[m] \in Seq(S)
      BY <3>2, <3>3, <3>5 DEF T
    <3>7. u[m - 1] \o ss[m] \in Seq(S)
      BY <3>6, ConcatProperties
    <3>8. QED
      BY <2>4, <3>3, <3>4, <3>7
  <2>6. n \in 1 .. n
    BY <1>3
  <2>7. QED
    BY <1>3, <2>3, <2>5, <2>6
<1>4. QED
  BY <1>2, <1>3

-----------------------------------------------------------------------------
(* What store_nvram writes and machine_nvram_read accepts *)

(* Arithmetic of the checksum and of the length. *)
LEMMA ModWord ==
  ASSUME NEW x \in Int
  PROVE  x % 65536 \in Nat /\ x % 65536 < 65536
OBVIOUS

LEMMA WordBytes ==
  ASSUME NEW x \in Nat, x < 65536
  PROVE  x \div 256 \in Byte /\ x % 256 \in Byte /\ x % 65536 = x
BY DEF Byte

LEMMA TotalBounds ==
  ASSUME NEW t, NEW x \in Byte, NEW y \in Byte, t = 6 + 256 * x + y + 1, t <= 114
  PROVE  t \in Nat /\ 7 <= t /\ t <= 114
BY DEF Byte

LEMMA SumBelowWord ==
  ASSUME NEW t \in Nat, 7 <= t, t <= 114, NEW x \in Nat, x <= 255 * (t - 1), x >= 190
  PROVE  x < 65536 /\ x # 0
OBVIOUS

LEMMA PayloadTyped ==
  ASSUME NEW img \in Seq(Entry)
  PROVE  Payload(img) \in Seq(Byte) /\ (img = << >> => Len(Payload(img)) = 0)
<1> DEFINE n == Len(img)
           ss == [i \in DOMAIN img |-> EntryBytes(img[i])]
<1>1. n \in Nat /\ DOMAIN img = 1 .. n /\ \A i \in 1 .. n : img[i] \in Entry
  BY LenProperties, ElementOfSeq
<1>2. ASSUME NEW e \in Entry PROVE EntryBytes(e) \in Seq(Byte)
  <2>1. e.param \in Seq(Byte \ {0}) /\ e.val \in Seq(Byte \ {0})
    BY StringsAssumption DEF Entry
  <2>2. e.param \in Seq(Byte) /\ e.val \in Seq(Byte)
    BY <2>1, SeqMonotonic
  <2>3. <<0>> \in Seq(Byte)
    BY DEF Byte
  <2> DEFINE p == e.param
             v == e.val
             z == <<0>>
  <2>4. p \in Seq(Byte) /\ v \in Seq(Byte) /\ z \in Seq(Byte)
    BY <2>2, <2>3
  <2>5. EntryBytes(e) = p \o z \o v \o z
    BY DEF EntryBytes
  <2> HIDE DEF p, v, z
  <2>6. p \o z \o v \o z \in Seq(Byte)
    BY <2>4, ConcatProperties
  <2>7. QED
    BY <2>5, <2>6
<1>3. ss \in [1 .. n -> Seq(Byte)]
  BY <1>1, <1>2
<1>4. Payload(img) = FlattenSeq(ss)
  BY DEF Payload
<1>5. img = << >> => n = 0
  OBVIOUS
<1> HIDE DEF ss, n
<1>6. FlattenSeq(ss) \in Seq(Byte) /\ (n = 0 => Len(FlattenSeq(ss)) = 0)
  BY <1>1, <1>3, FlattenTyped
<1>7. QED
  BY <1>4, <1>5, <1>6

LEMMA HeaderTyped ==
  ASSUME NEW S, 190 \in S, 239 \in S, NEW a, a \div 256 \in S, a % 256 \in S,
         NEW b \in S, NEW c \in S
  PROVE  Header(a, b, c) \in Seq(S) /\ Len(Header(a, b, c)) = 6
BY DEF Header

(* The length of what machine_nvram_write is given: header, payload, NUL. *)
LEMMA StoredLen ==
  ASSUME NEW img \in Seq(Entry)
  PROVE  Len(Payload(img)) \in Nat /\ Len(StoredBytes(img)) = Len(Payload(img)) + 7
<1> DEFINE body == Payload(img)
           len == Len(body)
           sum == ByteSum(Header(len, 0, 0)) + ByteSum(body)
           neg == (65536 - sum) % 65536
           b == neg \div 256
           c == neg % 256
           S == Byte \union {len \div 256, len % 256, b, c}
           h == Header(len, b, c)
           z == <<0>>
<1>1. 190 \in S /\ 239 \in S /\ 0 \in S /\ len \div 256 \in S /\ len % 256 \in S
      /\ b \in S /\ c \in S /\ Byte \subseteq S
  BY DEF Byte
<1>2. StoredBytes(img) = h \o body \o z
  BY DEF StoredBytes
<1>3. body \in Seq(Byte) /\ len \in Nat
  BY PayloadTyped, LenProperties
<1> HIDE DEF S, b, c, len, body
<1>4. body \in Seq(S)
  BY <1>1, <1>3, SeqMonotonic
<1>5. h \in Seq(S) /\ Len(h) = 6
  BY <1>1, HeaderTyped
<1>6. z \in Seq(S) /\ Len(z) = 1
  BY <1>1
<1> HIDE DEF h, z
<1>7. h \o body \in Seq(S) /\ Len(h \o body) = Len(h) + Len(body)
  BY <1>4, <1>5, ConcatProperties, Zenon
<1>8. Len((h \o body) \o z) = Len(h \o body) + Len(z)
  BY <1>6, <1>7, ConcatProperties, Zenon
<1>9. QED
  BY <1>2, <1>3, <1>5, <1>6, <1>7, <1>8 DEF len, body

(* What machine_nvram_write is given is a sequence of bytes, and never an  *)
(* empty one: header, payload and NUL.                                     *)
LEMMA StoredTyped ==
  ASSUME NEW img \in Seq(Entry), Len(StoredBytes(img)) <= CmosSize
  PROVE  StoredBytes(img) \in Seq(Byte) /\ Len(StoredBytes(img)) >= 7
<1> DEFINE body == Payload(img)
           len == Len(body)
           sum == ByteSum(Header(len, 0, 0)) + ByteSum(body)
           neg == (65536 - sum) % 65536
           hd == Header(len, neg \div 256, neg % 256)
           all == hd \o body \o <<0>>
<1>1. body \in Seq(Byte) /\ len \in Nat
  BY PayloadTyped, LenProperties
<1>2. StoredBytes(img) = all
  BY DEF StoredBytes
<1>4. Len(all) = len + 7 /\ len + 7 <= CmosSize
  BY <1>2, StoredLen
<1>5. len \div 256 \in Byte /\ len % 256 \in Byte
  <2> HIDE DEF len
  <2>1. QED
    BY <1>1, <1>4, SizeAssumption, WordBytes
<1>6. 0 \in Byte /\ 190 \in Byte /\ 239 \in Byte
  BY DEF Byte
<1>7. sum \in Nat
  <2>1. Header(len, 0, 0) \in Seq(Byte)
    <3> HIDE DEF len
    <3>1. QED
      BY <1>5, <1>6, HeaderTyped
  <2>2. ByteSum(Header(len, 0, 0)) \in Nat
    BY <2>1, SumBounds
  <2>3. ByteSum(body) \in Nat
    BY <1>1, SumBounds
  <2>4. QED
    BY <2>2, <2>3
<1>8. neg \in Nat /\ neg < 65536
  <2> HIDE DEF sum
  <2>1. 65536 - sum \in Int
    BY <1>7
  <2>2. QED
    BY <2>1, ModWord
<1>9. neg \div 256 \in Byte /\ neg % 256 \in Byte
  <2> HIDE DEF neg
  <2>1. QED
    BY <1>8, WordBytes
<1>10. hd \in Seq(Byte) /\ Len(hd) = 6
  <2> DEFINE b == neg \div 256
             c == neg % 256
  <2>1. b \in Byte /\ c \in Byte /\ hd = Header(len, b, c)
    BY <1>9
  <2> HIDE DEF b, c, hd, len
  <2>2. Header(len, b, c) \in Seq(Byte) /\ Len(Header(len, b, c)) = 6
    BY <1>5, <1>6, <2>1, HeaderTyped
  <2>3. QED
    BY <2>1, <2>2
<1>11. all \in Seq(Byte)
  <2> DEFINE z == <<0>>
  <2>1. z \in Seq(Byte)
    BY <1>6
  <2> HIDE DEF hd, body, z
  <2>2. hd \o body \in Seq(Byte)
    BY <1>1, <1>10, ConcatProperties, Zenon
  <2>3. (hd \o body) \o z \in Seq(Byte)
    BY <2>1, <2>2, ConcatProperties, Zenon
  <2>4. QED
    BY <2>3 DEF z
<1>12. QED
  <2> HIDE DEF all, len
  <2>1. QED
    BY <1>1, <1>2, <1>4, <1>11

(* machine_nvram_read accepts nothing: the bytes before the NUL add up to  *)
(* at least the 190 of the magic number and to at most 113 * 255, never to *)
(* a multiple of 65536.                                                    *)
LEMMA AcceptsNothing ==
  ASSUME cmos \in [0 .. CmosSize - 1 -> Byte]
  PROVE  ~ReadAccepts
<1> SUFFICES ASSUME ReadAccepts PROVE FALSE
  OBVIOUS
<1> DEFINE t == ReadTotal
           b == SubSeq(ReadBytes, 1, t - 1)
<1>1. CmosSize \in 9 .. 114
  BY SizeAssumption
<1>2. cmos[0] = 190 /\ t <= CmosSize /\ ByteSum(b) % 65536 = 0
  BY DEF ReadAccepts
<1>3. cmos[2] \in Byte /\ cmos[3] \in Byte
  BY <1>1
<1>4. t \in Nat /\ 7 <= t /\ t <= 114
  <2>1. t = 6 + 256 * cmos[2] + cmos[3] + 1
    BY DEF ReadTotal
  <2>2. t \in Int
    BY <1>3, <2>1 DEF Byte
  <2> HIDE DEF t
  <2>3. t <= 114
    BY <1>1, <1>2, <2>2
  <2>4. QED
    BY <1>3, <2>1, <2>3, TotalBounds
<1>5. \A i \in 1 .. t - 1 : ReadBytes[i] = cmos[i - 1] /\ ReadBytes[i] \in Byte
  <2> HIDE DEF t
  <2>1. ReadBytes = [i \in 1 .. t |-> cmos[i - 1]]
    BY DEF ReadBytes, t
  <2>2. QED
    BY <1>1, <1>2, <1>4, <2>1
<1> HIDE DEF t
<1>6. b \in Seq(Byte) /\ Len(b) = t - 1 /\ b[1] = 190
  <2> DEFINE r == ReadBytes
             n == t - 1
  <2>1. n \in Int /\ n >= 6 /\ \A i \in 1 .. n : r[i] \in Byte
    BY <1>4, <1>5
  <2>2. r[1] = 190
    BY <1>2, <1>4, <1>5
  <2> HIDE DEF r, n
  <2>3. /\ SubSeq(r, 1, n) \in Seq(Byte)
        /\ Len(SubSeq(r, 1, n)) = IF 1 <= n THEN n - 1 + 1 ELSE 0
        /\ \A i \in 1 .. n - 1 + 1 : SubSeq(r, 1, n)[i] = r[1 + i - 1]
    BY <2>1, SubSeqProperties
  <2>4. SubSeq(r, 1, n)[1] = r[1]
    BY <2>1, <2>3
  <2>5. QED
    BY <2>1, <2>2, <2>3, <2>4 DEF r, n
<1> HIDE DEF b
<1>7. ByteSum(b) \in Nat /\ ByteSum(b) <= 255 * Len(b) /\ (Len(b) > 0 => ByteSum(b) >= b[1])
  BY <1>6, SumBounds
<1>8. ByteSum(b) >= 190 /\ ByteSum(b) <= 255 * (t - 1)
  BY <1>4, <1>6, <1>7
<1>9. ByteSum(b) < 65536 /\ ByteSum(b) # 0
  BY <1>4, <1>7, <1>8, SumBelowWord
<1>10. QED
  BY <1>2, <1>7, <1>9, WordBytes

-----------------------------------------------------------------------------
(* The image as a map from names to values *)

(* No name twice, and no entry that only repeats the default. *)
UniqueParams(img) == \A i, j \in DOMAIN img : i # j => img[i].param # img[j].param
NoDefaults(img) == \A i \in DOMAIN img : img[i].val # Default[img[i].param]

LEMMA LookupHit ==
  ASSUME NEW img \in Seq(Entry), UniqueParams(img), NEW k \in DOMAIN img
  PROVE  Lookup(img, img[k].param) = img[k].val
<1> DEFINE p == img[k].param
           hits == {i \in DOMAIN img : img[i].param = p}
<1>1. hits = {k}
  BY DEF UniqueParams
<1>2. k \in Nat
  BY LenProperties
<1>3. First({k}) = k
  BY <1>2 DEF First
<1>4. Lookup(img, p) = IF hits = {} THEN Default[p] ELSE img[First(hits)].val
  BY DEF Lookup
<1>5. QED
  BY <1>1, <1>3, <1>4

LEMMA LookupMiss ==
  ASSUME NEW img, NEW p, \A i \in DOMAIN img : img[i].param # p
  PROVE  Lookup(img, p) = Default[p]
BY DEF Lookup

(* RemoveAt drops the one element and keeps the others in order. *)
LEMMA RemoveAtProperties ==
  ASSUME NEW S, NEW s \in Seq(S), NEW k \in 1 .. Len(s)
  PROVE  /\ RemoveAt(s, k) \in Seq(S)
         /\ Len(RemoveAt(s, k)) = Len(s) - 1
         /\ \A i \in 1 .. Len(s) - 1 :
              RemoveAt(s, k)[i] = IF i < k THEN s[i] ELSE s[i + 1]
<1> DEFINE n == Len(s)
           a == SubSeq(s, 1, k - 1)
           b == SubSeq(s, k + 1, n)
<1>1. n \in Nat /\ \A i \in 1 .. n : s[i] \in S
  BY LenProperties, ElementOfSeq
<1> HIDE DEF n
<1>2. k \in 1 .. n /\ k \in Nat
  BY DEF n
<1>3. /\ a \in Seq(S) /\ Len(a) = k - 1
      /\ \A i \in 1 .. k - 1 : a[i] = s[i]
  <2>1. \A i \in 1 .. k - 1 : s[i] \in S
    BY <1>1, <1>2
  <2> DEFINE m == k - 1
  <2>2. m \in Nat /\ \A i \in 1 .. m : s[i] \in S
    BY <1>2, <2>1
  <2> HIDE DEF m
  <2>3. /\ SubSeq(s, 1, m) \in Seq(S)
        /\ Len(SubSeq(s, 1, m)) = IF 1 <= m THEN m - 1 + 1 ELSE 0
        /\ \A i \in 1 .. m - 1 + 1 : SubSeq(s, 1, m)[i] = s[1 + i - 1]
    BY <2>2, SubSeqProperties
  <2>4. Len(SubSeq(s, 1, m)) = m /\ \A i \in 1 .. m : SubSeq(s, 1, m)[i] = s[i]
    BY <2>2, <2>3
  <2>5. QED
    BY <2>3, <2>4 DEF m
<1>4. /\ b \in Seq(S) /\ Len(b) = n - k
      /\ \A i \in 1 .. n - k : b[i] = s[k + i]
  <2> DEFINE m == k + 1
  <2>2. m \in Nat /\ m = k + 1 /\ \A i \in m .. n : s[i] \in S
    BY <1>1, <1>2
  <2> HIDE DEF m
  <2>3. /\ SubSeq(s, m, n) \in Seq(S)
        /\ Len(SubSeq(s, m, n)) = IF m <= n THEN n - m + 1 ELSE 0
        /\ \A i \in 1 .. n - m + 1 : SubSeq(s, m, n)[i] = s[m + i - 1]
    BY <1>1, <2>2, SubSeqProperties
  <2>4. Len(SubSeq(s, m, n)) = n - k
    BY <1>1, <1>2, <2>2, <2>3
  <2>5. ASSUME NEW i \in 1 .. n - k PROVE SubSeq(s, m, n)[i] = s[k + i]
    <3>1. i \in 1 .. n - m + 1 /\ m + i - 1 = k + i
      BY <1>1, <1>2, <2>2
    <3>2. QED
      BY <2>3, <3>1
  <2>6. QED
    BY <2>3, <2>4, <2>5 DEF m
<1>5. RemoveAt(s, k) = a \o b
  BY DEF RemoveAt, n
<1> HIDE DEF a, b
<1>6. /\ a \o b \in Seq(S)
      /\ Len(a \o b) = Len(a) + Len(b)
      /\ \A i \in 1 .. Len(a) + Len(b) : (a \o b)[i] =
                   IF i <= Len(a) THEN a[i] ELSE b[i - Len(a)]
  BY <1>3, <1>4, ConcatProperties, Zenon
<1>7. Len(a) + Len(b) = n - 1
  BY <1>1, <1>2, <1>3, <1>4
<1>8. ASSUME NEW i \in 1 .. n - 1
      PROVE  (a \o b)[i] = IF i < k THEN s[i] ELSE s[i + 1]
  <2>1. i \in 1 .. Len(a) + Len(b)
    BY <1>7
  <2>2. (a \o b)[i] = IF i <= Len(a) THEN a[i] ELSE b[i - Len(a)]
    BY <1>6, <2>1
  <2>3. CASE i < k
    <3>1. i <= Len(a) /\ i \in 1 .. k - 1
      BY <1>2, <1>3, <2>3
    <3>2. QED
      BY <1>3, <2>2, <2>3, <3>1
  <2>4. CASE ~(i < k)
    <3>1. ~(i <= Len(a)) /\ i - Len(a) = i - k + 1 /\ i - k + 1 \in 1 .. n - k
      BY <1>1, <1>2, <1>3, <2>4
    <3>2. b[i - Len(a)] = s[k + (i - k + 1)]
      BY <1>4, <3>1
    <3>3. k + (i - k + 1) = i + 1
      BY <1>2
    <3>4. QED
      BY <2>2, <2>4, <3>1, <3>2, <3>3
  <2>5. QED
    BY <2>3, <2>4
<1>9. QED
  BY <1>5, <1>6, <1>7, <1>8 DEF n

(* What set_nvram keeps of the old image: everything but the name it sets. *)
Rest(p) ==
  LET hits == {i \in DOMAIN image : image[i].param = p}
  IN IF hits = {} THEN image ELSE RemoveAt(image, First(hits))

LEMMA RestProperties ==
  ASSUME image \in Seq(Entry), UniqueParams(image), NoDefaults(image), NEW p \in Params
  PROVE  /\ Rest(p) \in Seq(Entry) /\ UniqueParams(Rest(p)) /\ NoDefaults(Rest(p))
         /\ \A i \in DOMAIN Rest(p) : Rest(p)[i].param # p
         /\ \A q \in Params : q # p => Lookup(Rest(p), q) = Lookup(image, q)
<1> DEFINE hits == {i \in DOMAIN image : image[i].param = p}
           n == Len(image)
<1>1. n \in Nat /\ DOMAIN image = 1 .. n
  BY LenProperties
<1>2. CASE hits = {}
  <2>1. Rest(p) = image
    BY <1>2 DEF Rest
  <2>2. \A i \in DOMAIN image : image[i].param # p
    BY <1>2
  <2>3. QED
    BY <2>1, <2>2
<1>3. CASE hits # {}
  <2>1. PICK k \in DOMAIN image : image[k].param = p
    BY <1>3
  <2>2. hits = {k} /\ k \in 1 .. n /\ k \in Nat
    BY <1>1, <2>1 DEF UniqueParams
  <2>3. First({k}) = k
    BY <2>2 DEF First
  <2> DEFINE r == RemoveAt(image, k)
  <2>4. Rest(p) = r
    BY <1>3, <2>2, <2>3 DEF Rest
  <2>5. /\ r \in Seq(Entry) /\ Len(r) = n - 1
        /\ \A i \in 1 .. n - 1 : r[i] = IF i < k THEN image[i] ELSE image[i + 1]
    BY <2>2, RemoveAtProperties
  <2> HIDE DEF r, hits, n
  <2>6. DOMAIN r = 1 .. n - 1
    BY <2>5, LenProperties
  <2> DEFINE Old(i) == IF i < k THEN i ELSE i + 1
  <2>7. \A i \in 1 .. n - 1 : Old(i) \in 1 .. n /\ Old(i) # k /\ r[i] = image[Old(i)]
    BY <1>1, <2>2, <2>5
  <2>8. \A i, j \in 1 .. n - 1 : i # j => Old(i) # Old(j)
    BY <1>1, <2>2
  <2>9. \A j \in 1 .. n : j # k => \E i \in 1 .. n - 1 : Old(i) = j
    <3> SUFFICES ASSUME NEW j \in 1 .. n, j # k PROVE \E i \in 1 .. n - 1 : Old(i) = j
      OBVIOUS
    <3>1. CASE j < k
      <4>1. j \in 1 .. n - 1 /\ Old(j) = j
        BY <1>1, <2>2, <3>1
      <4>2. QED
        BY <4>1
    <3>2. CASE ~(j < k)
      <4>1. j - 1 \in 1 .. n - 1 /\ ~(j - 1 < k) /\ (j - 1) + 1 = j
        BY <1>1, <2>2, <3>2
      <4>2. Old(j - 1) = j
        BY <4>1
      <4>3. QED
        BY <4>1, <4>2
    <3>3. QED
      BY <3>1, <3>2
  <2> HIDE DEF Old
  <2>10. UniqueParams(r)
    BY <1>1, <2>6, <2>7, <2>8 DEF UniqueParams
  <2>11. NoDefaults(r)
    BY <1>1, <2>6, <2>7 DEF NoDefaults
  <2>12. \A i \in DOMAIN r : r[i].param # p
    BY <1>1, <2>1, <2>2, <2>6, <2>7 DEF UniqueParams
  <2>13. ASSUME NEW q \in Params, q # p PROVE Lookup(r, q) = Lookup(image, q)
    <3>1. CASE \E j \in DOMAIN image : image[j].param = q
      <4>1. PICK j \in DOMAIN image : image[j].param = q
        BY <3>1
      <4>2. j \in 1 .. n /\ j # k
        BY <1>1, <2>1, <2>13, <4>1
      <4>3. PICK i \in 1 .. n - 1 : Old(i) = j
        BY <2>9, <4>2
      <4>4. i \in DOMAIN r /\ r[i] = image[j]
        BY <2>6, <2>7, <4>3
      <4>5. Lookup(image, image[j].param) = image[j].val
        BY <4>1, LookupHit
      <4>6. Lookup(r, r[i].param) = r[i].val
        BY <2>5, <2>10, <4>4, LookupHit
      <4>7. QED
        BY <4>1, <4>4, <4>5, <4>6
    <3>2. CASE ~ \E j \in DOMAIN image : image[j].param = q
      <4>1. \A i \in DOMAIN r : r[i].param # q
        BY <1>1, <2>6, <2>7, <3>2
      <4>2. Lookup(r, q) = Default[q]
        BY <4>1, LookupMiss
      <4>3. Lookup(image, q) = Default[q]
        BY <3>2, LookupMiss
      <4>4. QED
        BY <4>2, <4>3
    <3>3. QED
      BY <3>1, <3>2
  <2>14. QED
    BY <2>4, <2>5, <2>10, <2>11, <2>12, <2>13
<1>4. QED
  BY <1>2, <1>3

(* set_nvram: the new image gives p its new value and every other name the *)
(* value it had, and is again without repetition and without defaults.     *)
LEMMA WithEntryProperties ==
  ASSUME image \in Seq(Entry), UniqueParams(image), NoDefaults(image),
         NEW p \in Params, NEW v \in Vals
  PROVE  /\ WithEntry(p, v) \in Seq(Entry)
         /\ UniqueParams(WithEntry(p, v)) /\ NoDefaults(WithEntry(p, v))
         /\ Lookup(WithEntry(p, v), p) = v
         /\ \A q \in Params : q # p => Lookup(WithEntry(p, v), q) = Lookup(image, q)
<1> DEFINE r == Rest(p)
           n == Len(r)
           e == [param |-> p, val |-> v]
           w == Append(r, e)
<1>1. /\ r \in Seq(Entry) /\ UniqueParams(r) /\ NoDefaults(r)
      /\ \A i \in DOMAIN r : r[i].param # p
      /\ \A q \in Params : q # p => Lookup(r, q) = Lookup(image, q)
  BY RestProperties
<1>2. WithEntry(p, v) = IF v = Default[p] THEN r ELSE w
  BY DEF WithEntry, Rest
<1>3. e \in Entry /\ e.param = p /\ e.val = v
  BY DEF Entry
<1> HIDE DEF r, e
<1>4. n \in Nat /\ DOMAIN r = 1 .. n
  BY <1>1, LenProperties
<1>5. CASE v = Default[p]
  <2>1. Lookup(r, p) = Default[p]
    BY <1>1, LookupMiss
  <2>2. QED
    BY <1>1, <1>2, <1>5, <2>1
<1>6. CASE v # Default[p]
  <2>1. /\ w \in Seq(Entry) /\ Len(w) = n + 1
        /\ \A i \in 1 .. n : w[i] = r[i]
        /\ w[n + 1] = e
    BY <1>1, <1>3, AppendProperties
  <2> HIDE DEF w, n
  <2>2. DOMAIN w = 1 .. n + 1
    BY <2>1, LenProperties
  <2>3. \A i \in DOMAIN w : \/ i \in DOMAIN r /\ w[i] = r[i]
                            \/ i = n + 1 /\ w[i] = e
    BY <1>4, <2>1, <2>2
  <2>4. UniqueParams(w)
    <3> SUFFICES ASSUME NEW i \in DOMAIN w, NEW j \in DOMAIN w, i # j
                 PROVE  w[i].param # w[j].param
      BY DEF UniqueParams
    <3>1. CASE i = n + 1
      <4>1. w[i].param = p
        BY <1>3, <2>1, <3>1
      <4>2. j \in DOMAIN r /\ w[j] = r[j]
        BY <2>3, <3>1
      <4>3. QED
        BY <1>1, <4>1, <4>2
    <3>2. CASE j = n + 1
      <4>1. w[j].param = p
        BY <1>3, <2>1, <3>2
      <4>2. i \in DOMAIN r /\ w[i] = r[i]
        BY <2>3, <3>2
      <4>3. QED
        BY <1>1, <4>1, <4>2
    <3>3. CASE i # n + 1 /\ j # n + 1
      BY <1>1, <2>3, <3>3 DEF UniqueParams
    <3>4. QED
      BY <3>1, <3>2, <3>3
  <2>5. NoDefaults(w)
    BY <1>1, <1>3, <1>6, <2>3 DEF NoDefaults
  <2>6. Lookup(w, p) = v
    <3>1. n + 1 \in DOMAIN w
      BY <1>4, <2>2
    <3>2. Lookup(w, w[n + 1].param) = w[n + 1].val
      BY <2>1, <2>4, <3>1, LookupHit
    <3>3. QED
      BY <1>3, <2>1, <3>2
  <2>7. ASSUME NEW q \in Params, q # p PROVE Lookup(w, q) = Lookup(r, q)
    <3>1. CASE \E i \in DOMAIN r : r[i].param = q
      <4>1. PICK i \in DOMAIN r : r[i].param = q
        BY <3>1
      <4>2. i \in DOMAIN w /\ w[i] = r[i]
        BY <1>4, <2>1, <2>2, <4>1
      <4>3. Lookup(r, r[i].param) = r[i].val
        BY <1>1, <4>1, LookupHit
      <4>4. Lookup(w, w[i].param) = w[i].val
        BY <2>1, <2>4, <4>2, LookupHit
      <4>5. QED
        BY <4>1, <4>2, <4>3, <4>4
    <3>2. CASE ~ \E i \in DOMAIN r : r[i].param = q
      <4>1. \A i \in DOMAIN w : w[i].param # q
        BY <1>3, <2>3, <2>7, <3>2
      <4>2. Lookup(w, q) = Default[q] /\ Lookup(r, q) = Default[q]
        BY <3>2, <4>1, LookupMiss
      <4>3. QED
        BY <4>2
    <3>3. QED
      BY <3>1, <3>2
  <2>8. \A q \in Params : q # p => Lookup(w, q) = Lookup(image, q)
    BY <1>1, <2>7
  <2>9. WithEntry(p, v) = w
    BY <1>2, <1>6
  <2>10. QED
    BY <2>1, <2>4, <2>5, <2>6, <2>8, <2>9
<1>7. QED
  BY <1>5, <1>6

-----------------------------------------------------------------------------
(* The inductive invariant *)

(* The loop of machine_nvram_write has a byte left to write. *)
WriteInv == wbuf # << >> => wi < Len(wbuf)

(* A running machine has an image without repetition and without defaults  *)
(* that fits g_nvram_base, and a machine just booted has the empty one.     *)
ImageInv ==
  /\ up => UniqueParams(image) /\ NoDefaults(image) /\ ImageLen(image) < NVRAM_MAX
  /\ fresh => image = << >>

NvramInv == NvramTypeOK /\ WriteInv /\ ImageInv /\ OptionsMatchNvram

LEMMA EmptyImage ==
  /\ << >> \in Seq(Entry) /\ UniqueParams(<< >>) /\ NoDefaults(<< >>)
  /\ ImageLen(<< >>) = 0
  /\ \A p : Lookup(<< >>, p) = Default[p]
  /\ OptionsFrom(<< >>) = Default
<1>1. << >> \in Seq(Entry)
  BY EmptySeq
<1>2. DOMAIN << >> = {}
  OBVIOUS
<1>3. UniqueParams(<< >>) /\ NoDefaults(<< >>)
  BY <1>2 DEF UniqueParams, NoDefaults
<1>4. ImageLen(<< >>) = 0
  BY <1>1, PayloadTyped DEF ImageLen
<1>5. \A p : Lookup(<< >>, p) = Default[p]
  BY <1>2, LookupMiss
<1>6. OptionsFrom(<< >>) = Default
  <2>1. OptionsFrom(<< >>) = [p \in Params |-> Default[p]]
    BY <1>2 DEF OptionsFrom
  <2>2. QED
    BY <2>1, DefaultAssumption
<1>7. QED
  BY <1>1, <1>3, <1>4, <1>5, <1>6

LEMMA SizePositive ==
  ASSUME size \in {CmosSize, MiniSize}
  PROVE  size \in Nat /\ NVRAM_MAX \in Nat /\ 0 < NVRAM_MAX
BY SizeAssumption DEF NVRAM_MAX

LEMMA InitEstablishes == NvramInit => NvramInv
<1> SUFFICES ASSUME NvramInit PROVE NvramInv
  OBVIOUS
<1>1. cmos \in [0 .. CmosSize - 1 -> Byte]
  <2>1. PICK b \in {0, 255} : cmos = [i \in 0 .. CmosSize - 1 |-> b]
    BY DEF NvramInit
  <2>2. b \in Byte
    BY DEF Byte
  <2>3. QED
    BY <2>1, <2>2
<1>2. << >> \in Seq(Byte) /\ Len(<< >>) = 0
  BY EmptySeq
<1>3. 0 \in 0 .. CmosSize /\ 0 <= CmosSize /\ 0 \in 0 .. MaxCuts
  BY SizeAssumption, MaxCutsAssumption
<1>4. NvramTypeOK
  BY <1>1, <1>2, <1>3, EmptyImage, DefaultAssumption DEF NvramInit, NvramTypeOK
<1>5. WriteInv /\ ImageInv /\ OptionsMatchNvram
  BY DEF NvramInit, WriteInv, ImageInv, OptionsMatchNvram
<1>6. QED
  BY <1>4, <1>5 DEF NvramInv

(* store_nvram leaves the loop of machine_nvram_write in a good state. *)
LEMMA StoreKeeps ==
  ASSUME NvramTypeOK, WriteInv, NEW img \in Seq(Entry), Store(img)
  PROVE  /\ image' = img /\ committed' = committed
         /\ wbuf' \in Seq(Byte) /\ Len(wbuf') <= CmosSize /\ wi' \in 0 .. CmosSize
         /\ WriteInv'
<1>1. image' = img /\ committed' = committed
  BY DEF Store
<1>2. CASE Len(StoredBytes(img)) > CmosSize
  <2>1. wbuf' = wbuf /\ wi' = wi
    BY <1>2 DEF Store
  <2>2. QED
    BY <1>1, <2>1 DEF NvramTypeOK, WriteInv
<1>3. CASE ~(Len(StoredBytes(img)) > CmosSize)
  <2> DEFINE sb == StoredBytes(img)
  <2>1. wbuf' = sb /\ wi' = 0
    BY <1>3 DEF Store
  <2>2. Len(sb) <= CmosSize
    <3>1. Len(sb) \in Nat
      BY StoredLen
    <3> HIDE DEF sb
    <3>2. QED
      BY <1>3, <3>1, SizeAssumption DEF sb
  <2>3. sb \in Seq(Byte) /\ Len(sb) >= 7
    BY <2>2, StoredTyped
  <2> HIDE DEF sb
  <2>4. 0 \in 0 .. CmosSize /\ 0 < Len(sb)
    BY <2>3, SizeAssumption, LenProperties
  <2>5. QED
    BY <1>1, <2>1, <2>2, <2>3, <2>4 DEF WriteInv
<1>4. QED
  BY <1>2, <1>3

LEMMA StepKeeps == NvramInv /\ [NvramNext]_nvramVars => NvramInv'
<1> SUFFICES ASSUME NvramInv, [NvramNext]_nvramVars PROVE NvramInv'
  OBVIOUS
<1>0. NvramTypeOK /\ WriteInv /\ ImageInv /\ OptionsMatchNvram
  BY DEF NvramInv
<1>e. << >> \in Seq(Byte) /\ Len(<< >>) = 0 /\ 0 \in 0 .. CmosSize /\ 0 <= CmosSize
  BY EmptySeq, SizeAssumption
<1>1. CASE Boot
  <2>1. image' = << >>
    BY <1>0, <1>1, AcceptsNothing DEF Boot, LoadedImage, NvramTypeOK
  <2>2. /\ up' = TRUE /\ size' \in {CmosSize, MiniSize} /\ options' = Default
        /\ wbuf' = << >> /\ wi' = 0 /\ fresh' = TRUE /\ refused' = {}
        /\ UNCHANGED <<cmos, committed, torn, cuts>>
    BY <1>1, <2>1, EmptyImage DEF Boot
  <2>3. NvramTypeOK'
    BY <1>0, <1>e, <2>1, <2>2, EmptyImage, DefaultAssumption DEF NvramTypeOK
  <2>4. WriteInv'
    BY <2>2 DEF WriteInv
  <2>5. 0 < size' - 8
    <3>1. size' \in Nat /\ size' >= 9
      BY <2>2, SizeAssumption
    <3>2. ASSUME NEW n \in Nat, n >= 9 PROVE 0 < n - 8
      BY <3>2
    <3>3. QED
      BY <3>1, <3>2, Zenon
  <2>6. ImageLen(image') = 0 /\ UniqueParams(image') /\ NoDefaults(image')
    BY <2>1, EmptyImage
  <2>7. ImageInv'
    BY <2>1, <2>5, <2>6 DEF ImageInv, NVRAM_MAX
  <2>8. OptionsMatchNvram'
    BY <2>1, <2>2, EmptyImage DEF OptionsMatchNvram, get_nvram
  <2>9. QED
    BY <2>3, <2>4, <2>7, <2>8 DEF NvramInv
<1>2. CASE SetDefaults
  <2>1. /\ Store(<< >>) /\ options' = Default /\ refused' = {} /\ fresh' = FALSE
        /\ UNCHANGED <<cmos, up, size, torn, cuts>>
    BY <1>2 DEF SetDefaults
  <2>2. /\ image' = << >> /\ committed' = committed
        /\ wbuf' \in Seq(Byte) /\ Len(wbuf') <= CmosSize /\ wi' \in 0 .. CmosSize
        /\ WriteInv'
    BY <1>0, <2>1, EmptyImage, StoreKeeps
  <2>3. NvramTypeOK'
    BY <1>0, <2>1, <2>2, EmptyImage, DefaultAssumption DEF NvramTypeOK
  <2>5. 0 < NVRAM_MAX'
    BY <1>0, <2>1, SizeAssumption DEF NVRAM_MAX, NvramTypeOK
  <2>6. ImageLen(image') = 0 /\ UniqueParams(image') /\ NoDefaults(image')
    BY <2>2, EmptyImage
  <2>7. ImageInv'
    BY <2>1, <2>2, <2>5, <2>6 DEF ImageInv, NVRAM_MAX
  <2>8. OptionsMatchNvram'
    BY <2>1, <2>2, EmptyImage DEF OptionsMatchNvram, get_nvram
  <2>9. QED
    BY <2>2, <2>3, <2>7, <2>8 DEF NvramInv
<1>3. CASE WriteByte
  <2>1. /\ UNCHANGED <<up, size, image, options, fresh, refused, cuts>>
        /\ wbuf # << >> /\ cmos' = [cmos EXCEPT ![wi] = wbuf[wi + 1]]
    BY <1>3 DEF WriteByte
  <2> DEFINE n == Len(wbuf)
  <2>2. n \in Nat /\ wi \in Nat /\ wi < n /\ n <= CmosSize /\ wbuf \in Seq(Byte)
    BY <1>0, <2>1, LenProperties DEF NvramTypeOK, WriteInv
  <2>3. wi + 1 \in 1 .. n
    BY <2>2
  <2>4. wbuf[wi + 1] \in Byte
    BY <2>2, <2>3, ElementOfSeq
  <2>5. cmos' \in [0 .. CmosSize - 1 -> Byte]
    BY <1>0, <2>1, <2>4 DEF NvramTypeOK
  <2>6. /\ wbuf' \in Seq(Byte) /\ Len(wbuf') <= CmosSize /\ wi' \in 0 .. CmosSize
        /\ WriteInv' /\ committed' \in Seq(Entry) /\ torn' \in BOOLEAN
    <3>1. CASE wi + 1 = n
      <4>1. wbuf' = << >> /\ wi' = 0 /\ committed' = image /\ torn' = FALSE
        BY <1>3, <3>1 DEF WriteByte
      <4>2. QED
        BY <1>0, <1>e, <4>1 DEF NvramTypeOK, WriteInv
    <3>2. CASE wi + 1 # n
      <4>1. wbuf' = wbuf /\ wi' = wi + 1 /\ committed' = committed /\ torn' = torn
        BY <1>3, <3>2 DEF WriteByte
      <4>2. wi + 1 < n /\ wi + 1 \in 0 .. CmosSize
        BY <2>2, <3>2, SizeAssumption
      <4>3. QED
        BY <1>0, <2>2, <4>1, <4>2 DEF NvramTypeOK, WriteInv
    <3>3. QED
      BY <3>1, <3>2
  <2>7. NvramTypeOK'
    BY <1>0, <2>1, <2>5, <2>6 DEF NvramTypeOK
  <2>8. ImageInv' /\ OptionsMatchNvram'
    BY <1>0, <2>1 DEF ImageInv, OptionsMatchNvram, get_nvram, NVRAM_MAX
  <2>9. QED
    BY <2>6, <2>7, <2>8 DEF NvramInv
<1>4. CASE PowerCut
  <2>1. /\ up' = FALSE /\ size' = CmosSize /\ image' = << >> /\ options' = Default
        /\ wbuf' = << >> /\ wi' = 0 /\ fresh' = FALSE /\ refused' = {}
        /\ cmos' = cmos /\ committed' = committed /\ torn' \in BOOLEAN
    BY <1>4 DEF PowerCut
  <2>2. cuts' \in 0 .. MaxCuts
    BY <1>0, <1>4, MaxCutsAssumption DEF PowerCut, NvramTypeOK
  <2>3. NvramTypeOK'
    BY <1>0, <1>e, <2>1, <2>2, EmptyImage, DefaultAssumption DEF NvramTypeOK
  <2>4. WriteInv' /\ ImageInv' /\ OptionsMatchNvram'
    BY <2>1 DEF WriteInv, ImageInv, OptionsMatchNvram
  <2>5. QED
    BY <2>3, <2>4 DEF NvramInv
<1>5. ASSUME NEW p \in Params, NEW v \in Vals, SaveConfig(p, v) PROVE NvramInv'
  <2>1. /\ up /\ options' = [options EXCEPT ![p] = v] /\ fresh' = FALSE
        /\ UNCHANGED <<cmos, up, size, torn, cuts>>
    BY <1>5 DEF SaveConfig, Ready
  <2>2. options' \in [Params -> Vals]
    BY <1>0, <2>1 DEF NvramTypeOK
  <2>3. image \in Seq(Entry) /\ UniqueParams(image) /\ NoDefaults(image)
    BY <1>0, <2>1 DEF NvramTypeOK, ImageInv
  <2> DEFINE w == WithEntry(p, v)
  <2>4. /\ w \in Seq(Entry) /\ UniqueParams(w) /\ NoDefaults(w)
        /\ Lookup(w, p) = v
        /\ \A q \in Params : q # p => Lookup(w, q) = Lookup(image, q)
    BY <2>3, WithEntryProperties
  <2>5. \A q \in Params \ refused : options[q] = Lookup(image, q)
    BY <1>0, <2>1 DEF OptionsMatchNvram, get_nvram
  <2>6. options'[p] = v /\ \A q \in Params : q # p => options'[q] = options[q]
    BY <1>0, <2>1 DEF NvramTypeOK
  <2>7. CASE ImageLen(w) >= NVRAM_MAX
    <3>1. /\ refused' = refused \union {p}
          /\ UNCHANGED <<image, wbuf, wi, committed>>
      BY <1>5, <2>7 DEF SaveConfig
    <3>2. NvramTypeOK'
      BY <1>0, <2>1, <2>2, <3>1 DEF NvramTypeOK
    <3>3. WriteInv' /\ ImageInv'
      BY <1>0, <2>1, <3>1 DEF WriteInv, ImageInv, NVRAM_MAX
    <3>4. OptionsMatchNvram'
      <4>1. ASSUME NEW q \in Params \ refused' PROVE options'[q] = Lookup(image', q)
        BY <2>5, <2>6, <3>1
      <4>2. QED
        BY <4>1 DEF OptionsMatchNvram, get_nvram
    <3>5. QED
      BY <3>2, <3>3, <3>4 DEF NvramInv
  <2>8. CASE ~(ImageLen(w) >= NVRAM_MAX)
    <3>1. refused' = refused \ {p} /\ Store(w)
      BY <1>5, <2>8 DEF SaveConfig
    <3>2. /\ image' = w /\ committed' = committed
          /\ wbuf' \in Seq(Byte) /\ Len(wbuf') <= CmosSize /\ wi' \in 0 .. CmosSize
          /\ WriteInv'
      BY <1>0, <2>4, <3>1, StoreKeeps
    <3>3. ImageLen(w) < NVRAM_MAX
      <4>1. ImageLen(w) \in Nat
        BY <2>4, PayloadTyped, LenProperties DEF ImageLen
      <4>2. NVRAM_MAX \in Nat
        BY <1>0, SizePositive DEF NvramTypeOK
      <4> HIDE DEF w
      <4>3. QED
        BY <2>8, <4>1, <4>2
    <3> HIDE DEF w
    <3>4. NvramTypeOK'
      BY <1>0, <2>1, <2>2, <2>4, <3>1, <3>2 DEF NvramTypeOK
    <3>5. ImageInv'
      BY <2>1, <2>4, <3>2, <3>3 DEF ImageInv, NVRAM_MAX
    <3>6. OptionsMatchNvram'
      <4>1. ASSUME NEW q \in Params \ refused' PROVE options'[q] = Lookup(image', q)
        BY <2>4, <2>5, <2>6, <3>1, <3>2
      <4>2. QED
        BY <4>1 DEF OptionsMatchNvram, get_nvram
    <3>7. QED
      BY <3>2, <3>4, <3>5, <3>6 DEF NvramInv
  <2>9. QED
    BY <2>7, <2>8
<1>6. CASE UNCHANGED nvramVars
  BY <1>0, <1>6 DEF nvramVars, NvramInv, NvramTypeOK, WriteInv, ImageInv, OptionsMatchNvram,
                    get_nvram, NVRAM_MAX
<1>7. QED
  BY <1>1, <1>2, <1>3, <1>4, <1>5, <1>6 DEF NvramNext

LEMMA NvramInvHolds == NvramSpec => []NvramInv
BY InitEstablishes, StepKeeps, PTL DEF NvramSpec

-----------------------------------------------------------------------------
(* The theorems *)

(* Every variable keeps its type; machine_nvram_write is never given more  *)
(* bytes than the CMOS has, and never writes outside it.                   *)
THEOREM NvramTypeHolds == NvramSpec => []NvramTypeOK
<1>1. NvramInv => NvramTypeOK
  BY DEF NvramInv
<1>2. QED
  BY <1>1, NvramInvHolds, PTL

(* For every set of variables and values and every CMOS of at most 114      *)
(* bytes, the image in RAM holds no name twice and no default, and stays    *)
(* inside g_nvram_base, whatever is set, refused, reset or cut off.         *)
THEOREM CanonicalHolds == NvramSpec => []ImageCanonical
<1>1. NvramInv => ImageCanonical
  <2> SUFFICES ASSUME NvramInv, up PROVE
        /\ \A i, j \in DOMAIN image : i # j => image[i].param # image[j].param
        /\ \A i \in DOMAIN image : image[i].val # Default[image[i].param]
        /\ ImageLen(image) < NVRAM_MAX
        /\ NVRAM_HEADER + ImageLen(image) < size
    BY DEF ImageCanonical
  <2>1. UniqueParams(image) /\ NoDefaults(image) /\ ImageLen(image) < NVRAM_MAX
    BY DEF NvramInv, ImageInv
  <2>2. image \in Seq(Entry) /\ size \in {CmosSize, MiniSize}
    BY DEF NvramInv, NvramTypeOK
  <2>3. ImageLen(image) \in Nat
    BY <2>2, PayloadTyped, LenProperties DEF ImageLen
  <2>4. NVRAM_HEADER + ImageLen(image) < size
    BY <2>1, <2>2, <2>3, SizePositive DEF NVRAM_MAX, NVRAM_HEADER
  <2>5. QED
    BY <2>1, <2>4 DEF UniqueParams, NoDefaults
<1>2. QED
  BY <1>1, NvramInvHolds, PTL

(* /options shows what get_nvram returns for every variable whose last set  *)
(* was not refused, for every sequence of sets, resets and power failures.  *)
THEOREM OptionsHold == NvramSpec => []OptionsMatchNvram
<1>1. NvramInv => OptionsMatchNvram
  BY DEF NvramInv
<1>2. QED
  BY <1>1, NvramInvHolds, PTL

(* machine_nvram_read refuses every image, torn or complete, at every       *)
(* moment: the sum it compares with zero modulo 2^16 cannot reach 2^16 with *)
(* the bytes of the CMOS.  This is the counterexample of the reboot run for *)
(* every instance: no setting survives a reboot.                            *)
THEOREM NothingAccepted == NvramSpec => []~ReadAccepts
<1>1. NvramInv => ~ReadAccepts
  BY AcceptsNothing DEF NvramInv, NvramTypeOK
<1>2. QED
  BY <1>1, NvramInvHolds, PTL

(* A boot never makes an image of a torn store: with this checksum, because *)
(* it makes none of any store.                                              *)
THEOREM TornNeverLoaded == NvramSpec => []NeverLoadsTornImage
<1>1. NvramInv => NeverLoadsTornImage
  BY DEF NvramInv, ImageInv, NeverLoadsTornImage
<1>2. QED
  BY <1>1, NvramInvHolds, PTL
=============================================================================
