--------------------------- MODULE ElfLoadProofs ---------------------------
(***************************************************************************)
(* Proofs about ElfLoad, for every address width, memory layout and set of *)
(* files.  IInv adds to the type invariant what each pass has established: *)
(* after pass 1 every header of a usable file has been checked, and while  *)
(* pass 2 moves segments the buffer still holds the file.                  *)
(***************************************************************************)
EXTENDS ElfLoad, TLAPS

Usable(f) == Complete(f) /\ ClearOfBuffer(f)

\* The ELF header was accepted wherever a program header is read; an attempt
\* starts with fresh counters.
HeaderInv ==
  /\ pc \in {"pass1", "pass2", "copy", "jumped"} => HeaderOK(img)
  /\ pc \in {"prompt", "start"} => i = 0 /\ inside = {} /\ high = 0
  /\ pc = "copy" => i < img.phnum

\* What pass 1 knows of PT_LOAD k.
Checked(k) == Acceptable(img.ph[k]) /\ img.ph[k].va + img.ph[k].msz <= high

\* The headers below i are checked in pass 1, and all of them afterwards.
CheckedInv ==
  Usable(img) =>
    /\ pc = "pass1" => \A k \in Table(img) : k < i => Checked(k)
    /\ pc \in {"pass2", "copy", "jumped"} => \A k \in Table(img) : Checked(k)
    /\ inside # {} => \E k \in Table(img) : img.entry \in Dst(img.ph[k])
    /\ pc \in {"pass2", "copy", "jumped"} => inside # {}

\* Before pass 2 memory is as the file was read; afterwards outside the
\* segments.
MemInv ==
  /\ pc \in {"start", "pass1", "rejected"} => mem = Original(img)
  /\ pc = "prompt" => \A a \in Addr : mem[a] # Zero
  /\ pc = "prompt" => \A a \in FLASH_RANGE_START .. W - 1 : mem[a] = Old
  /\ Usable(img) /\ pc \in {"pass2", "copy", "jumped"} =>
       \A a \in Addr : (\A k \in Table(img) : a \notin Dst(img.ph[k])) => mem[a] = Original(img)[a]
  /\ Usable(img) /\ pc = "copy" => i \in Table(img) /\ seg = img.ph[i]

\* Segments below i are in place, and the current one up to j.
PlaceInv ==
  Usable(img) /\ SegmentsApart(img) /\ pc \in {"pass2", "copy", "jumped"} =>
    /\ \A k \in Table(img) : k < i => \A a \in Dst(img.ph[k]) : mem[a] = Content(img.ph[k], a)
    /\ pc = "copy" => \A a \in Dst(seg) : a < seg.va + j => mem[a] = Content(seg, a)
    /\ pc = "jumped" => i = img.phnum

StackInv == pc = "jumped" => r1 = StackTop(high)

IInv == TypeOK /\ HeaderInv /\ CheckedInv /\ MemInv /\ PlaceInv /\ StackInv

-----------------------------------------------------------------------------
\* u32_add_ovf is right: what it lets through was not reduced.
LEMMA NoOverflow ==
  ASSUME NEW a \in Addr, NEW b \in Addr, ~ Overflows(a, b)
  PROVE  a + b < W /\ (a + b) % W = a + b
<1>1. W \in Nat /\ a \in Nat /\ b \in Nat /\ a < W /\ b < W
  BY AddressAssumption DEF Addr
<1>2. CASE a + b < W
  BY <1>1, <1>2
<1>3. CASE a + b >= W
  <2>1. (a + b) % W = a + b - W
    BY <1>1, <1>3
  <2>2. QED
    BY <1>1, <2>1 DEF Overflows
<1>4. QED
  BY <1>1, <1>2, <1>3

\* A wrapped pointer is an address.
LEMMA ModuloInAddr == \A n \in Nat : n % W \in Addr
BY AddressAssumption DEF Addr

\* The stack of a high_end below the flash lies above it, in the address space.
LEMMA StackAbove ==
  ASSUME NEW t \in 0 .. FLASH_RANGE_START
  PROVE  /\ StackTop(t) \in Addr
         /\ t + Slack - Grain < StackTop(t)
<1>1. /\ W \in Nat /\ FLASH_RANGE_START \in Nat /\ Slack \in Nat /\ Grain \in Nat
      /\ Grain > 0 /\ Grain <= Slack /\ FLASH_RANGE_START + Slack < W /\ t \in Nat /\ t <= FLASH_RANGE_START
  BY AddressAssumption
<1>2. t + Slack < W
  BY <1>1
<1>3. (t + Slack) % W = t + Slack
  BY <1>1, <1>2
<1>4. ~ Overflows(t, Slack)
  BY <1>1, <1>3 DEF Overflows
<1> DEFINE s == t + Slack
           q == s \div Grain
<1>5. StackTop(t) = q * Grain
  BY <1>3, <1>4 DEF StackTop
<1>6. s \in Nat /\ q \in Nat /\ q * Grain <= s /\ s < q * Grain + Grain
  BY <1>1
<1>7. q * Grain \in Nat
  BY <1>1, <1>6
<1> HIDE DEF q
<1>8. QED
  BY <1>1, <1>2, <1>5, <1>6, <1>7 DEF Addr

\* The state at the prompt is well-typed.
LEMMA NoImageType == NoHeader \in Header /\ NoImage \in Image
<1>1. 0 \in Addr
  BY AddressAssumption DEF Addr
<1>2. NoHeader \in Header
  BY <1>1 DEF NoHeader, Header
<1>3. QED
  BY <1>1, <1>2 DEF NoImage, Image

\* A header read from the buffer is a program header.
LEMMA HeaderType ==
  ASSUME TypeOK, HeaderInv, pc \in {"pass1", "pass2"}, i < img.phnum, NEW h \in HeaderAt(i)
  PROVE  h \in Header
<1>1. img \in Image
  BY NoImageType, ImageAssumption DEF TypeOK
<1>2. i \in 0 .. MAX_PHNUM - 1
  BY <1>1, AddressAssumption DEF TypeOK, HeaderInv, HeaderOK, Image
<1>3. img.ph[i] \in Header
  BY <1>1, <1>2 DEF Image
<1>4. QED
  BY <1>3, ImageAssumption DEF HeaderAt

\* The invariant holds at the first prompt.
LEMMA InitIInv == Init => IInv
<1> SUFFICES ASSUME Init PROVE IInv
  OBVIOUS
<1>1. NoImage \in Image /\ NoHeader \in Header
  BY NoImageType
<1>2. TypeOK
  BY <1>1, AddressAssumption DEF Init, TypeOK, Original, Old, Addr, NoImage
<1>3. MemInv
  BY AddressAssumption DEF Init, MemInv, Original, Old, Zero, NoImage, Addr
<1>4. QED
  BY <1>2, <1>3 DEF Init, IInv, HeaderInv, CheckedInv, PlaceInv, StackInv

\* The type invariant is preserved by every step.
LEMMA TypeStep == TypeOK /\ HeaderInv /\ [Next]_vars => TypeOK'
<1> SUFFICES ASSUME TypeOK, HeaderInv, [Next]_vars PROVE TypeOK'
  OBVIOUS
<1>0. img \in Image /\ NoImage \in Image /\ NoHeader \in Header
  BY NoImageType, ImageAssumption DEF TypeOK
<1>a. W \in Nat /\ FLASH_RANGE_START \in Nat /\ Load \in Nat /\ img.phnum \in Nat /\ 0 \in Addr
  BY <1>0, AddressAssumption DEF Image, Addr
<1>1. CASE LoadFile
  <2>1. img' \in Image
    BY <1>1, ImageAssumption DEF LoadFile
  <2>2. mem' \in [Addr -> Int]
    BY <1>1, <1>a DEF LoadFile, Addr, Zero, Old
  <2>3. (i <= img.phnum)' /\ (inside \subseteq {img.entry})'
    BY <2>1, <1>1 DEF LoadFile, Image, HeaderInv
  <2>4. QED
    BY <1>1, <2>1, <2>2, <2>3 DEF LoadFile, TypeOK
<1>2. CASE Begin
  BY <1>2 DEF Begin, TypeOK
<1>3. CASE Validate
  <2>1. PICK h \in HeaderAt(i) :
          \/ i' = i + 1 /\ UNCHANGED <<pc, inside, high>>
          \/ pc' = "rejected" /\ UNCHANGED <<i, inside, high>>
          \/ /\ Acceptable(h)
             /\ i' = i + 1
             /\ inside' = inside \union {a \in {img.entry} : a >= h.va /\ a < (h.va + h.msz) % W}
             /\ high' = IF (h.va + h.msz) % W > high THEN (h.va + h.msz) % W ELSE high
             /\ UNCHANGED pc
    BY <1>3 DEF Validate
  <2>2. h \in Header
    BY <1>3, HeaderType DEF Validate
  <2>3. Acceptable(h) => (h.va + h.msz) % W \in 0 .. FLASH_RANGE_START
    BY <2>2, <1>a DEF Acceptable, Header, Addr
  <2>4. QED
    BY <1>3, <2>1, <2>3, <1>a DEF Validate, TypeOK
<1>4. CASE EntryCheck
  BY <1>4, <1>a DEF EntryCheck, TypeOK
<1>5. CASE Place
  <2>1. PICK h \in HeaderAt(i) :
          \/ i' = i + 1 /\ UNCHANGED <<pc, j, seg>>
          \/ pc' = "copy" /\ seg' = h /\ j' = 0 /\ UNCHANGED i
    BY <1>5 DEF Place
  <2>2. h \in Header
    BY <1>5, HeaderType DEF Place
  <2>3. QED
    BY <1>5, <2>1, <2>2, <1>a DEF Place, TypeOK
<1>6. CASE CopyUnit
  <2>1. seg.fsz \in Addr /\ seg.msz \in Addr /\ seg.va \in Addr /\ seg.off \in Addr
    BY DEF TypeOK, Header
  <2>2. j \in Nat
    BY DEF TypeOK
  <2>3. seg.va + j \in Nat /\ Load + seg.off + j \in Nat /\ j + 1 \in Nat
    BY <2>1, <2>2, <1>a DEF Addr
  <2>4. j + 1 <= W
    BY <1>6, <2>1, <2>2, <1>a DEF CopyUnit, Addr
  <2>5. (seg.va + j) % W \in Addr /\ (Load + seg.off + j) % W \in Addr
    BY <2>3, ModuloInAddr
  <2>6. mem' \in [Addr -> Int]
    BY <1>6, <2>5 DEF CopyUnit, TypeOK, Zero
  <2>7. QED
    BY <1>6, <2>3, <2>4, <2>6 DEF CopyUnit, TypeOK
<1>7. CASE CopyDone
  <2> USE <1>7 DEF CopyDone
  <2>1. i + 1 <= img.phnum
    BY <1>a DEF HeaderInv, TypeOK
  <2>2. QED
    BY <2>1 DEF TypeOK
<1>8. CASE JumpOs
  BY <1>8, StackAbove DEF JumpOs, TypeOK
<1>9. CASE BackToPrompt
  BY <1>9, <1>0, <1>a DEF BackToPrompt, TypeOK, Image, NoImage
<1>10. CASE UNCHANGED vars
  BY <1>10 DEF vars, TypeOK
<1>11. QED
  BY <1>1, <1>2, <1>3, <1>4, <1>5, <1>6, <1>7, <1>8, <1>9, <1>10 DEF Next

\* HeaderInv is preserved.
LEMMA HeaderStep == TypeOK /\ HeaderInv /\ [Next]_vars => HeaderInv'
<1> SUFFICES ASSUME TypeOK, HeaderInv, [Next]_vars PROVE HeaderInv'
  OBVIOUS
<1>1. CASE LoadFile
  BY <1>1 DEF LoadFile, HeaderInv
<1>2. CASE Begin
  BY <1>2 DEF Begin, HeaderInv
<1>3. CASE Validate
  BY <1>3 DEF Validate, HeaderInv
<1>4. CASE EntryCheck
  BY <1>4 DEF EntryCheck, HeaderInv
<1>5. CASE Place
  BY <1>5 DEF Place, HeaderInv
<1>6. CASE CopyUnit
  BY <1>6 DEF CopyUnit, HeaderInv
<1>7. CASE CopyDone
  BY <1>7 DEF CopyDone, HeaderInv
<1>8. CASE JumpOs
  BY <1>8 DEF JumpOs, HeaderInv
<1>9. CASE BackToPrompt
  BY <1>9 DEF BackToPrompt, HeaderInv
<1>10. CASE UNCHANGED vars
  BY <1>10 DEF vars, HeaderInv
<1>11. QED
  BY <1>1, <1>2, <1>3, <1>4, <1>5, <1>6, <1>7, <1>8, <1>9, <1>10 DEF Next

\* The headers and the bytes of a usable file are those of the file for as
\* long as memory outside the segments is intact.
LEMMA BufferIntact ==
  ASSUME TypeOK, HeaderInv, MemInv, Usable(img),
         pc \in {"pass1", "pass2", "copy"},
         NEW u \in Nat, u < img.len
  PROVE  /\ Load + u \in Addr
         /\ (Load + u) % W = Load + u
         /\ mem[(Load + u) % W] = u
<1>1. img \in Images \union {NoImage} /\ img \in Image
  BY NoImageType, ImageAssumption DEF TypeOK
<1>2. Load + img.len <= FLASH_RANGE_START
  BY <1>1, ImageAssumption DEF HeaderInv, HeaderOK, NoImage
<1>3. /\ W \in Nat /\ Load \in Nat /\ FLASH_RANGE_START \in Nat /\ FLASH_RANGE_START < W
      /\ img.len \in Nat
  BY <1>1, AddressAssumption DEF Image
<1>4. Load + u < W /\ Load + u \in Addr /\ (Load + u) % W = Load + u
  BY <1>2, <1>3 DEF Addr
<1>5. Load + u \in Buffer(img)
  BY <1>3, <1>4 DEF Buffer
<1>6. \A k \in Table(img) : Load + u \notin Dst(img.ph[k])
  BY <1>5 DEF Usable, ClearOfBuffer
<1>7. mem[Load + u] = Original(img)[Load + u]
  BY <1>4, <1>6 DEF MemInv
<1>8. Original(img)[Load + u] = u
  BY <1>3, <1>4 DEF Original
<1>9. QED
  BY <1>4, <1>7, <1>8

\* Both passes read the program headers of the file.
LEMMA HeaderIsFile ==
  ASSUME TypeOK, HeaderInv, MemInv, Usable(img), pc \in {"pass1", "pass2"}, i < img.phnum
  PROVE  HeaderAt(i) = {img.ph[i]} /\ (Loads(img.ph[i]) <=> i \in Table(img))
<1>1. img \in Image
  BY NoImageType, ImageAssumption DEF TypeOK
<1>2. /\ W \in Nat /\ Load \in Nat /\ img.phoff \in Nat /\ img.phnum \in Nat /\ i \in Nat
      /\ img.len \in Nat /\ MAX_PHNUM \in Nat /\ img.phnum <= MAX_PHNUM
  BY <1>1, AddressAssumption DEF Image, TypeOK, Addr, HeaderInv, HeaderOK
<1>3. img.phoff + i \in Nat /\ img.phoff + i < img.len
  BY <1>2 DEF Usable, Complete
<1>4. mem[(Load + (img.phoff + i)) % W] = img.phoff + i
  BY <1>3, BufferIntact
<1>5. Load + (img.phoff + i) = Load + img.phoff + i
  BY <1>2
<1>6. HeaderAt(i) = {img.ph[i]}
  BY <1>4, <1>5 DEF HeaderAt
<1>7. QED
  BY <1>2, <1>6 DEF Table

\* CheckedInv is preserved: high_end and entry_in_phdr follow the headers.
LEMMA CheckedStep == IInv /\ [Next]_vars => CheckedInv'
<1> SUFFICES ASSUME IInv, [Next]_vars, Usable(img)' PROVE CheckedInv'
  BY DEF CheckedInv
<1>0. TypeOK /\ HeaderInv /\ MemInv /\ CheckedInv
  BY DEF IInv
<1>1. CASE LoadFile
  BY <1>0, <1>1 DEF LoadFile, CheckedInv, HeaderInv
<1>2. CASE Begin
  <2>1. i = 0 /\ \A k \in Table(img) : k \in Nat
    BY <1>0, <1>2 DEF Begin, HeaderInv, Table
  <2>2. QED
    BY <1>0, <1>2, <2>1 DEF Begin, CheckedInv, Table, Usable, HeaderInv
<1>3. CASE Validate
  <2> DEFINE h == img.ph[i]
  <2>0. Usable(img)
    BY <1>3 DEF Validate
  <2>1. HeaderAt(i) = {h} /\ (Loads(h) <=> i \in Table(img))
    BY <1>0, <1>3, <2>0, HeaderIsFile DEF Validate
  <2>2. h \in Header
    BY <1>0, <1>3, <2>1, HeaderType DEF Validate
  <2>3. /\ pc = "pass1" /\ UNCHANGED <<img, mem>>
        /\ \/ ~ Loads(h) /\ i' = i + 1 /\ UNCHANGED <<pc, inside, high>>
           \/ pc' = "rejected" /\ UNCHANGED <<i, inside, high>>
           \/ /\ Loads(h) /\ Acceptable(h)
              /\ i' = i + 1
              /\ inside' = inside \union {a \in {img.entry} : a >= h.va /\ a < (h.va + h.msz) % W}
              /\ high' = IF (h.va + h.msz) % W > high THEN (h.va + h.msz) % W ELSE high
              /\ UNCHANGED pc
    BY <1>3, <2>1 DEF Validate
  <2>4. Acceptable(h) => (h.va + h.msz) % W = h.va + h.msz
    BY <2>2, NoOverflow DEF Acceptable, Header
  <2>5. \A k \in Table(img) : k \in Nat /\ img.ph[k] \in Header
    <3>1. img \in Image
      BY <1>0, NoImageType, ImageAssumption DEF TypeOK
    <3>2. QED
      BY <3>1, AddressAssumption DEF Table, Image
  <2>6. i \in Nat /\ high \in Nat /\ img.entry \in Addr
    <3>1. img \in Image
      BY <1>0, NoImageType, ImageAssumption DEF TypeOK
    <3>2. QED
      BY <1>0, <3>1, AddressAssumption DEF TypeOK, Image
  <2>7. CASE ~ Loads(h) /\ i' = i + 1 /\ UNCHANGED <<pc, inside, high>>
    <3>1. \A k \in Table(img) : k < i' => Checked(k) /\ Checked(k)'
      BY <1>0, <2>0, <2>1, <2>3, <2>5, <2>6, <2>7 DEF CheckedInv, Checked
    <3>2. QED
      BY <1>0, <2>0, <2>3, <2>7, <3>1 DEF CheckedInv, Table
  <2>8. CASE pc' = "rejected" /\ UNCHANGED <<i, inside, high>>
    BY <1>0, <2>0, <2>3, <2>8 DEF CheckedInv, Table
  <2>9. CASE /\ Loads(h) /\ Acceptable(h)
             /\ i' = i + 1
             /\ inside' = inside \union {a \in {img.entry} : a >= h.va /\ a < (h.va + h.msz) % W}
             /\ high' = IF (h.va + h.msz) % W > high THEN (h.va + h.msz) % W ELSE high
             /\ UNCHANGED pc
    <3>1. high' \in Int /\ high' >= high /\ high' >= h.va + h.msz
      BY <2>2, <2>4, <2>6, <2>9 DEF Header, Addr
    <3>2. \A k \in Table(img) : k < i' => Checked(k)'
      <4>1. SUFFICES ASSUME NEW k \in Table(img), k < i + 1
                     PROVE  Acceptable(img.ph[k]) /\ img.ph[k].va + img.ph[k].msz <= high'
        BY <2>3, <2>9 DEF Checked
      <4>2. CASE k = i
        BY <2>9, <3>1, <4>2
      <4>3. CASE k < i
        <5>1. Acceptable(img.ph[k]) /\ img.ph[k].va + img.ph[k].msz <= high
          BY <1>0, <2>0, <2>3, <4>3 DEF CheckedInv, Checked
        <5>2. QED
          BY <2>5, <2>6, <3>1, <5>1 DEF Header, Addr
      <4>4. QED
        BY <2>5, <2>6, <4>1, <4>2, <4>3
    <3>3. inside' # inside => img.entry \in Dst(h)
      BY <2>4, <2>6, <2>9 DEF Dst
    <3>4. inside' # {} => \E k \in Table(img) : img.entry \in Dst(img.ph[k])
      BY <1>0, <2>0, <2>1, <2>9, <3>3 DEF CheckedInv
    <3>5. QED
      BY <2>3, <2>9, <3>2, <3>4 DEF CheckedInv
  <2>10. QED
    BY <2>3, <2>7, <2>8, <2>9
<1>4. CASE EntryCheck
  <2>1. i = img.phnum /\ \A k \in Table(img) : k < img.phnum
    BY <1>4 DEF EntryCheck, Table
  <2>2. QED
    BY <1>0, <1>4, <2>1 DEF EntryCheck, CheckedInv, Checked, Table, Usable
<1>5. CASE Place
  BY <1>0, <1>5 DEF Place, CheckedInv, Checked, Table
<1>6. CASE CopyUnit
  BY <1>0, <1>6 DEF CopyUnit, CheckedInv, Checked, Table
<1>7. CASE CopyDone
  BY <1>0, <1>7 DEF CopyDone, CheckedInv, Checked, Table
<1>8. CASE JumpOs
  BY <1>0, <1>8 DEF JumpOs, CheckedInv, Checked, Table
<1>9. CASE BackToPrompt
  BY <1>0, <1>9 DEF BackToPrompt, CheckedInv
<1>10. CASE UNCHANGED vars
  BY <1>0, <1>10 DEF vars, CheckedInv, Checked, Table
<1>11. QED
  BY <1>1, <1>2, <1>3, <1>4, <1>5, <1>6, <1>7, <1>8, <1>9, <1>10 DEF Next

\* The unit CopyUnit writes to lies in the segment, and only it changes.
LEMMA CopyTarget ==
  ASSUME IInv, Usable(img), CopyUnit
  PROVE  /\ i \in Table(img) /\ seg = img.ph[i] /\ seg \in Header /\ Acceptable(seg)
         /\ j < seg.msz /\ (seg.va + j) % W = seg.va + j
         /\ seg.va + j \in Dst(seg) /\ seg.va + j < FLASH_RANGE_START
         /\ mem'[seg.va + j] = Content(seg, seg.va + j)
         /\ \A a \in Addr : a # seg.va + j => mem'[a] = mem[a]
<1>0. TypeOK /\ HeaderInv /\ MemInv /\ CheckedInv /\ pc = "copy"
  BY DEF IInv, CopyUnit
<1>1. i \in Table(img) /\ seg = img.ph[i] /\ seg \in Header /\ Acceptable(seg)
  BY <1>0 DEF MemInv, CheckedInv, Checked, TypeOK
<1>2. /\ W \in Nat /\ FLASH_RANGE_START \in Nat /\ Load \in Nat /\ j \in Nat
      /\ seg.va \in 0 .. W - 1 /\ seg.msz \in 0 .. W - 1
      /\ seg.off \in 0 .. W - 1 /\ seg.fsz \in 0 .. W - 1
  BY <1>0, <1>1, AddressAssumption DEF TypeOK, Header, Addr
<1>3. seg.fsz <= seg.msz /\ seg.va + seg.msz < W /\ seg.va + seg.msz <= FLASH_RANGE_START
  BY <1>1, NoOverflow DEF Acceptable, Header
<1>4. j < seg.msz /\ seg.va + j < seg.va + seg.msz /\ seg.va + j < W
  BY <1>2, <1>3 DEF CopyUnit
<1>5. (seg.va + j) % W = seg.va + j /\ seg.va + j \in Addr
  BY <1>2, <1>4 DEF Addr
<1>6. seg.va + j \in Dst(seg) /\ seg.va + j < FLASH_RANGE_START
  BY <1>2, <1>3, <1>4, <1>5 DEF Dst
<1>7. mem' = [mem EXCEPT ![seg.va + j] =
                IF j < seg.fsz THEN mem[(Load + seg.off + j) % W] ELSE Zero]
  BY <1>5 DEF CopyUnit
<1>8. mem \in [Addr -> Int]
  BY <1>0 DEF TypeOK
<1>9. \A a \in Addr : a # seg.va + j => mem'[a] = mem[a]
  BY <1>7, <1>8
<1>10. mem'[seg.va + j] = IF j < seg.fsz THEN mem[(Load + seg.off + j) % W] ELSE Zero
  BY <1>5, <1>7, <1>8
<1>11. Content(seg, seg.va + j) = IF j < seg.fsz THEN seg.off + j ELSE Zero
  <2>1. (seg.va + j) - seg.va = j
    BY <1>2
  <2>2. QED
    BY <2>1 DEF Content
<1>12. j < seg.fsz => mem'[seg.va + j] = Content(seg, seg.va + j)
  <2> SUFFICES ASSUME j < seg.fsz PROVE mem'[seg.va + j] = Content(seg, seg.va + j)
    OBVIOUS
  <2>1. img.len \in Nat
    BY <1>0, NoImageType, ImageAssumption DEF TypeOK, Image
  <2>2. seg.off + seg.fsz <= img.len
    BY <1>1 DEF Usable, Complete
  <2>3. seg.off + j \in Nat /\ seg.off + j < img.len
    BY <1>2, <2>1, <2>2
  <2>4. mem[(Load + (seg.off + j)) % W] = seg.off + j
    BY <1>0, <2>3, BufferIntact
  <2>5. Load + (seg.off + j) = Load + seg.off + j
    BY <1>2
  <2>6. QED
    BY <1>10, <1>11, <2>4, <2>5
<1>13. ~ (j < seg.fsz) => mem'[seg.va + j] = Content(seg, seg.va + j)
  BY <1>10, <1>11
<1>14. QED
  BY <1>1, <1>4, <1>5, <1>6, <1>9, <1>12, <1>13

\* As read, no unit of memory is Zero and the flash holds nothing of the file.
LEMMA OriginalFacts ==
  ASSUME TypeOK
  PROVE  /\ \A a \in Addr : Original(img)[a] # Zero
         /\ \A a \in FLASH_RANGE_START .. W - 1 : Original(img)[a] = Old
<1>1. /\ Load \in Nat /\ FLASH_RANGE_START \in Nat /\ W \in Nat
      /\ img.len \in Nat /\ (img = NoImage \/ Load + img.len <= FLASH_RANGE_START)
  BY NoImageType, ImageAssumption, AddressAssumption DEF TypeOK, Image
<1>2. img = NoImage => img.len = 0
  BY DEF NoImage
<1>3. QED
  BY <1>1, <1>2 DEF Original, Old, Zero, Addr

\* MemInv is preserved: only units inside the segments are written.
LEMMA MemStep == IInv /\ [Next]_vars => MemInv'
<1> SUFFICES ASSUME IInv, [Next]_vars PROVE MemInv'
  OBVIOUS
<1>0. TypeOK /\ HeaderInv /\ MemInv /\ CheckedInv
  BY DEF IInv
<1>1. CASE LoadFile
  <2>1. mem' = Original(img')
    BY <1>0, <1>1 DEF LoadFile, MemInv, Original
  <2>2. QED
    BY <1>1, <2>1 DEF LoadFile, MemInv, Original
<1>2. CASE Begin
  BY <1>0, <1>2 DEF Begin, MemInv, Original
<1>3. CASE Validate
  <2>1. pc' \in {"pass1", "rejected"} /\ mem' = mem /\ img' = img /\ pc = "pass1"
    BY <1>3 DEF Validate
  <2>2. QED
    BY <1>0, <2>1 DEF MemInv, Original
<1>4. CASE EntryCheck
  BY <1>0, <1>4 DEF EntryCheck, MemInv, Original
<1>5. CASE Place
  <2>1. pc = "pass2" /\ i < img.phnum /\ mem' = mem /\ img' = img /\ pc' \in {"pass2", "copy"}
    BY <1>5 DEF Place
  <2>2. Usable(img) /\ pc' = "copy" => i' \in Table(img) /\ seg' = img.ph[i']
    BY <1>0, <1>5, <2>1, HeaderIsFile DEF Place
  <2>3. QED
    BY <1>0, <2>1, <2>2 DEF MemInv, Original, Table, Usable
<1>6. CASE CopyUnit
  <2>1. pc = "copy" /\ pc' = "copy" /\ UNCHANGED <<img, i, seg>>
    BY <1>6 DEF CopyUnit
  <2>2. SUFFICES ASSUME Usable(img) PROVE MemInv'
    BY <2>1 DEF MemInv
  <2>3. i \in Table(img) /\ seg = img.ph[i]
    BY <1>6, <2>2, CopyTarget
  <2>4. ASSUME NEW a \in Addr, \A k \in Table(img) : a \notin Dst(img.ph[k])
        PROVE  mem'[a] = Original(img)[a]
    BY <1>0, <1>6, <2>1, <2>2, <2>3, <2>4, CopyTarget DEF MemInv
  <2>5. QED
    BY <2>1, <2>3, <2>4 DEF MemInv, Original, Table
<1>7. CASE CopyDone
  BY <1>0, <1>7 DEF CopyDone, MemInv, Original, Table
<1>8. CASE JumpOs
  BY <1>0, <1>8 DEF JumpOs, MemInv, Original, Table
<1>9. CASE BackToPrompt
  BY <1>0, <1>9, OriginalFacts, AddressAssumption DEF BackToPrompt, MemInv, Addr
<1>10. CASE UNCHANGED vars
  BY <1>0, <1>10 DEF vars, MemInv, Original, Table
<1>11. QED
  BY <1>1, <1>2, <1>3, <1>4, <1>5, <1>6, <1>7, <1>8, <1>9, <1>10 DEF Next

\* PlaceInv is preserved: a placed segment stays in place.
LEMMA PlaceStep == IInv /\ [Next]_vars => PlaceInv'
<1> SUFFICES ASSUME IInv, [Next]_vars, Usable(img)', SegmentsApart(img)',
                    pc' \in {"pass2", "copy", "jumped"}
             PROVE  PlaceInv'
  BY DEF PlaceInv
<1>0. TypeOK /\ HeaderInv /\ MemInv /\ CheckedInv /\ PlaceInv
  BY DEF IInv
<1>a. \A k \in Table(img) : k \in Nat
  BY DEF Table
<1>b. i \in Nat /\ j \in Nat
  BY <1>0 DEF TypeOK
<1>1. CASE LoadFile \/ Begin \/ Validate \/ BackToPrompt
  BY <1>1 DEF LoadFile, Begin, Validate, BackToPrompt
<1>2. CASE EntryCheck
  BY <1>2, <1>a DEF EntryCheck, PlaceInv, Table
<1>3. CASE Place
  <2>1. pc = "pass2" /\ i < img.phnum /\ mem' = mem /\ img' = img
    BY <1>3 DEF Place
  <2>2. Usable(img) /\ SegmentsApart(img)
    BY <2>1
  <2>3. HeaderAt(i) = {img.ph[i]} /\ (Loads(img.ph[i]) <=> i \in Table(img))
    BY <1>0, <2>1, <2>2, HeaderIsFile
  <2>4. CASE ~ Loads(img.ph[i])
    <3>1. i' = i + 1 /\ pc' = "pass2"
      BY <1>3, <2>1, <2>3, <2>4 DEF Place
    <3>2. \A k \in Table(img) : k < i' => k < i
      BY <1>a, <1>b, <2>3, <2>4, <3>1
    <3>3. QED
      BY <1>0, <2>1, <2>2, <3>1, <3>2 DEF PlaceInv, Table
  <2>5. CASE Loads(img.ph[i])
    <3>1. i' = i /\ j' = 0 /\ pc' = "copy" /\ seg' = img.ph[i]
      BY <1>3, <2>1, <2>3, <2>5 DEF Place
    <3>2. seg' \in Header
      BY <1>0, TypeStep DEF TypeOK
    <3>3. \A a \in Dst(seg') : ~ (a < seg'.va + j')
      BY <3>1, <3>2, AddressAssumption DEF Dst, Header, Addr
    <3>4. QED
      BY <1>0, <2>1, <2>2, <3>1, <3>3 DEF PlaceInv, Table
  <2>6. QED
    BY <2>4, <2>5
<1>4. CASE CopyUnit
  <2>1. pc = "copy" /\ pc' = "copy" /\ j' = j + 1 /\ UNCHANGED <<img, i, seg>>
    BY <1>4 DEF CopyUnit
  <2>2. Usable(img) /\ SegmentsApart(img)
    BY <2>1
  <2>3. /\ i \in Table(img) /\ seg = img.ph[i] /\ seg \in Header
        /\ seg.va + j \in Dst(seg)
        /\ mem'[seg.va + j] = Content(seg, seg.va + j)
        /\ \A a \in Addr : a # seg.va + j => mem'[a] = mem[a]
    BY <1>4, <2>2, CopyTarget
  <2>4. ASSUME NEW k \in Table(img), k < i, NEW a \in Dst(img.ph[k])
        PROVE  mem'[a] = Content(img.ph[k], a)
    <3>1. k # i
      BY <1>a, <1>b, <2>4
    <3>2. a # seg.va + j
      BY <2>2, <2>3, <3>1 DEF SegmentsApart
    <3>3. QED
      BY <1>0, <2>1, <2>2, <2>3, <2>4, <3>2 DEF PlaceInv, Dst
  <2>5. ASSUME NEW a \in Dst(seg), a < seg.va + (j + 1)
        PROVE  mem'[a] = Content(seg, a)
    <3>1. a \in Addr /\ (a # seg.va + j => a < seg.va + j)
      BY <1>b, <2>3, <2>5, AddressAssumption DEF Dst, Header, Addr
    <3>2. QED
      BY <1>0, <2>1, <2>2, <2>3, <2>5, <3>1 DEF PlaceInv
  <2>6. QED
    BY <2>1, <2>4, <2>5 DEF PlaceInv, Table
<1>5. CASE CopyDone
  <2>1. pc = "copy" /\ pc' = "pass2" /\ i' = i + 1 /\ j >= seg.msz /\ UNCHANGED <<img, mem, seg>>
    BY <1>5 DEF CopyDone
  <2>2. Usable(img) /\ SegmentsApart(img)
    BY <2>1
  <2>3. seg \in Header /\ seg = img.ph[i]
    BY <1>0, <2>1, <2>2 DEF TypeOK, MemInv
  <2>4. \A a \in Dst(seg) : a < seg.va + j
    BY <1>b, <2>1, <2>3, AddressAssumption DEF Dst, Header, Addr
  <2>5. \A k \in Table(img) : k < i + 1 => k < i \/ k = i
    BY <1>a, <1>b
  <2>6. QED
    BY <1>0, <2>1, <2>2, <2>3, <2>4, <2>5 DEF PlaceInv, Table
<1>6. CASE JumpOs
  BY <1>0, <1>6 DEF JumpOs, PlaceInv, Table
<1>7. CASE UNCHANGED vars
  BY <1>0, <1>7 DEF vars, PlaceInv, Table
<1>8. QED
  BY <1>1, <1>2, <1>3, <1>4, <1>5, <1>6, <1>7 DEF Next

\* StackInv is preserved.
LEMMA StackStep == StackInv /\ [Next]_vars => StackInv'
<1> SUFFICES ASSUME StackInv, [Next]_vars PROVE StackInv'
  OBVIOUS
<1>1. CASE pc' = "jumped" /\ pc # "jumped"
  BY <1>1 DEF Next, vars, StackInv, LoadFile, Begin, Validate, EntryCheck, Place, CopyUnit,
              CopyDone, JumpOs, BackToPrompt
<1>2. CASE pc = "jumped"
  BY <1>2 DEF Next, vars, StackInv, LoadFile, Begin, Validate, EntryCheck, Place, CopyUnit,
              CopyDone, JumpOs, BackToPrompt
<1>3. QED
  BY <1>1, <1>2 DEF StackInv

\* The inductive invariant.
THEOREM Invariant == Spec => []IInv
<1>1. Init => IInv
  BY InitIInv
<1>2. IInv /\ [Next]_vars => IInv'
  BY TypeStep, HeaderStep, CheckedStep, MemStep, PlaceStep, StackStep DEF IInv
<1>3. QED
  BY <1>1, <1>2, PTL DEF Spec

-----------------------------------------------------------------------------
\* The variables of the loader stay in range; in particular high_end never
\* passes the start of the flash and r1 does not wrap, whatever the headers
\* of the file (or of what was written over them) say.
THEOREM TypeCorrect == Spec => []TypeOK
BY Invariant, PTL DEF IInv

\* An attempt that elf32_ppc_be_load rejects has written nothing.
THEOREM RejectionIsHarmless == Spec => []RejectedLeavesMemory
<1>1. IInv => RejectedLeavesMemory
  BY DEF IInv, MemInv, RejectedLeavesMemory
<1>2. QED
  BY <1>1, Invariant, PTL

\* A complete file clear of the buffer and with disjoint segments is exactly
\* in place when the OS starts.
THEOREM ImagesArePlaced == Spec => []ImagePlaced
<1>1. IInv => ImagePlaced
  <2> SUFFICES ASSUME IInv, pc = "jumped", Complete(img), ClearOfBuffer(img), SegmentsApart(img)
               PROVE  Placed(img)
    BY DEF ImagePlaced
  <2>1. Usable(img)
    BY DEF Usable
  <2>2. \A k \in Table(img) : k < img.phnum
    BY DEF Table
  <2>3. QED
    BY <2>1, <2>2 DEF IInv, PlaceInv, MemInv, Placed
<1>2. QED
  BY <1>1, Invariant, PTL

\* No header that passes the checks lets the loader write to the flash.
THEOREM FlashIsUntouched == Spec => []FlashUntouched
<1>1. IInv => FlashUntouched
  <2> SUFFICES ASSUME IInv, Usable(img), NEW a \in FLASH_RANGE_START .. W - 1
               PROVE  mem[a] = Original(img)[a]
    BY DEF FlashUntouched, Usable
  <2>0. TypeOK /\ MemInv /\ CheckedInv /\ a \in Addr
    BY AddressAssumption DEF IInv, Addr
  <2>1. CASE pc \in {"start", "pass1", "rejected"}
    BY <2>0, <2>1 DEF MemInv
  <2>2. CASE pc = "prompt"
    BY <2>0, <2>2, OriginalFacts DEF MemInv
  <2>3. CASE pc \in {"pass2", "copy", "jumped"}
    <3>1. ASSUME NEW k \in Table(img) PROVE a \notin Dst(img.ph[k])
      <4>1. img.ph[k].va + img.ph[k].msz <= high
        BY <2>0, <2>3, <3>1 DEF CheckedInv, Checked
      <4>2. img.ph[k] \in Header
        BY <2>0, NoImageType, ImageAssumption, AddressAssumption DEF TypeOK, Image, Table
      <4>3. high \in Nat /\ high <= FLASH_RANGE_START
        BY <2>0, AddressAssumption DEF TypeOK
      <4>4. QED
        BY <4>1, <4>2, <4>3, AddressAssumption DEF Dst, Header, Addr
    <3>2. QED
      BY <2>0, <2>3, <3>1 DEF MemInv
  <2>4. QED
    BY <2>0, <2>1, <2>2, <2>3 DEF TypeOK
<1>2. QED
  BY <1>1, Invariant, PTL

\* The OS is entered inside a placed segment with its stack above all of them.
THEOREM HandoffIsSound == Spec => []HandoffSound
<1>1. IInv => HandoffSound
  <2> SUFFICES ASSUME IInv, Usable(img), pc = "jumped"
               PROVE  /\ \E k \in Table(img) : img.entry \in Dst(img.ph[k])
                      /\ \A k \in Table(img) : \A a \in Dst(img.ph[k]) : a + Slack - Grain < r1
    BY DEF HandoffSound, Usable
  <2>0. TypeOK /\ CheckedInv /\ StackInv
    BY DEF IInv
  <2>1. r1 \in Addr /\ high + Slack - Grain < r1 /\ high \in 0 .. FLASH_RANGE_START
    BY <2>0, StackAbove DEF TypeOK, StackInv
  <2>2. ASSUME NEW k \in Table(img), NEW a \in Dst(img.ph[k]) PROVE a + Slack - Grain < r1
    <3>1. img.ph[k].va + img.ph[k].msz <= high
      BY <2>0 DEF CheckedInv, Checked
    <3>2. img.ph[k] \in Header
      BY <2>0, NoImageType, ImageAssumption, AddressAssumption DEF TypeOK, Image, Table
    <3>3. a \in Nat /\ a < high
      BY <2>1, <3>1, <3>2, AddressAssumption DEF Dst, Header, Addr
    <3>4. QED
      BY <2>1, <3>3, AddressAssumption DEF Addr
  <2>3. QED
    BY <2>0, <2>2 DEF CheckedInv
<1>2. QED
  BY <1>1, Invariant, PTL

=============================================================================
