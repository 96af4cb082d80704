------------------------------- MODULE Nvram -------------------------------
(***************************************************************************)
(* The configuration variables: /options in RAM, g_nvram_image in RAM and  *)
(* the battery-backed CMOS bytes of the VT8231, with the power failing     *)
(* between any two bytes of a store.                                       *)
(*                                                                         *)
(* Names and values are byte sequences without NUL, taken from the         *)
(* constants.  The image in RAM is kept as a sequence of entries; it is    *)
(* encoded to bytes by store_nvram and decoded by load_nvram, with the     *)
(* real header and checksum.                                               *)
(***************************************************************************)
EXTENDS Integers, Sequences, FiniteSets, SequencesExt

CONSTANTS
  Params,       \* names of the variables in g_nvram[]
  Vals,         \* values they can take; the empty value is << >>
  Default,      \* g_nvram[]: the default value of each name
  CmosSize,     \* VT8231_CMOS_RAM_SIZE
  MiniSize,     \* sizeof g_nvram_mini, used when malloc fails
  MaxCuts       \* bound: how often the power fails or the machine is reset

Byte == 0 .. 255

ASSUME StringsAssumption == \A s \in Params \union Vals : s \in Seq(Byte \ {0})
ASSUME DefaultAssumption == Default \in [Params -> Vals]
ASSUME SizeAssumption == CmosSize \in 9 .. 114 /\ MiniSize \in Nat /\ MiniSize >= CmosSize
ASSUME MaxCutsAssumption == MaxCuts \in Nat

VARIABLES
  cmos,       \* the CMOS bytes, 0 .. CmosSize - 1
  up,         \* the machine is running (after init_options_from_nvram)
  size,       \* g_nvram_size
  image,      \* g_nvram_image as a sequence of entries
  options,    \* the properties of /options
  wbuf, wi,   \* machine_nvram_write: bytes to write, how many are written
  committed,  \* history: the image last written out completely
  torn,       \* history: the power failed inside the last store
  fresh,      \* history: nothing was set since boot
  refused,    \* history: names whose last set returned E_OUT_OF_PROM
  cuts        \* power failures so far

nvramVars == <<cmos, up, size, image, options, wbuf, wi, committed, torn, fresh, refused, cuts>>

NVRAM_HEADER == 6
NVRAM_MAX == size - 8

-----------------------------------------------------------------------------
(* Layout. *)

EntryBytes(e) == e.param \o <<0>> \o e.val \o <<0>>
Payload(img) == FlattenSeq([i \in DOMAIN img |-> EntryBytes(img[i])])
ImageLen(img) == Len(Payload(img))
ByteSum(s) ==
  LET sum[i \in 0 .. Len(s)] == IF i = 0 THEN 0 ELSE sum[i - 1] + s[i]
  IN sum[Len(s)]

Header(len, hi, lo) == <<190, 239, len \div 256, len % 256, hi, lo>>

(* store_nvram: the checksum is the negated sum of all bytes (below 2^16), *)
(* of which bits 15..8 and 7..0 are kept; then the terminating NUL.         *)
StoredBytes(img) ==
  LET body == Payload(img)
      sum == ByteSum(Header(Len(body), 0, 0)) + ByteSum(body)
      neg == (65536 - sum) % 65536
  IN Header(Len(body), neg \div 256, neg % 256) \o body \o <<0>>

(* The NUL-terminated strings of a payload, and the entries they make up. *)
Strings(bytes) ==
  LET nul == SetToSortSeq({i \in DOMAIN bytes : bytes[i] = 0}, <)
  IN [k \in DOMAIN nul |->
        SubSeq(bytes, IF k = 1 THEN 1 ELSE nul[k - 1] + 1, nul[k] - 1)]
Entries(bytes) ==
  LET s == Strings(bytes)
  IN [k \in 1 .. Len(s) \div 2 |-> [param |-> s[2 * k - 1], val |-> s[2 * k]]]

-----------------------------------------------------------------------------
(* machine_nvram_read *)

ReadTotal == 6 + 256 * cmos[2] + cmos[3] + 1
ReadBytes == [i \in 1 .. ReadTotal |-> cmos[i - 1]]

(* Mutant: the checksum is not verified. *)
ReadAcceptsAnySum ==
  /\ cmos[0] = 190 /\ cmos[1] = 239
  /\ ReadTotal <= CmosSize

ReadAccepts ==
  /\ cmos[0] = 190 /\ cmos[1] = 239
  /\ ReadTotal <= CmosSize
  /\ ByteSum(SubSeq(ReadBytes, 1, ReadTotal - 1)) % 65536 = 0

(* load_nvram: the image the CMOS holds, or the empty one if it is corrupt. *)
LoadedImage ==
  IF ReadAccepts
    THEN Entries(SubSeq(ReadBytes, NVRAM_HEADER + 1, ReadTotal - 1))
    ELSE << >>

First(hits) == CHOOSE i \in hits : \A j \in hits : i <= j

Lookup(img, p) ==
  LET hits == {i \in DOMAIN img : img[i].param = p}
  IN IF hits = {} THEN Default[p] ELSE img[First(hits)].val

get_nvram(p) == Lookup(image, p)

(* init_options_from_nvram: the defaults, then every entry of the image.   *)
OptionsFrom(img) ==
  [p \in Params |->
     LET hits == {i \in DOMAIN img : img[i].param = p}
     IN IF hits = {} THEN Default[p]
        ELSE img[CHOOSE i \in hits : \A j \in hits : i >= j].val]

-----------------------------------------------------------------------------
NvramInit ==
  /\ \E b \in {0, 255} : cmos = [i \in 0 .. CmosSize - 1 |-> b]
  /\ up = FALSE /\ size = CmosSize
  /\ image = << >> /\ options = Default
  /\ wbuf = << >> /\ wi = 0
  /\ committed = << >> /\ torn = FALSE /\ fresh = FALSE
  /\ refused = {} /\ cuts = 0

(* The ok prompt runs: no store is in progress. *)
Ready == up /\ wbuf = << >>

Boot ==
  /\ ~up
  /\ up' = TRUE
  /\ size' \in {CmosSize, MiniSize}          \* malloc succeeds, or fails
  /\ image' = LoadedImage
  /\ options' = OptionsFrom(image')
  /\ wbuf' = << >> /\ wi' = 0
  /\ fresh' = TRUE /\ refused' = {}
  /\ UNCHANGED <<cmos, committed, torn, cuts>>

(* store_nvram of the image img, up to the loop of machine_nvram_write.     *)
(* A buffer larger than the CMOS is not written; nobody looks at the error. *)
Store(img) ==
  /\ image' = img
  /\ IF Len(StoredBytes(img)) > CmosSize
       THEN UNCHANGED <<wbuf, wi>>
       ELSE wbuf' = StoredBytes(img) /\ wi' = 0
  /\ UNCHANGED committed

(* Mutant: the old entry of the parameter is not removed. *)
WithEntryTwice(p, v) ==
  IF v = Default[p] THEN image ELSE Append(image, [param |-> p, val |-> v])

(* The image with the first entry of p removed, and p = v appended unless v *)
(* is the default.                                                          *)
WithEntry(p, v) ==
  LET hits == {i \in DOMAIN image : image[i].param = p}
      rest == IF hits = {} THEN image ELSE RemoveAt(image, First(hits))
  IN IF v = Default[p] THEN rest ELSE Append(rest, [param |-> p, val |-> v])

(* save_config(..., TRUE), from setenv, $setenv and set-default: first the  *)
(* property, then set_nvram.                                                *)
SaveConfig(p, v) ==
  /\ Ready
  /\ options' = [options EXCEPT ![p] = v]
  /\ IF ImageLen(WithEntry(p, v)) >= NVRAM_MAX
       THEN /\ refused' = refused \union {p}          \* E_OUT_OF_PROM
            /\ UNCHANGED <<image, wbuf, wi, committed>>
       ELSE /\ refused' = refused \ {p}
            /\ Store(WithEntry(p, v))
  /\ fresh' = FALSE
  /\ UNCHANGED <<cmos, up, size, torn, cuts>>

(* Mutant: set-defaults resets /options and leaves the image alone. *)
SetDefaultsOptionsOnly ==
  /\ Ready
  /\ options' = Default
  /\ Store(image)
  /\ refused' = {} /\ fresh' = FALSE
  /\ UNCHANGED <<cmos, up, size, torn, cuts>>

(* set-defaults: save_config(..., FALSE) for every option, reset_nvram. *)
SetDefaults ==
  /\ Ready
  /\ options' = Default
  /\ Store(<< >>)
  /\ refused' = {} /\ fresh' = FALSE
  /\ UNCHANGED <<cmos, up, size, torn, cuts>>

(* One vt8231_rtc_write_byte of the loop of machine_nvram_write. *)
WriteByte ==
  /\ wbuf # << >>
  /\ cmos' = [cmos EXCEPT ![wi] = wbuf[wi + 1]]
  /\ IF wi + 1 = Len(wbuf)
       THEN wbuf' = << >> /\ wi' = 0 /\ committed' = image /\ torn' = FALSE
       ELSE wi' = wi + 1 /\ UNCHANGED <<wbuf, committed, torn>>
  /\ UNCHANGED <<up, size, image, options, fresh, refused, cuts>>

(* Reset or power failure: RAM is lost, the CMOS keeps what was written. *)
PowerCut ==
  /\ up /\ cuts < MaxCuts
  /\ cuts' = cuts + 1
  /\ up' = FALSE /\ size' = CmosSize
  /\ image' = << >> /\ options' = Default
  /\ wbuf' = << >> /\ wi' = 0
  /\ torn' = (torn \/ wi > 0)
  /\ fresh' = FALSE /\ refused' = {}
  /\ UNCHANGED <<cmos, committed>>

NvramNext ==
  \/ Boot \/ SetDefaults \/ WriteByte \/ PowerCut
  \/ \E p \in Params, v \in Vals : SaveConfig(p, v)

NvramSpec == NvramInit /\ [][NvramNext]_nvramVars

-----------------------------------------------------------------------------
Entry == [param : Params, val : Vals]

\* The type of every variable; what machine_nvram_write writes fits the CMOS.
NvramTypeOK ==
  /\ cmos \in [0 .. CmosSize - 1 -> Byte]
  /\ up \in BOOLEAN /\ torn \in BOOLEAN /\ fresh \in BOOLEAN
  /\ size \in {CmosSize, MiniSize}
  /\ image \in Seq(Entry) /\ committed \in Seq(Entry)
  /\ options \in [Params -> Vals]
  /\ wbuf \in Seq(Byte) /\ Len(wbuf) <= CmosSize
  /\ wi \in 0 .. CmosSize
  /\ refused \subseteq Params
  /\ cuts \in 0 .. MaxCuts

(* After any sequence of sets and resets the image holds each name at most  *)
(* once, never with its default value, and fits below NVRAM_MAX, so that    *)
(* header, payload and NUL stay inside g_nvram_base.                        *)
ImageCanonical ==
  up => /\ \A i, j \in DOMAIN image : i # j => image[i].param # image[j].param
        /\ \A i \in DOMAIN image : image[i].val # Default[image[i].param]
        /\ ImageLen(image) < NVRAM_MAX
        /\ NVRAM_HEADER + ImageLen(image) < size

(* /options and the image agree on every variable whose last set was not    *)
(* refused: what printenv shows is what get_nvram returns.                  *)
OptionsMatchNvram ==
  up => \A p \in Params \ refused : options[p] = get_nvram(p)

(* A boot after a power failure inside a store sees the old image, the new  *)
(* one or none, never a mixture: the checksum rejects a torn store.         *)
NeverLoadsTornImage ==
  up /\ fresh => image \in {<< >>, committed}

-----------------------------------------------------------------------------
(* What the repository says and the code does not do. *)

(* "setenv changes survive reboots": a boot that follows a complete store   *)
(* finds the stored image.                                                  *)
SettingsSurviveReboot ==
  up /\ fresh /\ ~torn => image = committed

(* "these are first written as zero.  After the last bytes of NVRAM are     *)
(* written, then the magic bytes are filled in": while a store is under way *)
(* the CMOS does not carry the magic number.                                *)
MagicWrittenLast ==
  wbuf # << >> /\ wi > 0 => ~(cmos[0] = 190 /\ cmos[1] = 239)

(* "SF automatically truncates writes that would exceed NVRAM_MAX": what    *)
(* NVRAM holds of a variable is its value in /options or a prefix of it.    *)
NvramHoldsTruncatedOption ==
  Ready => \A p \in Params : IsPrefix(get_nvram(p), options[p])
=============================================================================
