---------------------------------- MODULE Bus ----------------------------------
(* The bus of the test machine, its memories and its passive devices.         *)
(*                                                                            *)
(* src/machine/bus maps regions and decodes each access by the first and the  *)
(* last byte; test_machine.js lays ROM over address 0 for reads by splitting  *)
(* them; monitor commands and the assembler store byte by byte; the loaders   *)
(* copy behind the bus. The clock (devices/rtc.js) and the display            *)
(* (devices/video.js) offer bytes only, so that the bus takes a longer access *)
(* apart, and time passes between the bytes.                                  *)
(*                                                                            *)
(* An address stands for a byte, a byte value for one of Radix. The clock     *)
(* keeps its control word and the seconds of the UNIX time; the display its   *)
(* cursor and its cells.                                                      *)
EXTENDS Naturals, Sequences

CONSTANTS
    Top,        \* the address mask
    Span,       \* the addresses of each region, by its name
    Radix,      \* values of a byte
    Cells,      \* cells of the display
    LastTime,   \* bound: seconds at which time stops
    FirstTime,
    RomImage,   \* the bytes of ROM at first
    Attached,   \* devices a machine may attach
    Accessed,   \* addresses of the accesses
    Data,       \* byte sequences of stores, of length 1, 2 or 4
    Files,      \* byte sequences of files and patches
    Shown       \* bytes a patch shows at least

Region == {"chip", "fast", "rom", "rtc", "video", "spare"}
Ram == {"chip", "fast"}
Memories == {"chip", "fast", "rom"}
Devices == {"rtc", "video", "spare"}

Base == [r \in Region |-> CHOOSE x \in Span[r] : \A y \in Span[r] : x <= y]
RamAddr == Span["chip"] \cup Span["fast"]
RomStart == Base["rom"]
Overlay == 0 .. Top - RomStart
At(a, i) == (a + i) % (Top + 1)

\* What byte i of a long counts, the low byte being byte 0.
Weight(i) ==
    CASE i = 0 -> 1
      [] i = 1 -> Radix
      [] i = 2 -> Radix * Radix
      [] i = 3 -> Radix * (Radix * Radix)

ASSUME BusAssumption ==
    /\ Top \in Nat /\ Top % 2 = 1
    /\ \A r \in Region : \E l, h \in 0 .. Top : l <= h /\ Span[r] = l .. h
    /\ \E l \in 1 .. Top : Span["rom"] = l .. Top
    /\ \A r, s \in Memories : r # s => Span[r] \cap Span[s] = {}
    /\ Accessed \subseteq 0 .. Top /\ Attached \subseteq Devices
    /\ Radix \in Nat \ {0, 1} /\ Cells \in Nat \ {0}
    /\ \A x \in Overlay, i \in 0 .. 3, d \in Devices : x + i \notin Span[d]
    /\ FirstTime \in Nat /\ LastTime \in Nat /\ FirstTime <= LastTime
    /\ LastTime < Radix * Weight(3) /\ Base["rtc"] + 5 \in Span["rtc"]
    /\ \A v \in Data : v \in Seq(0 .. Radix - 1) /\ Len(v) \in {1, 2, 4}
    /\ \A v \in Files : v \in Seq(0 .. Radix - 1)
    /\ RomImage \in [Overlay -> 0 .. Radix - 1]
    /\ Shown \in Nat

VARIABLES
    mapped,   \* regions the bus knows
    ram, rom, \* contents of the memories, by address and by offset
    overlay,  \* ROM is visible at address 0
    now,      \* the time of day
    utc,      \* the control bit of the clock
    cursor, cells, \* the display
    reply     \* the last answer: of which address, and the bytes loaded or
              \* stored, Refused for an error

memory == <<ram, rom, overlay>>
video == <<cursor, cells>>
vars == <<mapped, memory, now, utc, video, reply>>

Refused == << >>
Reply(a, v) == reply' = [at |-> a, bytes |-> v]

-------------------------------------------------------------------------------
(* Decoding. *)

Misaligned(a, n) == n > 1 /\ a % 2 = 1

RegionsOf(a, n) == {r \in mapped : a \in Span[r] /\ a + n - 1 \in Span[r]}

Accepted(a, n) == ~Misaligned(a, n) /\ RegionsOf(a, n) # {}
Holder(a, n) == CHOOSE r \in RegionsOf(a, n) : TRUE

Covered(x) == overlay /\ x \in Overlay

-------------------------------------------------------------------------------
(* Loads. Each byte of a device is read at an instant of its own.             *)

Digit(t, i) == (t \div Weight(i)) % Radix

\* Mutant: the seconds are kept with the low byte first.
ClockByteReversed(offset, t) ==
    IF offset \in 2 .. 5 THEN Digit(t, offset - 2) ELSE 0

ClockByte(offset, t) ==
    CASE offset = 1 -> IF utc THEN 1 ELSE 0
      [] offset \in 2 .. 5 -> Digit(t, 5 - offset)
      [] OTHER -> 0

VideoByte(offset) ==
    CASE offset \in 0 .. 3 -> Digit(cursor, 3 - offset)
      [] offset \in 4 .. 3 + Cells -> cells[offset - 4]
      [] OTHER -> 0

Byte(r, x, t) ==
    CASE r \in Ram -> ram[x]
      [] r = "rom" -> rom[x - RomStart]
      [] r = "rtc" -> ClockByte(x - Base[r], t)
      [] r = "video" -> VideoByte(x - Base[r])
      [] OTHER -> 0

FromBus(a, n, t) ==
    IF Accepted(a, n)
    THEN [i \in 1 .. n |-> Byte(Holder(a, n), a + i - 1, t[i])]
    ELSE Refused

Join(u, v) == IF u = Refused \/ v = Refused THEN Refused ELSE u \o v

Read8(a, t) ==
    IF Covered(a) THEN <<rom[a]>> ELSE FromBus(a, 1, t)

Read16(a, t) ==
    IF ~Misaligned(a, 2) /\ (Covered(a) \/ Covered(At(a, 1)))
    THEN Join(Read8(a, t), Read8(At(a, 1), Tail(t)))
    ELSE FromBus(a, 2, t)

\* Mutant: the end of a long access is not compared with the overlay.
Read32Below(a, t) ==
    IF ~Misaligned(a, 4) /\ Covered(a) /\ Covered(At(a, 3))
    THEN Join(Read16(a, t), Read16(At(a, 2), Tail(Tail(t))))
    ELSE FromBus(a, 4, t)

Read32(a, t) ==
    IF ~Misaligned(a, 4) /\ (Covered(a) \/ Covered(At(a, 3)))
    THEN Join(Read16(a, t), Read16(At(a, 2), Tail(Tail(t))))
    ELSE FromBus(a, 4, t)

Instants ==
    [n \in {1, 2, 4} |->
        {t \in [1 .. n -> FirstTime .. LastTime] :
            \A i \in 1 .. n - 1 : t[i] <= t[i + 1]}]

Load(a, n) ==
    \E t \in Instants[n] :
        /\ t[1] >= now
        /\ t[1] = now \/ RegionsOf(a, n) \cap Devices # {}
        /\ RegionsOf(a, n) \cap Devices = {} => t[n] = now
        /\ Reply(a, CASE n = 1 -> Read8(a, t)
                      [] n = 2 -> Read16(a, t)
                      [] n = 4 -> Read32(a, t))
        /\ now' = t[n]
        /\ UNCHANGED <<mapped, memory, utc, video>>

-------------------------------------------------------------------------------
(* Stores go beneath the overlay, and to a device byte by byte.               *)

\* The place of an address among the bytes stored from address a on.
Place(x, a) == ((x + (Top + 1)) - a) % (Top + 1)

Put(contents, a, v) ==
    [x \in DOMAIN contents |->
        IF Place(x, a) < Len(v) THEN v[Place(x, a) + 1] ELSE contents[x]]

WithDigit(c, i, b) == c - Digit(c, i) * Weight(i) + b * Weight(i)

\* Mutant: the register is stored with the low byte first.
CursorByteReversed(c, offset, b) == WithDigit(c, offset, b) % Cells

\* A byte of the cursor register: the cursor stays on the display.
CursorByte(c, offset, b) == WithDigit(c, 3 - offset, b) % Cells

\* What the display is after one byte.
VideoStore(d, offset, b) ==
    CASE offset \in 0 .. 3 -> [d EXCEPT !.cursor = CursorByte(@, offset, b)]
      [] offset \in 4 .. 3 + Cells ->
            [cursor |-> (offset - 3) % Cells, cells |-> [d.cells EXCEPT ![offset - 4] = b]]
      [] OTHER -> d

\* What the display is after each of the bytes v, which reach it one by one.
VideoSteps(a, v) ==
    LET after[i \in 0 .. Len(v)] ==
            IF i = 0 THEN [cursor |-> cursor, cells |-> cells]
            ELSE IF At(a, i - 1) \in Span["video"]
                 THEN VideoStore(after[i - 1], At(a, i - 1) - Base["video"], v[i])
                 ELSE after[i - 1]
    IN after

VideoAfter(a, v) ==
    VideoSteps(a, v)[IF "video" \in mapped THEN Len(v) ELSE 0]

UtcAfter(a, v) ==
    LET control == Base["rtc"] + 1
    IN IF "rtc" \in mapped /\ Place(control, a) < Len(v)
       THEN v[Place(control, a) + 1] % 2 = 1
       ELSE utc

StoreBytes(a, v) ==
    /\ ram' = Put(ram, a, v)
    /\ utc' = UtcAfter(a, v)
    /\ LET d == VideoAfter(a, v) IN cursor' = d.cursor /\ cells' = d.cells
    /\ UNCHANGED <<mapped, rom, overlay, now>>

Store(a, v) ==
    IF Accepted(a, Len(v)) /\ Holder(a, Len(v)) # "rom"
    THEN StoreBytes(a, v) /\ Reply(a, v)
    ELSE UNCHANGED <<mapped, memory, now, utc, video>> /\ Reply(a, Refused)

\* The monitor commands m, load and loadasm and the assembler session store a
\* byte at a time and stop at the first error. m then shows some bytes.
StoresByte(x) == RegionsOf(x, 1) # {} /\ Holder(x, 1) # "rom"
ShowsByte(x) == Covered(x) \/ RegionsOf(x, 1) # {}

Accepts(a, v) ==
    CHOOSE k \in 0 .. Len(v) :
        /\ \A i \in 0 .. k - 1 : StoresByte(At(a, i))
        /\ k < Len(v) => ~StoresByte(At(a, k))

Fill(a, v, shown) ==
    LET k == Accepts(a, v)
        shows == \A i \in 0 .. shown - 1 : ShowsByte(At(a, i))
    IN /\ StoreBytes(a, SubSeq(v, 1, k))
       /\ Reply(a, IF k = Len(v) /\ shows THEN v ELSE Refused)

Patch(a, v) == Fill(a, v, IF Shown < Len(v) THEN Len(v) ELSE Shown)
LoadFile(a, v) == Fill(a, v, 0)

-------------------------------------------------------------------------------
(* The machine. *)

\* The loaders copy an image into one memory, without the bus.
LoadImage(r, a, v) ==
    /\ IF a \in Span[r] /\ a + Len(v) - 1 \in Span[r]
       THEN /\ ram' = IF r = "rom" THEN ram ELSE Put(ram, a, v)
            /\ rom' = IF r = "rom" THEN Put(rom, a - RomStart, v) ELSE rom
       ELSE UNCHANGED <<ram, rom>>
    /\ UNCHANGED <<mapped, overlay, now, utc, video, reply>>

SetOverlay(on) ==
    /\ overlay' = on
    /\ UNCHANGED <<mapped, ram, rom, now, utc, video, reply>>

\* Mutant: only the first address of the new region is compared.
OverlapsFirst(r) == \E e \in mapped : Base[r] \in Span[e]

Overlaps(r) == \E e \in mapped : Span[r] \cap Span[e] # {}

Map(r) ==
    /\ mapped' = IF Overlaps(r) THEN mapped ELSE mapped \cup {r}
    /\ UNCHANGED <<memory, now, utc, video, reply>>

\* The reset of the bus: the clock keeps its state, the display is cleared.
ResetDevices ==
    /\ IF "video" \in mapped
       THEN cursor' = 0 /\ cells' = [i \in 0 .. Cells - 1 |-> 0]
       ELSE UNCHANGED video
    /\ UNCHANGED <<mapped, memory, now, utc, reply>>

Pass ==
    /\ now < LastTime
    /\ now' = now + 1
    /\ UNCHANGED <<mapped, memory, utc, video, reply>>

Init ==
    /\ mapped = Memories
    /\ ram = [x \in RamAddr |-> 0]
    /\ rom = RomImage
    /\ overlay = TRUE
    /\ now = FirstTime
    /\ utc = FALSE
    /\ cursor = 0 /\ cells = [i \in 0 .. Cells - 1 |-> 0]
    /\ reply = [at |-> 0, bytes |-> Refused]

Next ==
    \/ \E a \in Accessed, n \in {1, 2, 4} : Load(a, n)
    \/ \E a \in Accessed, v \in Data : Store(a, v)
    \/ \E a \in Accessed, v \in Files : Patch(a, v) \/ LoadFile(a, v)
    \/ \E a \in Accessed, v \in Files, r \in Memories : LoadImage(r, a, v)
    \/ \E on \in BOOLEAN : SetOverlay(on)
    \/ \E r \in Attached : Map(r)
    \/ ResetDevices
    \/ Pass

Spec == Init /\ [][Next]_vars

-------------------------------------------------------------------------------
(* Properties. *)

\* The bus never holds two regions for one address: regionFor takes the first
\* that fits, and a second would lose the stores that go to the other.
RegionsDisjoint ==
    \A r, s \in mapped : r # s => Span[r] \cap Span[s] = {}

\* Memories keep one byte for each of their addresses, and the cursor of the
\* display stays on one of its cells, whatever bytes its register is given.
TypeOK ==
    /\ mapped \in SUBSET Region /\ Memories \subseteq mapped
    /\ RegionsDisjoint
    /\ ram \in [RamAddr -> 0 .. Radix - 1] /\ rom \in [Overlay -> 0 .. Radix - 1]
    /\ overlay \in BOOLEAN /\ utc \in BOOLEAN
    /\ now \in FirstTime .. LastTime
    /\ cursor \in 0 .. Cells - 1
    /\ cells \in [0 .. Cells - 1 -> 0 .. Radix - 1]
    /\ reply \in [at : 0 .. Top, bytes : Seq(0 .. Radix - 1)]

OneRegion(a, n) == \E r \in Memories : a \in Span[r] /\ a + n - 1 \in Span[r]

\* Bus, overlay and the commands that go through them are the memory of the
\* abstract specification: loads of any width agree with the bytes that are
\* visible, whatever part of them the overlay hides; stores go beneath it, whole
\* or not at all; a file stays up to the first byte that was refused.
MemorySpec ==
    INSTANCE Memory WITH Data <- Data \cup Files

ImplementsMemory == MemorySpec!Spec

Value(v) == v[1] * Weight(3) + v[2] * Weight(2) + v[3] * Weight(1) + v[4]

\* A guest that loads the seconds of the clock as a long may get a torn value,
\* for time passes between its bytes, but never one that is ahead of the time,
\* and the right one if no carry left the low byte meanwhile (Rtc.readWord is
\* asked for the high byte first).
SecondsRead ==
    [][Len(reply'.bytes) = 4 /\ "rtc" \in mapped /\ Load(Base["rtc"] + 2, 4) =>
        /\ Value(reply'.bytes) <= now'
        /\ now' \div Radix = now \div Radix => Value(reply'.bytes) = now']_vars

\* A long stored to the cursor register puts the cursor where it says, modulo
\* the size of the display, although each of its four bytes is reduced alone:
\* true of the displays whose size divides the values of a byte.
CursorStored ==
    [][\A v \in Data :
        /\ Len(v) = 4 /\ reply'.bytes = v /\ "video" \in mapped
        /\ Store(Base["video"], v)
        /\ Radix % Cells = 0
        => cursor' = Value(v) % Cells]_vars

=============================================================================
