-------------------------------- MODULE Memory --------------------------------
(* What the machine's memory promises to a guest, to the monitor and to the   *)
(* loaders: bytes at addresses, ROM behind the overlay at address 0, loads    *)
(* that see one moment, stores that happen whole or not at all, and a reason  *)
(* for each refusal.                                                          *)
EXTENDS Naturals, Sequences

CONSTANTS
    Top,       \* the highest address, the address mask of the bus
    RamAddr,   \* addresses of RAM
    Accessed,  \* addresses of the accesses
    RomStart,  \* first address of ROM, which ends at Top
    Shown,     \* bytes a patch shows at least
    Data,      \* the byte sequences stored and loaded
    OneRegion(_, _) \* an access of this many bytes lies within one region

RomSize == Top + 1 - RomStart
At(a, i) == (a + i) % (Top + 1)
Refused == << >>

VARIABLES
    ram, rom,  \* bytes by address and by offset
    overlay,   \* ROM is visible at address 0
    reply      \* the last answer: of which address, and the bytes loaded or
               \* stored, or Refused

Visible(x) == (overlay /\ x < RomSize) \/ x \in RamAddr \/ x >= RomStart

Seen(x) ==
    CASE overlay /\ x < RomSize -> rom[x]
      [] x \in RamAddr /\ ~(overlay /\ x < RomSize) -> ram[x]
      [] OTHER -> rom[x - RomStart]

Put(bytes, a, v) ==
    [x \in DOMAIN bytes |->
        LET i == ((x + (Top + 1)) - a) % (Top + 1)
        IN IF i < Len(v) THEN v[i + 1] ELSE bytes[x]]

Misplaced(a, n) == (n > 1 /\ a % 2 = 1) \/ ~OneRegion(a, n)

Reply(a, v) == reply' = [at |-> a, bytes |-> v]

\* A load gives the bytes that are visible now. Only an access that is odd or
\* not within one region may be refused.
Load(a, n) ==
    /\ \/ /\ \A i \in 0 .. n - 1 : Visible(At(a, i))
          /\ Reply(a, [i \in 1 .. n |-> Seen(At(a, i - 1))])
       \/ Reply(a, Refused) /\ Misplaced(a, n)
    /\ UNCHANGED <<ram, rom, overlay>>

\* A store goes to RAM, beneath the overlay too, whole or not at all.
Store(a, v) ==
    /\ \/ /\ Reply(a, v)
          /\ \A i \in 0 .. Len(v) - 1 : At(a, i) \in RamAddr
          /\ ram' = Put(ram, a, v)
       \/ /\ Reply(a, Refused)
          /\ Misplaced(a, Len(v)) \/ a \notin RamAddr
          /\ ram' = ram
    /\ UNCHANGED <<rom, overlay>>

Hole(x) == x \notin RamAddr /\ x < RomStart

\* The monitor and the assembler store byte after byte. They stop at the first
\* byte that is not accepted, and those before it stay. The patch command also
\* answers with an error when one of the bytes it shows next is in no memory.
Fill(a, v) ==
    /\ \E k \in 0 .. Len(v) :
        /\ \A i \in 0 .. k - 1 : At(a, i) < RomStart
        /\ ram' = Put(ram, a, SubSeq(v, 1, k))
        /\ \/ k = Len(v) /\ Reply(a, v)
           \/ /\ Reply(a, Refused)
              /\ \/ k < Len(v) /\ At(a, k) \notin RamAddr
                 \/ k = Len(v) /\ \E i \in 0 .. Shown + Len(v) : Hole(At(a, i))
    /\ UNCHANGED <<rom, overlay>>

\* The loaders put an image into RAM or ROM behind the bus.
Image(a, v) ==
    /\ UNCHANGED <<overlay, reply>>
    /\ \/ /\ \A i \in 0 .. Len(v) - 1 : a + i \in RamAddr
          /\ ram' = Put(ram, a, v) /\ rom' = rom
       \/ /\ a >= RomStart /\ a + Len(v) <= Top + 1
          /\ rom' = Put(rom, a - RomStart, v) /\ ram' = ram

SetOverlay == UNCHANGED <<ram, rom, reply>>

\* An access to a device, or to nothing, touches no memory.
Elsewhere(a) ==
    /\ Hole(a)
    /\ UNCHANGED <<ram, rom, overlay>>

Access(a) ==
    \/ \E n \in {1, 2, 4} : Load(a, n)
    \/ \E v \in Data : Store(a, v) \/ Fill(a, v)
    \/ Elsewhere(a)

Next ==
    \/ SetOverlay
    \/ \E a \in Accessed, v \in Data : Image(a, v)
    \/ \E a \in Accessed : reply'.at = a /\ Access(a)

Spec == [][Next]_<<ram, rom, overlay, reply>>

=============================================================================
