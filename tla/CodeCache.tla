------------------------------ MODULE CodeCache -------------------------------
(* The code cache of the block engine: context.c maps the address of a block  *)
(* to the function compiled from what memory held when it was first run. The  *)
(* bus writes of the machine empty it; the loaders, which copy an image into  *)
(* ROM or RAM behind the bus, and setOverlay, which changes what is visible   *)
(* at address 0, do not. stepInstruction decodes memory every time.           *)
(*                                                                            *)
(* Memory is a set of cells, one for each piece of code that some store can   *)
(* change on its own; a block is translated from one or more cells.           *)
EXTENDS Naturals, FiniteSets

CONSTANTS
    Cells,      \* pieces of code memory
    Low,        \* those that the overlay covers with ROM
    Contents,   \* what a cell may hold
    Blocks,     \* addresses of blocks
    Covers      \* the cells a block is translated from

ASSUME CodeCacheAssumption ==
    /\ Low \subseteq Cells
    /\ Covers \in [Blocks -> SUBSET Cells]

VARIABLES
    ram, rom,  \* the contents of the cells; of rom only the low ones are visible
    overlay,   \* overlayEnabled
    cached,    \* the blocks with an entry in context.c
    body,      \* what each of these was compiled from
    behind     \* history: cells changed behind the bus since it was compiled

memory == <<ram, rom, overlay>>
cache == <<cached, body, behind>>
cacheVars == <<memory, cache>>

Visible(cell) == IF overlay /\ cell \in Low THEN rom[cell] ELSE ram[cell]

\* What a block is compiled from; only its own cells matter.
Snapshot == [cell \in Cells |-> Visible(cell)]

\* Mutant: a store does not empty the cache.
EmptyNothing == UNCHANGED cache
EmptyCache == cached' = {} /\ UNCHANGED <<body, behind>>

\* Cells change and the cache is not told.
Behind(cells) ==
    /\ behind' = [b \in Blocks |-> behind[b] \cup cells]
    /\ UNCHANGED <<cached, body>>

-----------------------------------------------------------------------------

\* write8, write16 and write32 of the machine: a store goes to RAM, under the
\* overlay too. The guest's stores, memory patches, load, loadasm and the line
\* assembler all end here.
Store ==
    /\ \E cell \in Cells, value \in Contents : ram' = [ram EXCEPT ![cell] = value]
    /\ EmptyCache
    /\ UNCHANGED <<rom, overlay>>

Compile(b) ==
    /\ cached' = cached \cup {b}
    /\ body' = [body EXCEPT ![b] = Snapshot]
    /\ behind' = [behind EXCEPT ![b] = {}]

\* runBlock compiles a block that is not cached. What the block itself stores
\* is a Store while it runs: the rest of the block is not translated again.
RunBlock(b) ==
    /\ IF b \in cached THEN UNCHANGED cache ELSE Compile(b)
    /\ UNCHANGED memory

\* acceptInterrupt and reset start from an empty cache.
InterruptOrReset == EmptyCache /\ UNCHANGED memory

\* loadChipRamBytes, loadFastRamBytes and loadRomBytes.
LoadRam ==
    /\ \E cell \in Cells, value \in Contents :
           ram' = [ram EXCEPT ![cell] = value] /\ Behind({cell})
    /\ UNCHANGED <<rom, overlay>>

LoadRom ==
    /\ \E cell \in Low, value \in Contents :
           rom' = [rom EXCEPT ![cell] = value] /\ Behind({cell})
    /\ UNCHANGED <<ram, overlay>>

SetOverlay ==
    /\ overlay' = ~overlay
    /\ Behind(Low)
    /\ UNCHANGED <<ram, rom>>

\* The first step of bench when no interrupt is to be taken: it loads its
\* program, outside the overlay, with the count asked for, and runs it.
Bench(b) ==
    /\ Covers[b] \cap Low = {}
    /\ \E image \in [Covers[b] -> Contents] :
           ram' = [cell \in Cells |-> IF cell \in Covers[b] THEN image[cell] ELSE ram[cell]]
    /\ cached' = cached \cup {b}
    /\ body' = IF b \in cached THEN body
               ELSE [body EXCEPT ![b] = [cell \in Cells |->
                        IF overlay /\ cell \in Low THEN rom[cell] ELSE ram'[cell]]]
    /\ behind' = [x \in Blocks |->
           IF x = b /\ b \notin cached THEN {} ELSE behind[x] \cup Covers[b]]
    /\ UNCHANGED <<rom, overlay>>

CacheInit ==
    /\ ram \in [Cells -> Contents] /\ rom \in [Cells -> Contents]
    /\ overlay = TRUE
    /\ cached = {}
    /\ body = [b \in Blocks |-> Snapshot]
    /\ behind = [b \in Blocks |-> {}]

CacheNext ==
    \/ Store \/ \E b \in Blocks : RunBlock(b)
    \/ InterruptOrReset
    \/ LoadRam \/ LoadRom \/ SetOverlay
    \/ \E b \in Blocks : Bench(b)

CacheSpec == CacheInit /\ [][CacheNext]_cacheVars

-----------------------------------------------------------------------------

\* The types of memory and of the cache.
CacheTypeOK ==
    /\ ram \in [Cells -> Contents] /\ rom \in [Cells -> Contents]
    /\ overlay \in BOOLEAN
    /\ cached \subseteq Blocks
    /\ body \in [Blocks -> [Cells -> Contents]]
    /\ behind \in [Blocks -> SUBSET Cells]

\* A cached block is what a fresh translation of memory would be, so that the
\* block engine and stepInstruction run the same program, whatever the guest,
\* the monitor and interrupts store in between (write8, write16, write32);
\* only what a loader or setOverlay changed since may differ.
Coherent ==
    \A b \in cached : \A cell \in Covers[b] \ behind[b] : body[b][cell] = Visible(cell)

=============================================================================
