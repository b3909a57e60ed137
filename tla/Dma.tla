-------------------------------- MODULE Dma --------------------------------
(***************************************************************************)
(* How the 8237 controllers are programmed for the floppy: floppy_dma and  *)
(* floppy_dma_setup_read, as the bytes shared/dma.h writes to ports, and   *)
(* what the controllers make of each.  The BIOS has used the channels      *)
(* before, and a device may ask for a transfer at any time.                *)
(*                                                                         *)
(* Module Floppy takes the outcome as one step: the channel's transfers    *)
(* start at the buffer, again after each one.                              *)
(***************************************************************************)
EXTENDS Naturals, Sequences

CONSTANTS Channels,   \* channels to program; the floppy's is 2
          OldBytes    \* bytes the BIOS may have left in a register

VARIABLES
  chan, pc,           \* the channel, and how many bytes are written
  flipflop,           \* per controller: the next byte is the high one
  address, count,     \* per channel, <<low byte, high byte>>
  page, mode, masked

registers == <<flipflop, address, count, page, mode, masked>>
vars      == <<chan, pc, flipflop, address, count, page, mode, masked>>

Byte        == 0..255
AllChannels == 0..7
Controller(c) == c \div 4

-----------------------------------------------------------------------------
(* shared/dma.h: each function is the bytes it writes, <<port, value>>.    *)

(* union dma_control: two bits of the channel, then the mask bit.          *)
MaskChannel(c)   == << <<10, (c % 4) + 4>> >>
UnmaskChannel(c) == << <<10, c % 4>> >>

PortAddress == <<0, 2, 4, 6, 192, 196, 200, 204>>
PortCount   == <<1, 3, 5, 7, 194, 198, 202, 206>>
PortPageShifted == <<131, 129, 129, 130, 143, 139, 137, 138>>
PortPage    == <<135, 131, 129, 129, 143, 139, 137, 138>>

SwappedWord(port, word) == << <<port, word \div 256>>, <<port, word % 256>> >>
Word(port, word) == << <<port, word % 256>>, <<port, word \div 256>> >>

SetupAddress(c, addr) == Word(PortAddress[c + 1], addr)
SetupCount(c, n)      == Word(PortCount[c + 1], n)
SetupPage(c, val)     == << <<PortPage[c + 1], val>> >>

ResetFlipflop(c) == << <<IF c > 3 THEN 216 ELSE 12, 255>> >>

(* union dma_mode: channel, transfer, auto-initialisation, direction, mode *)
SetMode(c, sel, incdec, init, tr) ==
    << <<IF c > 3 THEN 214 ELSE 11,
         (IF c > 3 THEN c - 4 ELSE c) + (4 * tr) + (16 * init) + (32 * incdec) + (64 * sel)>> >>

-----------------------------------------------------------------------------
(* stage3/floppy.c.                                                        *)

Buffer == 4096    \* 0x1000
Bytes  == 768     \* 0x300

FloppyDma ==
    MaskChannel(chan)
    \o ResetFlipflop(chan) \o SetupAddress(chan, Buffer)
    \o ResetFlipflop(chan) \o SetupCount(chan, Bytes - 1)
    \o SetupPage(chan, 0)
    \o UnmaskChannel(chan)

(* Single transfers, up, auto-initialised, from the device to memory.      *)
FloppyDmaSetupRead ==
    MaskChannel(chan) \o SetMode(chan, 1, 0, 1, 1) \o UnmaskChannel(chan)

Program == FloppyDma \o FloppyDmaSetupRead

-----------------------------------------------------------------------------
Init ==
    /\ chan \in Channels /\ pc = 0
    /\ flipflop \in [0..1 -> BOOLEAN]
    /\ \E old \in OldBytes : /\ address = [c \in AllChannels |-> <<old, old>>]
                             /\ count = address
                             /\ page = [c \in AllChannels |-> old]
    /\ mode = [c \in AllChannels |-> 0]
    /\ \E m \in BOOLEAN : masked = [c \in AllChannels |-> m]

(* What the controllers do with a byte.                                    *)

WriteWord(regs, c, value) ==
    [regs EXCEPT ![c] = IF flipflop[Controller(c)] THEN <<@[1], value>> ELSE <<value, @[2]>>]

AddressOf(port) == {c \in AllChannels : port = IF c < 4 THEN 2 * c ELSE 192 + (4 * (c - 4))}
CountOf(port)   == {c \in AllChannels : port = IF c < 4 THEN (2 * c) + 1 ELSE 194 + (4 * (c - 4))}
PageOf(port)    == {c \in AllChannels :
                      port = <<135, 131, 129, 130, 143, 139, 137, 138>>[c + 1]}

Toggle(c) == flipflop' = [flipflop EXCEPT ![Controller(c)] = ~@]

Take(port, value) ==
    \/ /\ \E c \in AddressOf(port) : address' = WriteWord(address, c, value) /\ Toggle(c)
       /\ UNCHANGED <<count, page, mode, masked>>
    \/ /\ \E c \in CountOf(port) : count' = WriteWord(count, c, value) /\ Toggle(c)
       /\ UNCHANGED <<address, page, mode, masked>>
    \/ /\ \E c \in PageOf(port) : page' = [page EXCEPT ![c] = value]
       /\ UNCHANGED <<flipflop, address, count, mode, masked>>
    \/ /\ port \in {12, 216}
       /\ flipflop' = [flipflop EXCEPT ![IF port = 12 THEN 0 ELSE 1] = FALSE]
       /\ UNCHANGED <<address, count, page, mode, masked>>
    \/ /\ port \in {10, 212}
       /\ masked' = [masked EXCEPT ![(value % 4) + (IF port = 10 THEN 0 ELSE 4)]
                                     = (value \div 4) % 2 = 1]
       /\ UNCHANGED <<flipflop, address, count, page, mode>>
    \/ /\ port \in {11, 214}
       /\ mode' = [mode EXCEPT ![(value % 4) + (IF port = 11 THEN 0 ELSE 4)] = value \div 4]
       /\ UNCHANGED <<flipflop, address, count, page, masked>>

OutB ==
    /\ pc < Len(Program)
    /\ Take(Program[pc + 1][1], Program[pc + 1][2])
    /\ pc' = pc + 1
    /\ UNCHANGED chan

Next == OutB

Spec == Init /\ [][Next]_vars

-----------------------------------------------------------------------------
(* Every variable keeps its type.                                          *)
TypeOK ==
    /\ chan \in Channels /\ pc \in 0..Len(Program)
    /\ flipflop \in [0..1 -> BOOLEAN]
    /\ address \in [AllChannels -> Byte \X Byte] /\ count \in [AllChannels -> Byte \X Byte]
    /\ page \in [AllChannels -> Byte] /\ mode \in [AllChannels -> 0..63]
    /\ masked \in [AllChannels -> BOOLEAN]

(* From the moment floppy_dma masks the channel, a transfer a device asks  *)
(* for is either held back or goes to the buffer, and no further: the      *)
(* channel is never open with a half-written address or count, whatever    *)
(* state the flip-flop was in.                                             *)
TransfersGoToBuffer ==
    pc > 0 /\ ~masked[chan] =>
        /\ address[chan] = <<Buffer % 256, Buffer \div 256>> /\ page[chan] = 0
        /\ count[chan] = <<(Bytes - 1) % 256, (Bytes - 1) \div 256>>

(* No byte meant for the channel changes another one.                      *)
OthersUntouched ==
    [][\A c \in AllChannels \ {chan} :
         /\ address'[c] = address[c] /\ count'[c] = count[c] /\ page'[c] = page[c]
         /\ mode'[c] = mode[c] /\ masked'[c] = masked[c]]_vars

(* The inductive invariant: when the channel is held back, which byte the  *)
(* controller takes next, and what the registers hold already.             *)
RegistersOK ==
    /\ pc \in (1..8) \union {10, 11} => masked[chan]
    /\ pc \in 2..12 => (flipflop[Controller(chan)] <=> pc \in {3, 6})
    /\ pc >= 3 => address[chan][1] = Buffer % 256
    /\ pc >= 4 => address[chan][2] = Buffer \div 256
    /\ pc >= 6 => count[chan][1] = (Bytes - 1) % 256
    /\ pc >= 7 => count[chan][2] = (Bytes - 1) \div 256
    /\ pc >= 8 => page[chan] = 0
=============================================================================
