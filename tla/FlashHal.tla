------------------------------ MODULE FlashHal ------------------------------
(***************************************************************************)
(* spiffs_integration.c: reads, writes and erasures of any bytes by the    *)
(* spi_flash_ functions of the SDK, which take words of four bytes at      *)
(* addresses, and from memory, that are multiples of four.                 *)
(*                                                                         *)
(* A call is a function from the flash to the flash, or to the bytes read. *)
(* Other is a byte that is not what it should be: of the stack, or beyond  *)
(* the end of the caller's buffer.                                         *)
(***************************************************************************)
EXTENDS Integers, Sequences, SequencesExt

CONSTANTS
    FlashSize, SectorSize, Sources,     \* see NorFlash
    WriteBuffer                         \* UNALIGNED_WRITE_BUFFER_SIZE

ASSUME NorAssumption ==
    /\ FlashSize \in Nat \ {0} /\ SectorSize \in Nat \ {0}
    /\ FlashSize % SectorSize = 0
ASSUME BufferAssumption == WriteBuffer \in Nat \ {0} /\ WriteBuffer % 4 = 0

VARIABLE flash

Nor == INSTANCE NorFlash WITH bytes <- flash

Other == -3

AlignedUp(a)   == ((a + 3) \div 4) * 4
AlignedDown(a) == (a \div 4) * 4
\* alignedBegin and alignedEnd of both functions.
Begin(addr)      == AlignedUp(addr)
End(addr, size)  == IF AlignedDown(addr + size) < Begin(addr) THEN Begin(addr)
                    ELSE AlignedDown(addr + size)

spi_flash_read(mem, addr, size)  == [i \in 1 .. size |-> mem[addr + i - 1]]
spi_flash_write(mem, addr, src)  == Nor!Programmed(mem, addr, src)

(***************************************************************************)
(* The odd bytes before the first aligned address are copied from          *)
(* &tmp + 4 - nb, which counts words: nothing of the word read is copied.  *)
(***************************************************************************)
OddHead(word, nb) == [i \in 1 .. nb |-> Other]

my_spi_read(mem, addr, size) ==
    LET begin == Begin(addr)
        end   == End(addr, size)
        head  == IF addr < begin THEN OddHead(spi_flash_read(mem, begin - 4, 4), begin - addr)
                 ELSE <<>>
        tail  == IF addr + size > end
                 THEN SubSeq(spi_flash_read(mem, end, 4), 1, addr + size - end) ELSE <<>>
    IN SubSeq(head \o spi_flash_read(mem, begin, end - begin) \o tail, 1, size)

(***************************************************************************)
(* Writing.  Odd bytes are padded with ones, which program nothing.  When  *)
(* the source is not aligned, the words between go through a buffer, and   *)
(* the source, a pointer to words, advances by four times what was copied. *)
(* align is the address of the source modulo 4.                            *)
(***************************************************************************)
Pad(n) == [i \in 1 .. n |-> Nor!Free]
ByteOf(src, i) == IF i <= Len(src) THEN src[i] ELSE Other

WriteHead(mem, addr, src) ==
    LET ofs == Begin(addr) - addr
        nb  == IF Len(src) < ofs THEN Len(src) ELSE ofs
    IN IF ofs = 0 THEN mem
       ELSE spi_flash_write(mem, Begin(addr) - 4,
                            Pad(4 - ofs) \o SubSeq(src, 1, nb) \o Pad(ofs - nb))

Words(mem, addr, src, align, buffer) ==
    LET begin == Begin(addr)
        size  == End(addr, Len(src)) - begin
        ofs   == begin - addr
        Copy(at, n)  == [i \in 1 .. n |-> ByteOf(src, ofs + 4 * at + i)]
        Chunk(m, k) ==
            LET at == k * buffer
                n  == IF size - at < buffer THEN size - at ELSE buffer
            IN spi_flash_write(m, begin + at, Copy(at, n))
        chunks == (size + buffer - 1) \div buffer
    IN IF size = 0 THEN mem
       ELSE IF (align + ofs) % 4 = 0
       THEN spi_flash_write(mem, begin, SubSeq(src, ofs + 1, ofs + size))
       ELSE FoldLeft(Chunk, mem, [k \in 1 .. chunks |-> k - 1])

WordsSmallBuffer(mem, addr, src, align) ==     \* mutant: a smaller buffer
    Words(mem, addr, src, align, 4)
WriteWords(mem, addr, src, align) == Words(mem, addr, src, align, WriteBuffer)

WriteTail(mem, addr, src) ==
    LET end == End(addr, Len(src))
        nb  == addr + Len(src) - end
    IN IF nb <= 0 THEN mem
       ELSE spi_flash_write(mem, end, SubSeq(src, Len(src) - nb + 1, Len(src)) \o Pad(4 - nb))

my_spi_write(mem, addr, src, align) ==
    WriteTail(WriteWords(WriteHead(mem, addr, src), addr, src, align), addr, src)

my_spi_erase(mem, addr, size) ==
    FoldLeft(Nor!Erased, mem,
             [i \in 1 .. size \div SectorSize |-> addr \div SectorSize + i - 1])
=============================================================================
