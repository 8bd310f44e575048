------------------------------ MODULE NorFlash ------------------------------
(***************************************************************************)
(* What SPIFFS expects of the flash: an array of bytes.  Programming       *)
(* clears bits of exactly the bytes it is given, at any address; erasing   *)
(* sets all the bits of a sector.  A byte is Free when all its bits are    *)
(* set; one that was programmed with two different values is Garbage.      *)
(***************************************************************************)
EXTENDS Integers, Sequences

CONSTANTS
    FlashSize,     \* bytes of the flash
    SectorSize,    \* SPI_FLASH_SEC_SIZE
    Sources        \* what may be programmed

VARIABLE bytes

Free    == -1
Garbage == -2

And(old, new) ==
    IF old = Free THEN new
    ELSE IF new \in {Free, old} THEN old
    ELSE IF 0 \in {old, new} THEN 0 ELSE Garbage

Programmed(mem, addr, src) ==
    [a \in DOMAIN mem |-> IF a >= addr /\ a < addr + Len(src)
                          THEN And(mem[a], src[a - addr + 1]) ELSE mem[a]]
Erased(mem, sector) ==
    [a \in DOMAIN mem |-> IF a \div SectorSize = sector THEN Free ELSE mem[a]]

Blank == [a \in 0 .. FlashSize - 1 |-> Free]

Init == bytes = Blank
Changed == {a \in DOMAIN bytes : bytes'[a] # bytes[a]}

Program ==
    LET changed == Changed
    IN \E addr \in DOMAIN bytes, src \in Sources :
          /\ changed \subseteq addr .. addr + Len(src) - 1
          /\ bytes' = Programmed(bytes, addr, src)

\* A sector is erased, and then programmed at one place.
Erase ==
    \E sector \in 0 .. FlashSize \div SectorSize - 1, src \in Sources :
        LET erased == Erased(bytes, sector)
        IN \E addr \in DOMAIN bytes :
              /\ addr \div SectorSize = sector
              /\ \A i \in 1 .. Len(src) : bytes'[addr + i - 1] = And(erased[addr + i - 1], src[i])
              /\ bytes' = Programmed(erased, addr, src)

Spec == Init /\ [][Program \/ Erase]_bytes
=============================================================================
