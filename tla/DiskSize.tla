------------------------------- MODULE DiskSize -------------------------------
(* DxDiskSize: an amount of traffic as bytes, KB, MB, GB and TB.  The first    *)
(* four fields are uint16, the last one is uint32, and the sums are made in    *)
(* uint32 (AddByteSize) or first in uint16 (Add).                              *)
EXTENDS Integers

CONSTANTS
  Unit,    \* 1024: how many of one unit make the next
  Half,    \* 2^16
  Word     \* 2^32

ASSUME UnitAssumption == Unit \in Nat \ {0} /\ Half \in Nat /\ 2 * Unit <= Half
ASSUME WordAssumption == Word \in Nat /\ Half <= Word

Digit == 0 .. Unit - 1
DxDiskSize == [SizeByte: Digit, SizeKB: Digit, SizeMB: Digit, SizeGB: Digit,
               SizeTB: 0 .. Word - 1]

Zeroed == [SizeByte |-> 0, SizeKB |-> 0, SizeMB |-> 0, SizeGB |-> 0, SizeTB |-> 0]

\* The amount that the fields stand for.
Total(s) ==
  s.SizeByte + Unit * (s.SizeKB + Unit * (s.SizeMB + Unit * (s.SizeGB + Unit * s.SizeTB)))

\* Every field is added in 16 bits, then the carry of the field before it.
Add(s, n) ==
  LET b == (s.SizeByte + n.SizeByte) % Half
      k == ((s.SizeKB + n.SizeKB) % Half) + b \div Unit
      m == ((s.SizeMB + n.SizeMB) % Half) + k \div Unit
      g == ((s.SizeGB + n.SizeGB) % Half) + m \div Unit
  IN [SizeByte |-> b % Unit, SizeKB |-> k % Unit, SizeMB |-> m % Unit,
      SizeGB |-> g % Unit, SizeTB |-> (s.SizeTB + n.SizeTB + g \div Unit) % Word]

\* Mutant: the carry of the kilobytes is dropped.
AddByteSizeTwoUnits(s, n) ==
  LET b == (s.SizeByte + n) % Word
  IN [s EXCEPT !.SizeByte = b % Unit, !.SizeKB = (@ + b \div Unit) % Unit]

\* Adds in 32 bits, and stops at the first unit that has no carry.
AddByteSize(s, n) ==
  LET b == (s.SizeByte + n) % Word
      k == s.SizeKB + b \div Unit
      m == s.SizeMB + k \div Unit
      g == s.SizeGB + m \div Unit
      bytes == [s EXCEPT !.SizeByte = b % Unit]
      kilos == [bytes EXCEPT !.SizeKB = k % Unit]
      megas == [kilos EXCEPT !.SizeMB = m % Unit]
      gigas == [megas EXCEPT !.SizeGB = g % Unit]
  IN CASE b \div Unit = 0 -> bytes
       [] b \div Unit # 0 /\ k \div Unit = 0 -> kilos
       [] b \div Unit # 0 /\ k \div Unit # 0 /\ m \div Unit = 0 -> megas
       [] b \div Unit # 0 /\ k \div Unit # 0 /\ m \div Unit # 0 /\ g \div Unit = 0 -> gigas
       [] OTHER -> [gigas EXCEPT !.SizeTB = (s.SizeTB + g \div Unit) % Word]
================================================================================
