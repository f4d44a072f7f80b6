------------------------------- MODULE MC_Frames -------------------------------
(* Frames with bytes of two values.                                            *)
EXTENDS Frames

\* Nothing, short ones, one for tmpBuffer, and one too long for two digits.
SmallObjects == {<<>>, <<1>>, <<0, 1>>, <<1, 0, 1, 1, 0>>}
WriterSymmetry == Permutations(Writer)

\* Add on all pairs of small amounts.
Small == [SizeByte: Digit, SizeKB: Digit, SizeMB: Digit, SizeGB: Digit, SizeTB: 0 .. 1]
ASSUME AddOnSmall == \A a, b \in Small : Total(Add(a, b)) = Total(a) + Total(b)
================================================================================
