-------------------------------- MODULE Leb128 --------------------------------
(***************************************************************************)
(* Numbers as bytes, LEB128: groups of bits, the lowest first, each with a *)
(* bit that says whether more follow.  Of the last of the bytes a number   *)
(* may have, one bit is left.                                              *)
(***************************************************************************)
EXTENDS Integers, Sequences, SequencesExt, FiniteSetsExt

CONSTANTS
    GroupBits,  \* 7 in the code
    MaxSize     \* the bytes a number may have: LEB128_U64_MAX_BYTE_SIZE, 10

ASSUME Leb128Assumption ==
    GroupBits \in Nat /\ GroupBits >= 2 /\ MaxSize \in Nat /\ MaxSize >= 2

PowerOf(base, n) ==
    LET power[i \in 0..n] == IF i = 0 THEN 1 ELSE base * power[i - 1] IN power[n]

SIGN_BIT         == PowerOf(2, GroupBits - 1)
CONTINUATION_BIT == PowerOf(2, GroupBits)
LowBits(byte)    == byte % CONTINUATION_BIT

\* How far n groups shift.
Power(n) == PowerOf(CONTINUATION_BIT, n)

\* Casts between the unsigned and the signed numbers that fit: 2^64 in the code.
HalfModulus   == Power(MaxSize - 1)
Modulus       == 2 * HalfModulus
ToUnsigned(n) == n % Modulus
ToSigned(n)   == IF n >= HalfModulus THEN n - Modulus ELSE n
-----------------------------------------------------------------------------
(* Writing: groups until nothing is left, or, of a signed number, until the last group has a *)
(* sign bit like all the bits above                                                          *)

Groups(n, size) ==
    [i \in 1..size |-> LowBits(n \div Power(i - 1)) + (IF i < size THEN CONTINUATION_BIT ELSE 0)]

UnsignedSizes(n) == {size \in 1..MaxSize : n \div Power(size) = 0}
SignedSizes(n)   == {size \in 1..MaxSize : (n \div Power(size - 1)) \div SIGN_BIT \in {0, -1}}

WriteUnsigned(n) == Groups(n, Min(UnsignedSizes(n)))
WriteSigned(n)   == Groups(n, Min(SignedSizes(n)))
-----------------------------------------------------------------------------
(* Reading: a value and the number of bytes it took, 0 if there is none *)

\* The bytes of the first number end at its first byte without a continuation bit.
IsEnd(bytes, n) == bytes[n] < CONTINUATION_BIT /\ \A m \in 1..(n - 1) : bytes[m] >= CONTINUATION_BIT
EndOf(bytes) ==
    IF \E n \in DOMAIN bytes : IsEnd(bytes, n) THEN CHOOSE n \in DOMAIN bytes : IsEnd(bytes, n) ELSE 0

\* If there are as many bytes as there can be, only some are possible for the last.
Legal(groups, lastBytes) ==
    Len(groups) <= MaxSize /\ (Len(groups) = MaxSize => Last(groups) \in lastBytes)
Possible(groups, lastBytes)    == IF Legal(groups, lastBytes) THEN groups ELSE <<>>
FirstGroups(bytes, lastBytes) == Possible(SubSeq(bytes, 1, EndOf(bytes)), lastBytes)

\* The bits of the groups together; those that do not fit are shifted out.
Bits(groups) ==
    LET result[i \in 0..Len(groups)] ==
            IF i = 0 THEN 0 ELSE result[i - 1] + LowBits(groups[i]) * Power(i - 1)
    IN ToUnsigned(result[Len(groups)])

\* The sign is in the last group, or in the highest bit if there are as many as there can be.
SignExtended(n, groups) ==
    IF groups # <<>> /\ Len(groups) < MaxSize /\ LowBits(Last(groups)) >= SIGN_BIT
    THEN n - Power(Len(groups))
    ELSE ToSigned(n)

Unsigned(groups) == [value |-> Bits(groups), size |-> Len(groups)]
Signed(groups)   == [value |-> SignExtended(Bits(groups), groups), size |-> Len(groups)]

ReadUnsigned(bytes) == Unsigned(FirstGroups(bytes, {0, 1}))
ReadSigned(bytes)   == Signed(FirstGroups(bytes, {0, CONTINUATION_BIT - 1}))
=============================================================================
