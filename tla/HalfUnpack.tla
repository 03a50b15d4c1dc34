----------------------------- MODULE HalfUnpack -----------------------------
(* The FP16 branch of TrtSession::get_output_f32: one binary16 word of an
   output tensor becomes the bits of a binary32, by hand, with a loop for
   subnormals.  Words are taken apart and put together with shifts and masks;
   a float is kept as its three bit fields, because the code ORs them: a field
   that overflowed its width would corrupt its neighbour.                   *)
EXTENDS Integers

CONSTANT Words      \* the half words to unpack, a subset of 0 .. 2^16 - 1

WordsAssumption == Words \subseteq 0 .. 2^16 - 1

VARIABLES
    h,      \* the word of the tensor
    pc,     \* "read" | "normalize" | "done"
    e, m,   \* the counter and the shifted mantissa of the loop
    f       \* [sign, exponent, fraction] of the float

vars == <<h, pc, e, m, f>>

Sign == h \div 2^15
Exponent == (h \div 2^10) % 2^5
Mantissa == h % 2^10

Float(sign, exponent, fraction) ==
    [sign |-> sign, exponent |-> exponent, fraction |-> fraction]

Unset == Float(0, 0, 0)

Widen(mantissa) == mantissa * 2^13

Finish(result) ==
    /\ pc = "read"
    /\ f' = result
    /\ pc' = "done"
    /\ UNCHANGED <<h, e, m>>

Zero == Exponent = 0 /\ Mantissa = 0
Subnormal == Exponent = 0 /\ Mantissa # 0

NonFinite == Exponent = 31

ReadZero == Zero /\ Finish(Float(Sign, 0, 0))

ReadNonFinite == NonFinite /\ Finish(Float(Sign, 255, Widen(Mantissa)))

ReadNormal ==
    /\ ~(Zero \/ Subnormal \/ NonFinite)
    /\ Finish(Float(Sign, Exponent + (127 - 15), Widen(Mantissa)))

ReadSubnormal ==
    /\ pc = "read"
    /\ Subnormal
    /\ e' = 0
    /\ m' = Mantissa
    /\ pc' = "normalize"
    /\ UNCHANGED <<h, f>>

\* `!(m & 0x400u)`
Normalized == (m \div 2^10) % 2 = 1

Shift ==
    /\ pc = "normalize"
    /\ ~Normalized
    /\ m' = 2 * m
    /\ e' = e + 1
    /\ UNCHANGED <<h, pc, f>>

\* A bug that gives a renormalized subnormal the bias of the other words.
NormalBias == Float(Sign, 127 - 15 - e, Widen(m % 2^10))

Normal == Float(Sign, 127 - 14 - e, Widen(m % 2^10))

Pack ==
    /\ pc = "normalize"
    /\ Normalized
    /\ f' = Normal
    /\ pc' = "done"
    /\ UNCHANGED <<h, e, m>>

Init ==
    /\ h \in Words
    /\ pc = "read"
    /\ e = 0 /\ m = 0
    /\ f = Unset

Next == ReadZero \/ ReadNonFinite \/ ReadNormal \/ ReadSubnormal \/ Shift \/ Pack

Spec == Init /\ [][Next]_vars

---------------------------------------------------------------------------
(* Properties *)

\* The loop counter stays below the width of the mantissa, the shifted word
\* never passes its leading bit, and no field of the float spills over.
TypeOK ==
    /\ h \in Words
    /\ pc \in {"read", "normalize", "done"}
    /\ e \in 0 .. 10
    /\ m \in 0 .. 2^11 - 1
    /\ f.sign \in {0, 1} /\ f.exponent \in 0 .. 2^8 - 1 /\ f.fraction \in 0 .. 2^23 - 1

\* A finite word is unpacked to exactly its value.  A half is S * 2^X with the
\* scaled significand S; the float's significand is a multiple of 2^13, so the
\* two values are compared as integers after taking that factor out.
HalfSignificand == IF Exponent = 0 THEN Mantissa ELSE 2^10 + Mantissa
HalfPower == (IF Exponent = 0 THEN 1 ELSE Exponent) - 15 - 10

ExactValue ==
    pc = "done" /\ Exponent # 31 =>
        /\ f.sign = Sign
        /\ IF HalfSignificand = 0
           THEN f.exponent = 0 /\ f.fraction = 0
           ELSE /\ f.exponent \in 1 .. 254
                /\ f.fraction % 2^13 = 0
                /\ LET power == f.exponent - 127 - 10
                   IN  /\ power <= HalfPower
                       /\ HalfSignificand * 2^(HalfPower - power)
                            = 2^10 + f.fraction \div 2^13

\* An infinity stays that infinity and a NaN stays a NaN, so that a bad output
\* of the engine is seen as one by the decode.
NonFiniteKept ==
    pc = "done" =>
        /\ (f.exponent = 255) <=> (Exponent = 31)
        /\ Exponent = 31 => /\ f.sign = Sign
                            /\ (f.fraction = 0) <=> (Mantissa = 0)

=============================================================================
