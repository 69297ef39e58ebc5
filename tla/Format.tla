------------------------------- MODULE Format -------------------------------
(***************************************************************************)
(* The text builder of src/format.c: what each conversion makes of a value *)
(* and how the pieces fill a buffer that may be too small; and the printers*)
(* of src/print.c and of the buffered writer in src/io.c, which convert    *)
(* numbers on their own.  An integer has Bits bits.  A double is a sign, a *)
(* kind and, if finite, a count of 1/Unit parts; as in IEEE 754, a double  *)
(* that needs all the bits of its mantissa for the integer part has no     *)
(* fraction.                                                               *)
(***************************************************************************)
EXTENDS Integers, Sequences, SequencesExt

CONSTANTS Bits,        \* the width of an integer, 64 in the code
          MaxSize,     \* bound on the caller's buffer
          MaxCalls     \* bound on the pieces added to one buffer

Range64 == 2^Bits
Unit == 32

Digit == <<"0", "1", "2", "3", "4", "5", "6", "7", "8", "9",
           "a", "b", "c", "d", "e", "f">>

\* sizeof of the buffers the digits are rendered into: 20, 16 and 64 bytes.
DigitRoom(base) == CHOOSE k \in 1..Bits : base^k >= Range64 /\ \A j \in 1..(k - 1) : base^j < Range64

VARIABLES size,        \* of the caller's buffer
          buffer, capacity, used, overflow,  \* lc_format
          done,        \* lc_format_finish has been called; its result, or -1
          text,        \* everything that was added (ghost)
          calls,       \* pieces added so far
          last         \* the last conversion and the text it made (ghost)

vars == <<size, buffer, capacity, used, overflow, done, text, calls, last>>

\* What last records of a conversion: of an integer, or of a double.
Made(op, value, width, s) ==
    IF op = "double" THEN [op |-> op, double |-> value, width |-> width, out |-> s]
    ELSE [op |-> op, value |-> value, width |-> width, out |-> s]
Repeat(c, k) == [i \in 1..k |-> c]

-----------------------------------------------------------------------------
(* Mutated forms of the operations below, for sensitivity checks only.     *)

\* The magnitude of a negative value clamped to the signed range, where the
\* least value has none.
MagnitudeWraps(v) == IF v = - (Range64 \div 2) THEN Range64 \div 2 - 1 ELSE - v

\* A full buffer keeps no room for the terminator.
StartWhole(n) ==
    /\ done >= 0 \/ calls = 0
    /\ size' = n /\ buffer' = Repeat("?", n)
    /\ capacity' = n
    /\ used' = 0 /\ overflow' = FALSE /\ done' = -1
    /\ text' = <<>> /\ calls' = 0
    /\ last' = [op |-> "none"]

-----------------------------------------------------------------------------
(* Conversions.                                                            *)

\* The loop that renders digits from the right; nothing for zero.
RECURSIVE Digits(_, _)
Digits(v, base) == IF v = 0 THEN <<>>
                   ELSE Append(Digits(v \div base, base), Digit[(v % base) + 1])

RenderUnsigned(v) == IF v = 0 THEN <<"0">> ELSE Digits(v, 10)
RenderHex(v) == IF v = 0 THEN <<"0">> ELSE Digits(v, 16)
RenderBinary(v) == IF v = 0 THEN <<"0">> ELSE Digits(v, 2)

\* (uint64_t)(-(value + 1)) + 1, for a negative value.
Magnitude(v) == (((- (v + 1)) % Range64) + 1) % Range64

Signed(v) == IF v < 0 THEN <<"-">> \o RenderUnsigned(Magnitude(v)) ELSE RenderUnsigned(v)
Hex(v) == <<"0", "x">> \o RenderHex(v)
Binary(v) == <<"0", "b">> \o RenderBinary(v)
ByteHex(v) == <<Digit[(v \div 16) + 1], Digit[(v % 16) + 1]>>
Bool(b) == IF b THEN <<"t", "r", "u", "e">> ELSE <<"f", "a", "l", "s", "e">>

UnsignedPadded(v, width, pad) ==
    Repeat(pad, width - Len(RenderUnsigned(v))) \o RenderUnsigned(v)
SignedPadded(v, width, pad) == Repeat(pad, width - Len(Signed(v))) \o Signed(v)
HexPadded(v, width) == Repeat("0", width - Len(RenderHex(v))) \o RenderHex(v)
StringLeft(s, width, pad) == s \o Repeat(pad, width - Len(s))
StringRight(s, width, pad) == Repeat(pad, width - Len(s)) \o s

\* The finite part of lc_format_add_double_precision: the value is n / Unit.
Fixed(n, precision) ==
    LET pow10 == 10^precision
        whole == n \div Unit
        frac_int == (2 * (n % Unit) * pow10 + Unit) \div (2 * Unit)
        carry == frac_int >= pow10
    IN  IF precision = 0 THEN RenderUnsigned((2 * n + Unit) \div (2 * Unit))
        ELSE RenderUnsigned(IF carry THEN whole + 1 ELSE whole) \o <<".">>
             \o UnsignedPadded(IF carry THEN 0 ELSE frac_int, precision, "0")

\* lc_format_add_double_precision.
Double(x, precision) ==
    LET sign == IF x.negative THEN <<"-">> ELSE <<>>
    IN  CASE x.kind = "nan" -> <<"n", "a", "n">>
          [] x.kind = "inf" -> sign \o <<"i", "n", "f">>
          [] x.kind = "finite" /\ x.n = 0 /\ x.negative ->
                <<"-", "0">> \o (IF precision > 0 THEN <<".">> ELSE <<>>) \o Repeat("0", precision)
          [] x.kind = "finite" /\ x.n >= Range64 * Unit -> sign \o <<"i", "n", "f">>
          [] OTHER -> sign \o Fixed(x.n, precision)

\* lc_print_unsigned, lc_print_signed, lc_print_hex and lc_print_byte_hex.
PrintUnsigned(v) == IF v = 0 THEN <<"0">> ELSE Digits(v, 10)
PrintSigned(v) == IF v < 0 THEN <<"-">> \o PrintUnsigned(Magnitude(v)) ELSE PrintUnsigned(v)
PrintHex(v) == IF v = 0 THEN <<"0", "x", "0">> ELSE <<"0", "x">> \o Digits(v, 16)
PrintByteHex(v) == <<Digit[(v \div 16) + 1], Digit[(v % 16) + 1]>>

\* lc_writer_put_unsigned, lc_writer_put_signed and lc_writer_put_hex.
PutUnsigned(v) == IF v = 0 THEN <<"0">> ELSE Digits(v, 10)
PutSigned(v) == IF v < 0 THEN <<"-">> \o PutUnsigned(Magnitude(v)) ELSE PutUnsigned(v)
PutHex(v) == IF v = 0 THEN <<"0", "x", "0">> ELSE <<"0", "x">> \o Digits(v, 16)

-----------------------------------------------------------------------------
(* The buffer.                                                             *)

Limit(a, b) == IF a < b THEN a ELSE b

\* put and put_bytes: used counts every byte, also those there is no room for.
PutBytes(s) ==
    /\ buffer' = [i \in 1..size |->
                    IF i > used /\ i <= Limit(capacity, used + Len(s)) THEN s[i - used] ELSE buffer[i]]
    /\ used' = used + Len(s)
    /\ overflow' = (overflow \/ (s # <<>> /\ used + Len(s) > capacity))
    /\ text' = text \o s

\* lc_format_start, which keeps one byte for the terminator.
Start(n) ==
    /\ done >= 0 \/ calls = 0
    /\ size' = n /\ buffer' = Repeat("?", n)
    /\ capacity' = n - 1
    /\ used' = 0 /\ overflow' = FALSE /\ done' = -1
    /\ text' = <<>> /\ calls' = 0
    /\ last' = [op |-> "none"]

\* The lc_format_add_* functions, each of which puts what its conversion made.
Add(op, value, width, s) ==
    /\ done = -1 /\ calls < MaxCalls
    /\ PutBytes(s)
    /\ last' = Made(op, value, width, s)
    /\ calls' = calls + 1
    /\ UNCHANGED <<size, capacity, done>>

\* lc_format_finish.
Finish ==
    /\ done = -1
    /\ buffer' = [buffer EXCEPT ![(IF used < capacity + 1 THEN used ELSE capacity) + 1] = "NUL"]
    /\ done' = used
    /\ UNCHANGED <<size, capacity, used, overflow, text, calls, last>>

Unsigneds == 0..(Range64 - 1)
Signeds == (- (Range64 \div 2))..((Range64 \div 2) - 1)
Bytes == {0, 9, 10, 160, 171, 255}
Doubles == [negative : BOOLEAN, kind : {"nan", "inf"}, n : {0}]
           \union [negative : BOOLEAN, kind : {"finite"},
                   n : {0, 1, 15, 16, 31, 47, 48} \union {Unit * (Range64 \div 4) - 1}
                       \union {Unit * k : k \in {1, Range64 - 1, Range64, Range64 + 8}}]
Text == {<<>>, <<"x">>, <<"x", "y", "z">>}

AddUnsigned == \E v \in Unsigneds, w \in {0, 3} :
    \/ Add("unsigned", v, w, UnsignedPadded(v, w, " "))
    \/ w = 0 /\ Add("unsigned", v, 0, RenderUnsigned(v))
AddSigned == \E v \in Signeds, w \in {0, 4} :
    \/ Add("signed", v, w, SignedPadded(v, w, " "))
    \/ w = 0 /\ Add("signed", v, 0, Signed(v))
AddHex == \E v \in Unsigneds, w \in {0, 3} :
    \/ w = 0 /\ (Add("hex", v, 0, Hex(v)) \/ Add("hex_raw", v, 0, RenderHex(v)))
    \/ w > 0 /\ Add("hex_raw", v, w, HexPadded(v, w))
AddBinary == \E v \in Unsigneds : Add("binary", v, 0, Binary(v))
AddByte == \E v \in Bytes : Add("byte_hex", v, 2, ByteHex(v))
AddDouble == \E x \in Doubles, p \in 0..2 : Add("double", x, p, Double(x, p))
AddText == \E s \in Text, w \in {0, 2} :
    \/ Add("string", 0, w, StringLeft(s, w, " "))
    \/ Add("string", 0, w, StringRight(s, w, " "))
    \/ \E b \in BOOLEAN : Add("string", 0, 0, Bool(b))

\* A printer leaves no trace but what it wrote.
PrintNumber ==
    /\ done >= 0 /\ last.op = "none"
    /\ \/ \E v \in Signeds : \E s \in {PrintSigned(v), PutSigned(v)} :
             last' = Made("signed", v, 0, s)
       \/ \E v \in Unsigneds : \E s \in {PrintUnsigned(v), PutUnsigned(v)} :
             last' = Made("unsigned", v, 0, s)
       \/ \E v \in Unsigneds : \E s \in {PrintHex(v), PutHex(v)} :
             last' = Made("hex", v, 0, s)
       \/ \E v \in Bytes :
             last' = Made("byte_hex", v, 2, PrintByteHex(v))
    /\ UNCHANGED <<size, buffer, capacity, used, overflow, done, text, calls>>

Init ==
    /\ size = 1 /\ buffer = <<"NUL">> /\ capacity = 0 /\ used = 0 /\ overflow = FALSE
    /\ done = 0 /\ text = <<>> /\ calls = 0 /\ last = [op |-> "none"]

Next ==
    \/ \E n \in 1..MaxSize : Start(n)
    \/ AddUnsigned \/ AddSigned \/ AddHex \/ AddBinary \/ AddByte \/ AddDouble \/ AddText
    \/ Finish \/ PrintNumber

Spec == Init /\ [][Next]_vars

-----------------------------------------------------------------------------
\* Whatever was added, the buffer holds the first bytes of it that fit, the
\* terminator inside the buffer once lc_format_finish returned, and nothing
\* else; the length returned is that of the whole text ("what WOULD have been
\* written"), and overflow tells if it was cut.
BufferExact ==
    LET kept == Limit(used, size - 1)
    IN  /\ used = Len(text)
        /\ overflow <=> used > size - 1
        /\ \A i \in 1..size :
              buffer[i] = IF i <= kept THEN text[i]
                          ELSE IF done >= 0 /\ i = kept + 1 THEN "NUL" ELSE "?"
        /\ done >= 0 => done = Len(text)

DigitValue(c) == CHOOSE d \in 0..15 : Digit[d + 1] = c
Read(s, base) == FoldLeft(LAMBDA n, c : n * base + DigitValue(c), 0, s)
Plain(s, base, v) ==
    /\ s # <<>> /\ Len(s) <= DigitRoom(base) /\ (Len(s) > 1 => s[1] # "0")
    /\ Read(s, base) = v
Unpad(s, pad) == LET skipped == {i \in 0..(Len(s) - 1) : \A j \in 1..i : s[j] = pad}
                 IN  SubSeq(s, 1 + CHOOSE i \in skipped : \A j \in skipped : j <= i, Len(s))

\* Read back, the text of a number is that number, the most negative one
\* included, whichever of the three modules converted it: it fits its digit
\* buffer, has no leading zeros but its padding, and fills its width.  A finite
\* double is printed within half a unit of its last place, with exactly the
\* digits asked for.
ConversionsExact ==
    last.op # "none" =>
    LET s == last.out
        v == last.value
        x == last.double
    IN  /\ last.op # "double" => Len(s) >= last.width
        /\ last.op = "unsigned" => Plain(Unpad(s, " "), 10, v)
        /\ last.op = "signed" => LET t == Unpad(s, " ")
                                 IN  IF v < 0 THEN t[1] = "-" /\ Plain(Tail(t), 10, - v) ELSE Plain(t, 10, v)
        /\ last.op = "hex" => SubSeq(s, 1, 2) = <<"0", "x">> /\ Plain(SubSeq(s, 3, Len(s)), 16, v)
        /\ last.op = "hex_raw" => Plain(Unpad(s, "0"), 16, v)
        /\ last.op = "binary" => SubSeq(s, 1, 2) = <<"0", "b">> /\ Plain(SubSeq(s, 3, Len(s)), 2, v)
        /\ last.op = "byte_hex" => Len(s) = 2 /\ Read(s, 16) = v
        /\ last.op = "double" /\ x.kind = "finite" /\ x.n < Unit * Range64 =>
              LET p == last.width
                  t == IF x.negative THEN Tail(s) ELSE s
                  point == Len(t) - p
                  digits == IF p = 0 THEN t ELSE SubSeq(t, 1, point - 1) \o SubSeq(t, point + 1, Len(t))
                  twice == 2 * (Unit * Read(digits, 10) - x.n * 10^p)
              IN  /\ x.negative => s[1] = "-"
                  /\ p > 0 => t[point] = "."
                  /\ -Unit <= twice /\ twice <= Unit

=============================================================================
