----------------------------- MODULE BusMarshal -----------------------------
(***************************************************************************)
(* What a message on a bus looks like (Writer, Reader, encode and decode   *)
(* of server/src/dbus.ts): values with a signature, aligned, counted in    *)
(* bytes. A type is the tuple of its letter and what it contains, a string *)
(* a sequence of bytes, a map the sequence of its entries. The types with  *)
(* a fixed size differ only in it: one of each size stands for them.       *)
(***************************************************************************)
EXTENDS Naturals, Sequences

CONSTANTS
  Bytes,       \* values of a byte
  MaxLength    \* bound: of strings, arrays and maps

\* What the constants have to be; where the module is instantiated it is assumed.
BusMarshalAssumption == MaxLength \in Nat

VARIABLES body, little, written, readBack

marshalVars == <<body, little, written, readBack>>

Align(t) == CASE t[1] \in {"y", "g", "v"} -> 1
              [] t[1] \in {"u", "s", "a"} -> 4
              [] t[1] \in {"t", "(", "{"} -> 8

Up(n, pos) == ((pos + n - 1) \div n) * n
Zeros(n) == [k \in 1..n |-> 0]
Padding(n, pos) == Zeros(Up(n, pos) - pos)

\* Numbers of several bytes; the high ones are zero here.
Number(n, v, le) == [k \in 1..n |-> IF k = (IF le THEN 1 ELSE n) THEN v ELSE 0]
ByteAt(buf, pos) == IF pos < Len(buf) THEN buf[pos + 1] ELSE 0
NumberAt(buf, pos, n, le) == ByteAt(buf, pos + (IF le THEN 0 ELSE n - 1))
BytesAt(buf, pos, n) == [k \in 1..n |-> ByteAt(buf, pos + k - 1)]

\* The types a variant holds here, and the one byte of their signatures.
Held == <<<<"y">>, <<"s">>>>
Signature(t) == <<10 + (CHOOSE k \in DOMAIN Held : Held[k] = t)>>
TypeOf(sig) == IF sig # <<>> /\ sig[1] - 10 \in DOMAIN Held THEN Held[sig[1] - 10] ELSE Held[1]

\* Mutant of FirstPadding: an array without elements is not padded.
PaddedIfAny(t, v, pos) == IF v = <<>> THEN <<>> ELSE Padding(Align(t), pos)

\* The padding before the first element of an array, be there one or not.
FirstPadding(t, v, pos) == Padding(Align(t), pos)

\* One after the other, each from where the one before has ended.
WriteAll(W(_, _, _, _), ts, vs, pos, le) ==
  LET First[n \in 0..Len(ts)] ==
        IF n = 0 THEN <<>>
        ELSE LET before == First[n - 1] IN before \o W(ts[n], vs[n], pos + Len(before), le)
  IN First[Len(ts)]

\* write(), of what contains nothing: the bytes a value takes from `pos` on.
WritePlain(t, v, pos, le) ==
  CASE t[1] = "y" -> <<v>>
    [] t[1] = "u" -> Padding(4, pos) \o Number(4, v, le)
    [] t[1] = "t" -> Padding(8, pos) \o Number(8, v, le)
    [] t[1] = "s" -> Padding(4, pos) \o Number(4, Len(v), le) \o v \o <<0>>
    [] t[1] = "g" -> <<Len(v)>> \o v \o <<0>>

\* write(), of what contains values that W writes.
WriteOver(W(_, _, _, _), t, v, pos, le) ==
  CASE t[1] = "v" -> LET sig == WritePlain(<<"g">>, Signature(v[1]), pos, le)
                     IN sig \o W(v[1], v[2], pos + Len(sig), le)
    [] t[1] \in {"(", "{"} -> LET pad == Padding(8, pos)
                              IN pad \o WriteAll(W, Tail(t), v, pos + Len(pad), le)
    [] t[1] = "a" ->
         LET at == Up(4, pos) + 4
             pad == FirstPadding(t[2], v, at)
             bytes == WriteAll(W, [k \in 1..Len(v) |-> t[2]], v, at + Len(pad), le)
         IN Padding(4, pos) \o Number(4, Len(bytes), le) \o pad \o bytes
    [] OTHER -> WritePlain(t, v, pos, le)

\* A bound: a value is nested three deep, an array of entries of which one is a variant.
WriteHeld(t, v, pos, le) == WriteOver(WritePlain, t, v, pos, le)
WriteElement(t, v, pos, le) == WriteOver(WriteHeld, t, v, pos, le)
Write(t, v, pos, le) == WriteOver(WriteElement, t, v, pos, le)

Value(v, next) == [v |-> v, next |-> next]

ReadAll(R(_, _, _, _), ts, buf, pos, le) ==
  LET First[n \in 0..Len(ts)] ==
        IF n = 0 THEN Value(<<>>, pos)
        ELSE LET before == First[n - 1]
                 this == R(ts[n], buf, before.next, le)
             IN Value(Append(before.v, this.v), this.next)
  IN First[Len(ts)]

\* The elements of an array, until its length is used up.
ReadTo(R(_, _, _, _), t, buf, pos, end, le) ==
  LET From[p \in Nat] ==
        IF p >= end THEN Value(<<>>, p)
        ELSE LET this == R(t, buf, p, le)
                 others == From[this.next]
             IN Value(<<this.v>> \o others.v, others.next)
  IN From[pos]

\* read(): the value at `pos`, and where the next one begins.
ReadPlain(t, buf, pos, le) ==
  CASE t[1] = "y" -> Value(ByteAt(buf, pos), pos + 1)
    [] t[1] = "u" -> Value(NumberAt(buf, Up(4, pos), 4, le), Up(4, pos) + 4)
    [] t[1] = "t" -> Value(NumberAt(buf, Up(8, pos), 8, le), Up(8, pos) + 8)
    [] t[1] = "s" -> LET start == Up(4, pos) + 4
                         len == NumberAt(buf, Up(4, pos), 4, le)
                     IN Value(BytesAt(buf, start, len), start + len + 1)
    [] t[1] = "g" -> LET len == ByteAt(buf, pos)
                     IN Value(BytesAt(buf, pos + 1, len), pos + len + 2)

ReadOver(R(_, _, _, _), t, buf, pos, le) ==
  CASE t[1] = "v" -> LET sig == ReadPlain(<<"g">>, buf, pos, le)
                         inner == R(TypeOf(sig.v), buf, sig.next, le)
                     IN Value(<<TypeOf(sig.v), inner.v>>, inner.next)
    [] t[1] \in {"(", "{"} -> ReadAll(R, Tail(t), buf, Up(8, pos), le)
    [] t[1] = "a" -> LET len == ReadPlain(<<"u">>, buf, pos, le)
                         start == Up(Align(t[2]), len.next)
                     IN ReadTo(R, t[2], buf, start, start + len.v, le)
    [] OTHER -> ReadPlain(t, buf, pos, le)

ReadHeld(t, buf, pos, le) == ReadOver(ReadPlain, t, buf, pos, le)
ReadElement(t, buf, pos, le) == ReadOver(ReadHeld, t, buf, pos, le)
Read(t, buf, pos, le) == ReadOver(ReadElement, t, buf, pos, le)

\* The values of a type, within the bounds, to the same depth.
UpTo(n, S) == UNION {[1..k -> S] : k \in 0..n}
PlainValues(t) == IF t[1] \in {"y", "u", "t"} THEN Bytes ELSE UpTo(MaxLength, Bytes)
ValuesOver(V(_), t) ==
  CASE t[1] = "v" -> UNION {{<<Held[k], w>> : w \in V(Held[k])} : k \in DOMAIN Held}
    [] t[1] \in {"(", "{"} -> {<<a, b>> : a \in V(t[2]), b \in V(t[3])}
    [] t[1] = "a" -> UpTo(MaxLength, V(t[2]))
    [] OTHER -> PlainValues(t)
HeldValues(t) == ValuesOver(PlainValues, t)
ElementValues(t) == ValuesOver(HeldValues, t)
ValuesOf(t) == ValuesOver(ElementValues, t)

\* The types of the bodies that are written: one of each kind, and those of portal.ts.
Types == {<<"y">>, <<"u">>, <<"t">>, <<"s">>, <<"v">>, <<"(", <<"y">>, <<"t">>>>,
          <<"a", <<"y">>>>, <<"a", <<"t">>>>, <<"a", <<"s">>>>,
          <<"a", <<"{", <<"s">>, <<"v">>>>>>, <<"a", <<"(", <<"u">>, <<"s">>>>>>}

Trailers == {<<"y">>, <<"t">>, <<"v">>}   \* what follows it

Nothing == <<>>

Init ==
  /\ \E t \in Types, u \in Trailers :
       \E v \in ValuesOf(t), w \in ValuesOf(u) : body = [types |-> <<t, u>>, values |-> <<v, w>>]
  /\ little \in BOOLEAN /\ written = Nothing /\ readBack = Nothing

\* encode(): the body begins at a multiple of 8, so it is aligned by itself.
Encode ==
  /\ written = Nothing
  /\ written' = WriteAll(Write, body.types, body.values, 0, little)
  /\ UNCHANGED <<body, little, readBack>>

\* decode(), of what one of ours or a bus of the other order has written.
Decode ==
  /\ written # Nothing /\ readBack = Nothing
  /\ readBack' = <<ReadAll(Read, body.types, written, 0, little)>>
  /\ UNCHANGED <<body, little, written>>

Next == Encode \/ Decode

Spec == Init /\ [][Next]_marshalVars

\* A body is read as it was written, to its last byte: a length that counted the
\* padding, or an element aligned by another, would shift all that follows
\* (dbus.ts 169-173).
ReadAsWritten == readBack # Nothing => readBack = <<Value(body.values, Len(written))>>
=============================================================================
