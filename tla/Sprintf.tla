-------------------------------- MODULE Sprintf --------------------------------
(***************************************************************************)
(* The formatter of sprintf.c: a format, as a sequence of its parts, goes  *)
(* character by character to a context, which is a buffer with a capacity  *)
(* or the screen.  A part is a literal character or a conversion with its  *)
(* flags, width, precision, length and argument.  A character is a string  *)
(* of length one, or "NUL".  A number of %f counts eighths, and has a mark *)
(* for how the arithmetic of the doubles comes out.                        *)
(***************************************************************************)
EXTENDS Integers, Sequences

CONSTANTS
  Formats,      \* formats, as sequences of parts
  Capacities    \* capacities of a buffer

VARIABLES
  format,       \* the format
  next,         \* the next part of it
  ctx,          \* FORMAT_CONTEXT: sink, pos, and what was written
  result        \* the result, or -1

vars == <<format, next, ctx, result>>

Unlimited == -1     \* the capacity of sprintf, SIZE_MAX
Screen == -2        \* the sink of printf, that is not a buffer

-----------------------------------------------------------------------------
(* ctx_putc, for a sequence of characters: each is written while there is   *)
(* room for it and for one more, and counted whether it is written or not.  *)
(* A context that forgets the room for the NUL ...                          *)
FitsNoNul(c, k) == c.sink = Unlimited \/ c.pos + k <= c.sink

(* ... and the code's.                                                      *)
Fits(c, k) == c.sink = Unlimited \/ c.pos + k < c.sink

Put(c, chars) ==
  LET written == CASE c.sink = Screen -> SelectSeq(chars, LAMBDA ch : ch # "NUL")
                   [] OTHER -> SubSeq(chars, 1, CHOOSE n \in 0 .. Len(chars) :
                                 /\ n = 0 \/ Fits(c, n)
                                 /\ n = Len(chars) \/ ~Fits(c, n + 1))
  IN [c EXCEPT !.pos = @ + Len(chars), !.out = @ \o written]

Fill(ch, n) == [k \in 1 .. n |-> ch]

DigitChar == <<"0", "1", "2", "3", "4", "5", "6", "7", "8", "9", "a", "b", "c", "d", "e", "f">>
UpperChar == <<"0", "1", "2", "3", "4", "5", "6", "7", "8", "9", "A", "B", "C", "D", "E", "F">>

(* u64_to_str                                                               *)
ToStr(val, base, upper) ==
  LET char == IF upper THEN UpperChar ELSE DigitChar
      f[n \in Nat] == IF n < base THEN <<char[n + 1]>>
                                  ELSE Append(f[n \div base], char[(n % base) + 1])
  IN f[val]

Larger(a, b) == IF a > b THEN a ELSE b

(* The sign of a decimal number, or the prefix of the alternate form.       *)
Sign(neg, flags) == CASE neg -> <<"-">>
                      [] ~neg /\ "+" \in flags -> <<"+">>
                      [] ~neg /\ "+" \notin flags /\ " " \in flags -> <<" ">>
                      [] OTHER -> <<>>
Alternate(val, base, upper) == CASE base = 16 /\ val # 0 -> <<"0", IF upper THEN "X" ELSE "x">>
                                 [] base = 8 /\ val # 0 -> <<"0">>
                                 [] OTHER -> <<>>
Prefix(val, neg, base, upper, flags) ==
  IF base = 10 THEN Sign(neg, flags)
  ELSE IF "#" \in flags THEN Alternate(val, base, upper) ELSE <<>>

(* emit_int, for a magnitude and its sign.                                  *)
EmitInt(c, val, neg, base, upper, flags, width, prec) ==
  LET digits == ToStr(val, base, upper)
      prefix == Prefix(val, neg, base, upper, flags)
      zpad == Larger(prec - Len(digits), 0)
      pad == Larger(width - (Len(prefix) + zpad + Len(digits)), 0)
      zero == "0" \in flags /\ prec < 0 /\ "-" \notin flags
  IN Put(c, Fill(" ", IF "-" \in flags \/ zero THEN 0 ELSE pad)
            \o prefix \o Fill("0", IF zero THEN pad + zpad ELSE zpad) \o digits
            \o Fill(" ", IF "-" \in flags THEN pad ELSE 0))

(* emit_float: half a unit of the last place is added, what is behind it    *)
(* cut off.  With decimals, the half is no double, and the sum for a number *)
(* in the middle between two texts may fall short of the upper one: 1.375   *)
(* becomes 1.37 with two, where 0.25 becomes 0.3 with one.                  *)
Power10 == <<1, 10, 100, 1000, 10000, 100000, 1000000, 10000000, 100000000, 1000000000>>
Decimals(prec) == CASE prec < 0 -> 6 [] prec > 9 -> 9 [] OTHER -> prec

Shortfall(number, prec) == IF number.short /\ prec > 0 THEN 1 ELSE 0

EmitFloat(c, number, flags, width, given) ==
  LET prec == Decimals(given)
      mag == IF number.eighths < 0 THEN -number.eighths ELSE number.eighths
      units == (2 * mag * Power10[prec + 1] + 8 - Shortfall(number, prec)) \div 16
      int == ToStr(units \div Power10[prec + 1], 10, FALSE)
      frac == ToStr(units % Power10[prec + 1], 10, FALSE)
      sign == Sign(number.eighths < 0, flags)
      point == IF prec > 0 THEN <<".">> \o Fill("0", Larger(prec - Len(frac), 0)) \o frac
               ELSE IF "#" \in flags THEN <<".">> ELSE <<>>
      pad == Larger(width - Len(sign \o int \o point), 0)
      zero == "0" \in flags /\ "-" \notin flags
  IN Put(c, Fill(" ", IF "-" \in flags \/ zero THEN 0 ELSE pad)
            \o sign \o Fill("0", IF zero THEN pad ELSE 0) \o int \o point
            \o Fill(" ", IF "-" \in flags THEN pad ELSE 0))

(* emit_str, and emit_char.                                                 *)
EmitText(c, chars, flags, width) ==
  LET pad == Fill(" ", Larger(width - Len(chars), 0))
  IN Put(c, IF "-" \in flags THEN chars \o pad ELSE pad \o chars)

-----------------------------------------------------------------------------
(* A width given by an argument may be negative: it aligns to the left.  A  *)
(* negative precision is none.                                              *)
Flags(p) == IF p.width < 0 THEN p.flags \cup {"-"} ELSE p.flags
Width(p) == IF p.width < 0 THEN -p.width ELSE p.width

(* The argument, of the length given; %o does not know the lengths below    *)
(* that of an int.                                                          *)
Narrow(p) == CASE p.len = "hh" /\ p.conv = "d" -> ((p.arg + 128) % 256) - 128
               [] p.len = "hh" /\ p.conv \in {"u", "x", "X"} -> p.arg % 256
               [] OTHER -> p.arg
Magnitude(v) == IF v < 0 THEN -v ELSE v

PointerWidth == 16

Emit(c, p) ==
  CASE p.conv = "literal" -> Put(c, p.arg)
    [] p.conv = "%" -> Put(c, <<"%">>)
    [] p.conv = "c" -> EmitText(c, p.arg, Flags(p), Width(p))
    [] p.conv = "s" -> EmitText(c, SubSeq(p.arg, 1, IF p.prec < 0 \/ p.prec > Len(p.arg)
                                                    THEN Len(p.arg) ELSE p.prec),
                                Flags(p), Width(p))
    [] p.conv \in {"d", "u"} ->
         EmitInt(c, Magnitude(Narrow(p)), Narrow(p) < 0, 10, FALSE, Flags(p), Width(p), p.prec)
    [] p.conv = "o" -> EmitInt(c, Narrow(p), FALSE, 8, FALSE, Flags(p), Width(p), p.prec)
    [] p.conv \in {"x", "X"} ->
         EmitInt(c, Narrow(p), FALSE, 16, p.conv = "X", Flags(p), Width(p), p.prec)
    [] p.conv = "p" -> EmitInt(c, p.arg, FALSE, 16, TRUE, Flags(p) \cup {"0"},
                               IF Width(p) > 0 THEN Width(p) ELSE PointerWidth, p.prec)
    [] p.conv = "f" -> EmitFloat(c, p.arg, Flags(p), Width(p), p.prec)
    [] OTHER -> Put(c, <<"%", p.conv>>)

Initial ==
  /\ next = 1
  /\ \E s \in Capacities \cup {Unlimited, Screen} : ctx = [sink |-> s, pos |-> 0, out |-> <<>>]
  /\ result = -1

Init == format \in Formats /\ Initial

(* core_vsnprintf: one part, and in the end the NUL and the result.         *)
Format ==
  /\ next <= Len(format)
  /\ ctx' = Emit(ctx, format[next])
  /\ next' = next + 1
  /\ UNCHANGED <<format, result>>

Finish ==
  /\ next > Len(format) /\ result = -1
  /\ ctx' = Put(ctx, <<"NUL">>)
  /\ result' = ctx'.pos
  /\ UNCHANGED <<format, next>>

Next == Format \/ Finish

-----------------------------------------------------------------------------
(* What a field is to be, said without the order the code puts it in: the   *)
(* shortest text of at least the width that has the value with at least     *)
(* prec digits, filled with blanks on one side, or with zeros inside.       *)
IsField(text, value, width, flags, prefix, mayFill) ==
  \/ Len(value) + Len(prefix) >= width /\ text = prefix \o value
  \/ /\ Len(value) + Len(prefix) < width /\ Len(text) = width
     /\ LET pad == width - Len(value) - Len(prefix) IN
        CASE "-" \in flags -> text = prefix \o value \o Fill(" ", pad)
          [] "-" \notin flags /\ "0" \in flags /\ mayFill -> text = prefix \o Fill("0", pad) \o value
          [] OTHER -> text = Fill(" ", pad) \o prefix \o value

(* The value that digits stand for.                                         *)
Digit(ch) == (CHOOSE n \in 1 .. 16 : ch \in {DigitChar[n], UpperChar[n]}) - 1
ValueOf(digits, base) ==
  LET f[n \in Nat] == IF n = 0 THEN 0 ELSE base * f[n - 1] + Digit(digits[n]) IN f[Len(digits)]

Numbers == {"d", "u", "o", "x", "X"}
Bases == [conv \in Numbers |-> CASE conv \in {"d", "u"} -> 10 [] conv = "o" -> 8 [] OTHER -> 16]

IsNumber(text, p) ==
  LET body == SelectSeq(text, LAMBDA ch : ch # " ")
      sign == Prefix(Magnitude(Narrow(p)), Narrow(p) < 0, Bases[p.conv], p.conv = "X", Flags(p))
      seen == IF sign = <<" ">> THEN <<>> ELSE sign
      digits == SubSeq(body, Len(seen) + 1, Len(body))
  IN /\ SubSeq(body, 1, Len(seen)) = seen
     /\ ValueOf(digits, Bases[p.conv]) = Magnitude(Narrow(p))
     /\ IF "0" \in Flags(p) /\ p.prec < 0 /\ "-" \notin Flags(p) /\ Len(digits) > 1 /\ Head(digits) = "0"
        THEN Len(text) = Width(p)
        ELSE /\ Len(digits) = Larger(p.prec, Len(ToStr(Magnitude(Narrow(p)), Bases[p.conv], FALSE)))
             /\ IsField(text, digits, Width(p), Flags(p), sign, p.prec < 0)

(* The text of %f: the digits without the point count units of the last     *)
(* place, and are off the number by half a unit at most.                    *)
IsDecimal(text, p) ==
  LET body == SelectSeq(text, LAMBDA ch : ch # " ")
      sign == Sign(p.arg.eighths < 0, Flags(p))
      seen == IF sign = <<" ">> THEN <<>> ELSE sign
      value == SubSeq(body, Len(seen) + 1, Len(body))
      digits == SelectSeq(value, LAMBDA ch : ch # ".")
      prec == Decimals(p.prec)
  IN /\ SubSeq(body, 1, Len(seen)) = seen
     /\ Magnitude(8 * ValueOf(digits, 10) - Magnitude(p.arg.eighths) * Power10[prec + 1]) <= 4
     /\ Len(digits) > prec
     /\ Len(value) - Len(digits) = IF prec > 0 \/ "#" \in Flags(p) THEN 1 ELSE 0
     /\ Len(value) > Len(digits) => value[Len(value) - prec] = "."
     /\ IF Len(digits) > prec + 1 /\ Head(digits) = "0"
        THEN "0" \in Flags(p) /\ "-" \notin Flags(p) /\ Len(text) = Width(p)
        ELSE IsField(text, value, Width(p), Flags(p), sign, TRUE)

(* The text of a format, in a buffer without limit.                         *)
TextOf(f) ==
  LET t[n \in Nat] == IF n = 0 THEN [sink |-> Unlimited, pos |-> 0, out |-> <<>>] ELSE Emit(t[n - 1], f[n])
  IN t[Len(f)].out

(* What snprintf leaves in a buffer is the text up to the capacity, of      *)
(* which one character is kept free; it has its NUL only when the text is   *)
(* shorter than the capacity by two or more (sprintf.c:56, 599); the result *)
(* counts the whole text and the NUL, written or not; and a number has its  *)
(* digits, its sign and its width in any combination of flags, width and    *)
(* precision; that of %f is the nearest with its decimals, or one of the    *)
(* two nearest.                                                             *)
FormatSound ==
  result # -1 =>
    LET text == TextOf(format) IN
    /\ ctx.sink = Screen => ctx.out = text
    /\ ctx.sink = Unlimited => ctx.out = Append(text, "NUL")
    /\ ctx.sink \in Capacities =>
         ctx.out = CASE Len(text) + 1 < ctx.sink -> Append(text, "NUL")
                     [] Len(text) + 1 >= ctx.sink -> SubSeq(text, 1, Larger(ctx.sink - 1, 0))
    /\ result = Len(text) + 1
    /\ \A k \in DOMAIN format :
         /\ format[k].conv \in Numbers => IsNumber(TextOf(<<format[k]>>), format[k])
         /\ format[k].conv = "f" => IsDecimal(TextOf(<<format[k]>>), format[k])

(* "NUL-terminate (does NOT count towards return value)" (sprintf.c:598):   *)
(* the result is the number of characters of the text.                      *)
ResultIsLength == result # -1 => result = Len(TextOf(format))
=============================================================================
