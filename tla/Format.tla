-------------------------------- MODULE Format --------------------------------
(***************************************************************************)
(* The conversions of printf and snprintf (lib/stdio.c).  A conversion is  *)
(* given by what its characters say: a set of flags, a width, negative     *)
(* only for `*', a precision, -1 for none, a type and a letter.  Types     *)
(* keep the order of their widths, scaled down.                            *)
(***************************************************************************)
EXTENDS Integers, SequencesExt, FiniteSetsExt

CONSTANTS
  CHAR, SHORT, INT, INTMAX,     \* bits of the C types
  BUF_SIZE,                     \* size of buf in format_integer
  Number, Text,                 \* the arguments that are tried
  Width, Precision              \* the widths and precisions that are tried

VARIABLE arg                    \* letter, type and argument of a conversion

Letter == {"d", "u", "o", "x", "X", "p"}
Type == {"hh", "h", "", "j", "l", "ll", "t", "z"}
Bits == [hh |-> CHAR, h |-> SHORT, j |-> INTMAX, ll |-> INTMAX]
BitsOf(type) == IF type \in DOMAIN Bits THEN Bits[type] ELSE INT
Conversion == [flags : SUBSET {"-", "+", " ", "#", "0", "'"}, width : Width,
               precision : Precision]
Abs(x) == IF x < 0 THEN -x ELSE x
Dup(ch, cnt) == [i \in 1..cnt |-> ch]
-----------------------------------------------------------------------------
\* parse_conversion, once the characters are read: which flags override which.
parse_conversion(spec) ==
  LET minus == IF "-" \in spec.flags THEN spec.flags \ {"0"} ELSE spec.flags
      plus == IF "+" \in minus THEN minus \ {" "} ELSE minus
      left == IF spec.width < 0 THEN plus \cup {"-"} ELSE plus
  IN [flags |-> IF spec.precision >= 0 THEN left \ {"0"} ELSE left,
      width |-> Abs(spec.width), precision |-> spec.precision]

\* The value of an argument for `d', and for the other letters.
signed_value(type, n) ==
  LET m == 2^BitsOf(type)
  IN IF n % m > (m - 1) \div 2 THEN (n % m) - m ELSE n % m
unsigned_value(type, n) == n % 2^BitsOf(type)

\* struct integer_base.
integer_base(letter) ==
  LET low == <<"0", "1", "2", "3", "4", "5", "6", "7", "8", "9",
               "a", "b", "c", "d", "e", "f">>
      high == SubSeq(low, 1, 10) \o <<"A", "B", "C", "D", "E", "F">>
  IN CASE letter \in {"d", "u"} -> [base |-> 10, digits |-> low, x |-> "", group |-> 3]
       [] letter = "o" -> [base |-> 8, digits |-> low, x |-> "", group |-> 3]
       [] letter \in {"x", "p"} -> [base |-> 16, digits |-> low, x |-> "x", group |-> 4]
       [] letter = "X" -> [base |-> 16, digits |-> high, x |-> "X", group |-> 4]

\* The digits of value in reverse order, n of which are there already.
RECURSIVE reverse_digits(_, _, _, _)
reverse_digits(value, b, flags, n) ==
  IF value = 0 THEN <<>>
  ELSE (IF "'" \in flags /\ n > 0 /\ n % b.group = 0 THEN <<",">> ELSE <<>>)
         \o <<b.digits[(value % b.base) + 1]>>
         \o reverse_digits(value \div b.base, b, flags, n + 1)

\* format_integer's buffer: digits, zeros for the precision, one for `#o'.
digit_buffer(value, b, c) ==
  LET digits == reverse_digits(value, b, c.flags, 0)
      precision == IF c.precision < 0 THEN 1 ELSE c.precision
      zeros == Max({0, Min({precision, BUF_SIZE - 1}) - Len(digits)})
      buf == digits \o Dup("0", zeros)
  IN IF "#" \in c.flags /\ b.base = 8 /\ (buf = <<>> \/ Last(buf) # "0")
     THEN Append(buf, "0") ELSE buf

\* Fault: the sign is not counted.
pad_cnt_unsigned(c, buf, x, sign) == Max({0, c.width - Len(buf) - Len(x)})

\* The number of pad characters that fill the field.
pad_cnt(c, buf, x, sign) == Max({0, c.width - Len(buf) - Len(x) - Len(sign)})

\* format_integer: what it outputs.
format_integer(value, is_signed, negative, b, c) ==
  LET sign == IF ~is_signed THEN <<>>
              ELSE IF negative THEN <<"-">>
              ELSE IF "+" \in c.flags THEN <<"+">>
              ELSE IF " " \in c.flags THEN <<" ">> ELSE <<>>
      x == IF "#" \in c.flags /\ value # 0 /\ b.x # "" THEN <<"0", b.x>> ELSE <<>>
      buf == digit_buffer(value, b, c)
      pad == pad_cnt(c, buf, x, sign)
  IN (IF c.flags \cap {"-", "0"} = {} THEN Dup(" ", pad) ELSE <<>>)
       \o sign \o x
       \o (IF "0" \in c.flags THEN Dup("0", pad) ELSE <<>>)
       \o Reverse(buf)
       \o (IF "-" \in c.flags THEN Dup(" ", pad) ELSE <<>>)

\* format_string, for `s', with at most precision characters.
format_string(string, c) ==
  LET length == IF c.precision < 0 THEN Len(string)
                ELSE Min({Len(string), c.precision})
      fill == Dup(" ", Max({0, c.width - length}))
      s == SubSeq(string, 1, length)
  IN IF "-" \in c.flags THEN s \o fill ELSE fill \o s

\* __vprintf for one conversion; `p' is `#x' whatever the flags were.
vprintf(a, spec) ==
  LET c == parse_conversion(spec)
      v == signed_value(a.type, a.value)
  IN CASE a.letter = "s" -> format_string(a.text, c)
       [] a.letter = "d" ->
            format_integer(Abs(v), TRUE, v < 0, integer_base("d"), c)
       [] a.letter = "p" ->
            format_integer(unsigned_value("", a.value), FALSE, FALSE,
                           integer_base("p"), [c EXCEPT !.flags = {"#"}])
       [] OTHER ->
            format_integer(unsigned_value(a.type, a.value), FALSE, FALSE,
                           integer_base(a.letter), c)

\* vsnprintf_helper, and vsnprintf of the characters out.
vsnprintf_helper(aux, ch) ==
  [aux EXCEPT !.length = @ + 1,
              !.p = IF aux.length < aux.max_length THEN Append(@, ch) ELSE @]
vsnprintf(buf_size, out) ==
  LET aux == FoldLeft(vsnprintf_helper,
                      [p |-> <<>>, length |-> 0,
                       max_length |-> IF buf_size > 0 THEN buf_size - 1 ELSE 0], out)
  IN [buffer |-> IF buf_size > 0 THEN Append(aux.p, "\\0") ELSE aux.p,
      length |-> aux.length]

\* A program prints one thing after another.
Arg == [letter : Letter, type : Type, value : Number, text : {<<>>}]
         \cup [letter : {"s"}, type : {""}, value : {0}, text : Text]
FormatInit == arg = [letter |-> "s", type |-> "", value |-> 0, text |-> <<>>]
FormatNext == arg' \in Arg
FormatSpec == FormatInit /\ [][FormatNext]_arg
-----------------------------------------------------------------------------
\* The digits in out, in order, as numbers; the 0 of a prefix is not one.
DigitsIn(out) ==
  LET b == integer_base("x").digits \o <<"A", "B", "C", "D", "E", "F">>
      DigitOf(ch) == LET i == SelectInSeq(b, LAMBDA d : d = ch)
                     IN IF i > 16 THEN i - 7 ELSE i - 1
      x == SelectInSeq(out, LAMBDA ch : ch \in {"x", "X"})
      ds == SelectSeq(SubSeq(out, x + 1, Len(out)), LAMBDA ch : ch \in ToSet(b))
  IN [i \in DOMAIN ds |-> DigitOf(ds[i])]

\* What a reader takes out for: the number that the digits in base show.
Shown(out, base) == FoldLeft(LAMBDA n, d : base * n + d, 0, DigitsIn(out))

\* The output of a conversion in a field is what it is without a width, padded to
\* the width at the side that the flags name and no further.
Padded(a, spec, out) ==
  LET bare == vprintf(a, [spec EXCEPT !.width = 0, !.flags = @ \ {"0"}])
      n == Max({0, Abs(spec.width) - Len(bare)})
      c == parse_conversion(spec)
      left == a.letter # "p" /\ "-" \in c.flags
      zeros == a.letter \notin {"s", "p"} /\ "0" \in c.flags
  IN /\ Len(out) = Len(bare) + n
     /\ left => out = bare \o Dup(" ", n)
     /\ ~left /\ ~zeros => out = Dup(" ", n) \o bare
     /\ zeros => Cardinality({i \in DOMAIN out : out[i] = " "})
                   = Cardinality({i \in DOMAIN bare : bare[i] = " "})

\* For every argument, type, letter, flags, width and precision the output reads
\* as the argument, with a sign exactly when it is negative or one was asked
\* for, with at least as many digits as the precision asks for and the buffer
\* holds, its commas counted as digits, in its field (format_integer,
\* format_string); the buffer for the digits is large enough; and snprintf
\* stores what fits, ends it, and returns the full length.  Left out is a
\* negative width for `*' with the flag 0 (see the README).
FormatsArguments ==
  \A spec \in Conversion :
    LET out == vprintf(arg, spec)
        b == integer_base(arg.letter)
        c == parse_conversion(spec)
        is_signed == arg.letter = "d"
        v == IF is_signed THEN signed_value(arg.type, arg.value)
             ELSE unsigned_value(IF arg.letter = "p" THEN "" ELSE arg.type, arg.value)
    IN /\ arg.letter # "s" =>
            /\ Shown(out, b.base) = Abs(v)
            /\ ("-" \in ToSet(out)) = (v < 0)
            /\ ("+" \in ToSet(out)) = (is_signed /\ v >= 0 /\ "+" \in spec.flags)
            /\ Len(DigitsIn(out)) + Len(SelectSeq(out, LAMBDA ch : ch = ","))
                 >= Min({spec.precision, BUF_SIZE - 1})
            /\ Len(digit_buffer(Abs(v), b, c)) <= BUF_SIZE
       /\ arg.letter = "s" =>
            SelectSeq(out, LAMBDA ch : ch # " ")
              = SubSeq(arg.text, 1, IF spec.precision < 0 THEN Len(arg.text)
                                    ELSE Min({spec.precision, Len(arg.text)}))
       /\ ~(spec.width < 0 /\ "0" \in spec.flags) => Padded(arg, spec, out)
       /\ \A size \in {0, 1, Len(out), Len(out) + 1} :
            vsnprintf(size, out)
              = [length |-> Len(out),
                 buffer |-> IF size = 0 THEN <<>>
                            ELSE SubSeq(out, 1, size - 1) \o <<"\\0">>]
=============================================================================
