------------------------------- MODULE Printf -------------------------------
(***************************************************************************)
(* Formatted output of lib/stdio.c.  A format is a sequence of items, each *)
(* a character that is copied or a conversion with its argument; what      *)
(* output() is called with is the resulting sequence of characters.        *)
(***************************************************************************)
EXTENDS Integers, Sequences, FiniteSets, SequencesExt

CONSTANTS
  TypeBits,     \* width of each argument type; the eight types have four
  BufSize,      \* sizeof buf in format_integer()
  per_line      \* bytes on a line of hex_dump()

ASSUME PrintfAssumption ==
  /\ \A t \in DOMAIN TypeBits : TypeBits[t] \in Nat \ {0}
  /\ BufSize \in Nat \ {0} /\ per_line \in Nat \ {0}

digits == <<"0", "1", "2", "3", "4", "5", "6", "7", "8", "9", "a", "b", "c", "d", "e", "f">>
base_d == [base |-> 10, x |-> FALSE, group |-> 3]
base_o == [base |-> 8, x |-> FALSE, group |-> 3]
base_x == [base |-> 16, x |-> TRUE, group |-> 4]

Dup(ch, cnt) == [i \in 1..(IF cnt > 0 THEN cnt ELSE 0) |-> ch]

\* Flags, width and precision as they are written or passed for a `*', which
\* may be negative.
parse_conversion(raw) ==
  LET f1 == IF "-" \in raw.flags THEN raw.flags \ {"0"} ELSE raw.flags
      f2 == IF "+" \in f1 THEN f1 \ {" "} ELSE f1
      f3 == IF raw.width < 0 THEN f2 \cup {"-"} ELSE f2
  IN [flags |-> IF raw.precision >= 0 THEN f3 \ {"0"} ELSE f3, type |-> raw.type,
      width |-> IF raw.width < 0 THEN -raw.width ELSE raw.width,
      precision |-> IF raw.precision < 0 THEN -1 ELSE raw.precision]

\* The argument, converted to its type.
UnsignedArg(v, type) == v % 2^TypeBits[type]
SignedArg(v, type) ==
  LET u == UnsignedArg(v, type) IN IF 2 * u < 2^TypeBits[type] THEN u ELSE u - 2^TypeBits[type]

\* The buffer of format_integer(), least significant digit first.
RECURSIVE Digits(_, _, _, _)
Digits(value, base, group, digit_cnt) ==
  IF value = 0 THEN <<>>
  ELSE (IF group /\ digit_cnt > 0 /\ digit_cnt % base.group = 0 THEN <<",">> ELSE <<>>)
       \o <<digits[(value % base.base) + 1]>> \o Digits(value \div base.base, base, group, digit_cnt + 1)

Buffer(value, base, c) ==
  LET buf == Digits(value, base, "'" \in c.flags, 0)
      precision == IF c.precision < 0 THEN 1 ELSE c.precision
      long == buf \o Dup("0", (IF precision < BufSize - 1 THEN precision ELSE BufSize - 1) - Len(buf))
  IN IF "#" \in c.flags /\ base.base = 8 /\ (long = <<>> \/ Last(long) # "0")
     THEN long \o <<"0">> ELSE long

format_integer(value, is_signed, negative, base, c) ==
  LET sign == IF ~is_signed THEN <<>>
              ELSE IF negative THEN <<"-">>
              ELSE IF "+" \in c.flags THEN <<"+">>
              ELSE IF " " \in c.flags THEN <<" ">> ELSE <<>>
      x == IF "#" \in c.flags /\ value # 0 /\ base.x THEN <<"0", "x">> ELSE <<>>
      buf == Buffer(value, base, c)
      pad_cnt == c.width - Len(buf) - Len(x) - Len(sign)
  IN (IF c.flags \cap {"-", "0"} = {} THEN Dup(" ", pad_cnt) ELSE <<>>)
     \o sign \o x
     \o (IF "0" \in c.flags THEN Dup("0", pad_cnt) ELSE <<>>)
     \o Reverse(buf)
     \o (IF "-" \in c.flags THEN Dup(" ", pad_cnt) ELSE <<>>)

format_string(string, c) ==
  LET pad == Dup(" ", c.width - Len(string))
  IN IF "-" \in c.flags THEN string \o pad ELSE pad \o string

\* The switch of __vprintf() on the conversion character.  A string is its
\* length, or NullString; %X differs from %x in the case of its digits only.
\* A conversion that the kernel does not support is replaced by a notice.
NullString == -1
Convert(i) ==
  LET c == parse_conversion(i)
      s == SignedArg(i.arg, c.type)
      u == UnsignedArg(i.arg, c.type)
      length == IF i.arg = NullString THEN 6 ELSE i.arg
  IN CASE i.conv = "d" -> format_integer(IF s < 0 THEN -s ELSE s, TRUE, s < 0, base_d, c)
       [] i.conv = "u" -> format_integer(u, FALSE, FALSE, base_d, c)
       [] i.conv = "o" -> format_integer(u, FALSE, FALSE, base_o, c)
       [] i.conv \in {"x", "X"} -> format_integer(u, FALSE, FALSE, base_x, c)
       [] i.conv = "p" -> format_integer(UnsignedArg(i.arg, "INT"), FALSE, FALSE, base_x,
                                         [c EXCEPT !.flags = {"#"}])
       [] i.conv = "c" -> format_string(<<i.arg>>, c)
       [] i.conv = "s" -> format_string(Dup("s", IF c.precision < 0 \/ length < c.precision
                                                THEN length ELSE c.precision), c)
       [] OTHER -> <<"<", "<", "n", "o", i.conv, ">", ">">>

Vprintf(format) == FlattenSeq([i \in 1..Len(format) |->
                     IF format[i].conv = "copy" THEN <<format[i].arg>> ELSE Convert(format[i])])

\* vsnprintf(): what is left in the buffer before the terminator, and the
\* value; helper() counts every character and stores those that fit.
vsnprintf_helper(aux, ch) ==
  [aux EXCEPT !.length = @ + 1,
              !.text = IF aux.length < aux.max_length THEN Append(@, ch) ELSE @]
vsnprintf(buf_size, format) ==
  FoldLeft(vsnprintf_helper, [text |-> <<>>, length |-> 0,
                              max_length |-> IF buf_size > 0 THEN buf_size - 1 ELSE 0],
           Vprintf(format))

\* The lines of hex_dump(): an address and what is in each column, 0 for a
\* blank or k for the k-th byte.
RECURSIVE hex_dump(_, _, _)
hex_dump(ofs, size, done) ==
  LET start == ofs % per_line
      end   == IF per_line - start > size THEN start + size ELSE per_line
  IN IF size = 0 THEN <<>>
     ELSE <<[addr |-> ofs - start,
             cols |-> [i \in 1..per_line |-> IF i > start /\ i <= end THEN done + i - start ELSE 0]]>>
          \o hex_dump(ofs + end - start, size - (end - start), done + end - start)
-----------------------------------------------------------------------------
\* Reading an integer back: blanks, commas, sign and 0x are skipped.
DigitOf(ch) == (CHOOSE i \in 1..16 : digits[i] = ch) - 1
Plain(out) == SelectSeq(out, LAMBDA ch : ch \notin {" ", ",", "-", "+", "x"})
ReadBack(out, base) ==
  LET n == FoldLeft(LAMBDA v, ch : v * base + DigitOf(ch), 0, Plain(out))
  IN IF "-" \in ToSet(out) THEN -n ELSE n

\* An integer is printed so that it reads back as the argument has it, with
\* the digits of the precision as far as the buffer has room for them, and
\* fills its field exactly.  The buffer is never overrun, even when the
\* precision fills it and the flag # asks for one more digit.  (Left out: the
\* flags - and 0 together, which a negative `*' width can bring about, and with
\* which the field is padded on both sides.)
IntegerRight(i) ==
  LET c == parse_conversion(i)
      type == IF i.conv = "p" THEN "INT" ELSE c.type
      base == CASE i.conv = "o" -> 8 [] i.conv \in {"x", "X", "p"} -> 16 [] OTHER -> 10
      natural == Convert([i EXCEPT !.width = 0, !.flags = @ \ {"0"}])
      room == IF c.precision < BufSize - 1 THEN c.precision ELSE BufSize - 1
  IN /\ ReadBack(Convert(i), base) = IF i.conv = "d" THEN SignedArg(i.arg, type) ELSE UnsignedArg(i.arg, type)
     /\ "'" \notin c.flags => Len(Plain(natural)) >= room
     /\ ~{"-", "0"} \subseteq c.flags =>
          Len(Convert(i)) = IF c.width > Len(natural) THEN c.width ELSE Len(natural)
     /\ \A b \in {base_d, base_o, base_x} : Len(Buffer(UnsignedArg(i.arg, type), b, c)) <= BufSize

\* vsnprintf() never writes past the buffer and tells the length of the whole.
BufferRight(buf_size, format) ==
  LET r == vsnprintf(buf_size, format)
      whole == Vprintf(format)
  IN /\ r.length = Len(whole)
     /\ r.text = SubSeq(whole, 1, IF buf_size = 0 THEN 0
                                  ELSE IF Len(whole) < buf_size THEN Len(whole) ELSE buf_size - 1)

\* hex_dump() shows every byte once, in order, in the column of its address.
DumpRight(ofs, size) ==
  LET lines == hex_dump(ofs, size, 0)
      cells == {<<l, k>> : l \in 1..Len(lines), k \in 1..per_line}
      byte(cell) == lines[cell[1]].cols[cell[2]]
  IN /\ \A n \in 1..size : Cardinality({cell \in cells : byte(cell) = n}) = 1
     /\ \A cell \in cells : byte(cell) # 0 =>
          lines[cell[1]].addr + cell[2] - 1 = ofs + byte(cell) - 1
     /\ \A l \in 1..Len(lines) : lines[l].addr % per_line = 0

=============================================================================
