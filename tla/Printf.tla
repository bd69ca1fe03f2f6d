------------------------------- MODULE Printf -------------------------------
(***************************************************************************)
(* printf of src/libc/stdio/printf.c: what it sends to putchar, character  *)
(* by character, and what it returns.  putchar never fails.                *)
(*                                                                         *)
(* A format is the sequence of its characters.  An argument is the record  *)
(* of what it is as each type va_arg may read it for.                      *)
(***************************************************************************)
EXTENDS Integers, Sequences

CONSTANTS
  INT_MAX,     (* 2^31 - 1                                                 *)
  Nibbles,     (* 8: half bytes of a pointer                               *)
  InFormat,    (* bound: the formats printed                               *)
  InArguments  (* bound: the sequences of arguments they are printed with  *)

VARIABLES
  running,     (* is a call in its loop?                                   *)
  format,      (* what of it is left                                       *)
  parameters,  (* the arguments va_arg has not read                        *)
  written,
  sent,        (* what putchar was given since the call began              *)
  returned,    (* what the last call returned                              *)
  given        (* history: what the call was given                         *)

printf_vars == <<running, format, parameters, written, sent, returned, given>>

INT_MIN == -INT_MAX - 1

(* What an argument is as an int read for %c, a string, an int, a pointer  *)
(* and a size_t.                                                           *)
Arg == [c : STRING, s : Seq(STRING), d : INT_MIN .. INT_MAX, p : Nat, zu : Nat]

ASSUME PrintfAssumption ==
  /\ INT_MAX \in Nat \ {0} /\ Nibbles \in Nat \ {0}
  /\ InFormat \subseteq Seq(STRING) /\ InArguments \subseteq Seq(Arg)

(* From eight below '0' up to '9', as in ASCII; the digits of %p.          *)
Ascii    == <<"(", ")", "*", "+", ",", "-", ".", "/",
              "0", "1", "2", "3", "4", "5", "6", "7", "8", "9">>
HexDigit == <<"0", "1", "2", "3", "4", "5", "6", "7", "8", "9",
              "a", "b", "c", "d", "e", "f">>

(* Division and remainder of C.                                            *)
Quotient(n)  == IF n < 0 THEN -((-n) \div 10) ELSE n \div 10
Remainder(n) == n - 10 * Quotient(n)

(* An int wraps.                                                           *)
Wrapped(n) == INT_MIN + ((n - INT_MIN) % (2 * (INT_MAX + 1)))

(* The digits, written from the last to the first while a quotient is left.*)
Decimal(n) ==
  LET digits[k \in Int] ==
        Append(IF Quotient(k) > 0 THEN digits[Quotient(k)] ELSE <<>>, Ascii[Remainder(k) + 9])
  IN digits[n]

Signed(n) == IF n < 0 THEN <<"-">> \o Decimal(Wrapped(-n)) ELSE Decimal(n)

Power(b, n) ==
  LET power[k \in 0 .. n] == IF k = 0 THEN 1 ELSE b * power[k - 1]
  IN power[n]

Pointer(n) == <<"0", "x">> \o
  [i \in 1 .. Nibbles |-> HexDigit[1 + ((n \div Power(16, Nibbles - i)) % 16)]]

-----------------------------------------------------------------------------
(* The turns of its loop.                                                  *)

Begins(f, text) == Len(text) <= Len(f) /\ SubSeq(f, 1, Len(text)) = text
Drop(f, n)      == SubSeq(f, n + 1, Len(f))

(* Slip: the room is that of an empty line.                                *)
RoomAlways == INT_MAX

(* maxrem, of type size_t.                                                 *)
Room == (INT_MAX - written) % (2 * (INT_MAX + 1))

(* The text of a turn is sent; n characters of the format and so many      *)
(* arguments are done with.                                                *)
Sends(text, n, read) ==
  /\ sent' = sent \o text /\ written' = Wrapped(written + Len(text))
  /\ format' = Drop(format, n) /\ parameters' = Drop(parameters, read)
  /\ UNCHANGED <<running, returned, given>>

Fails ==
  /\ running' = FALSE /\ returned' = -1
  /\ UNCHANGED <<format, parameters, written, sent, given>>

Checks(text, n, read) ==
  \/ Len(text) <= Room /\ Sends(text, n, read)
  \/ Len(text) > Room /\ Fails

Conversion(conv) == running /\ Begins(format, <<"%">> \o conv)

(* amount: as far as the next '%' that is not the first character.         *)
Amount(f) ==
  CHOOSE n \in 1 .. Len(f) :
    /\ n = Len(f) \/ f[n + 1] = "%"
    /\ \A k \in 1 .. n - 1 : f[k + 1] # "%"

Literal(f, skipped) == Checks(SubSeq(f, 1, Amount(f)), skipped + Amount(f), 0)

PrintsLiteral ==
  \/ /\ running /\ format # <<>> /\ ~Begins(format, <<"%">>)
     /\ Literal(format, 0)
  \/ /\ Conversion(<<"%">>)
     /\ Literal(Tail(format), 1)

PrintsC  == Conversion(<<"c">>) /\ Checks(<<Head(parameters).c>>, 2, 1)
PrintsS  == Conversion(<<"s">>) /\ Checks(Head(parameters).s, 2, 1)
PrintsD  == Conversion(<<"d">>) /\ Checks(Signed(Head(parameters).d), 2, 1)
PrintsP  == Conversion(<<"p">>) /\ Sends(Pointer(Head(parameters).p), 2, 1)
PrintsZu == Conversion(<<"z", "u">>) /\ Sends(Decimal(Head(parameters).zu), 3, 1)

Conversions == {<<"c">>, <<"s">>, <<"d">>, <<"p">>, <<"z", "u">>}

(* Any other conversion: the rest of the format as it is.                  *)
PrintsRest ==
  /\ Conversion(<<>>) /\ \A conv \in Conversions \cup {<<"%">>} : ~Conversion(conv)
  /\ Checks(format, Len(format), 0)

Returns ==
  /\ running /\ format = <<>>
  /\ running' = FALSE /\ returned' = written
  /\ UNCHANGED <<format, parameters, written, sent, given>>

printf(f, args) ==
  /\ ~running /\ running' = TRUE
  /\ format' = f /\ parameters' = args /\ given' = [format |-> f, args |-> args]
  /\ written' = 0 /\ sent' = <<>>
  /\ UNCHANGED returned

PrintfInit ==
  /\ running = FALSE /\ format = <<>> /\ parameters = <<>> /\ written = 0 /\ sent = <<>>
  /\ returned = 0 /\ given = [format |-> <<>>, args |-> <<>>]

PrintfNext ==
  \/ PrintsLiteral \/ PrintsC \/ PrintsS \/ PrintsD \/ PrintsP \/ PrintsZu \/ PrintsRest
  \/ Returns
  \/ \E f \in InFormat, args \in InArguments : printf(f, args)

PrintfSpec == PrintfInit /\ [][PrintfNext]_printf_vars

-----------------------------------------------------------------------------
(* What a format stands for, a character at a time.                        *)

(* The numeral of a natural number: its length is the least that will do.  *)
Numeral(n) ==
  LET len == CHOOSE k \in 1 .. n + 1 : n < Power(10, k) /\ (k = 1 \/ Power(10, k - 1) <= n)
  IN [i \in 1 .. len |-> HexDigit[1 + ((n \div Power(10, len - i)) % 10)]]

Spelled(conv, arg) ==
  CASE conv = <<"c">>      -> <<arg.c>>
    [] conv = <<"s">>      -> arg.s
    [] conv = <<"d">>      -> IF arg.d < 0 THEN <<"-">> \o Numeral(-arg.d) ELSE Numeral(arg.d)
    [] conv = <<"p">>      -> Pointer(arg.p)
    [] conv = <<"z", "u">> -> Numeral(arg.zu)

(* The piece of f at its i-th character: the text it stands for once k     *)
(* arguments are read, and the characters and arguments it takes.          *)
Piece(f, i, args, k) ==
  LET rest  == Drop(f, i)
      convs == {c \in Conversions : Begins(rest, c)}
      conv  == CHOOSE c \in convs : TRUE
  IN CASE f[i] # "%" -> [text |-> <<f[i]>>, length |-> 1, read |-> 0]
       [] f[i] = "%" /\ Begins(rest, <<"%">>) -> [text |-> <<"%">>, length |-> 2, read |-> 0]
       [] f[i] = "%" /\ convs # {} ->
            [text |-> Spelled(conv, args[k + 1]), length |-> 1 + Len(conv), read |-> 1]
       [] OTHER -> [text |-> Drop(f, i - 1), length |-> Len(f) + 1 - i, read |-> 0]

(* The text of all its pieces, and the number of arguments they read.      *)
Stands(f, args) ==
  LET from[i \in 1 .. Len(f) + 1] ==
        [k \in Nat |->
           IF i > Len(f) THEN [text |-> <<>>, read |-> k]
           ELSE LET piece == Piece(f, i, args, k)
                    rest  == from[i + piece.length][k + piece.read]
                IN [text |-> piece.text \o rest.text, read |-> rest.read]]
  IN from[1][0]

(* A call gives an argument to each conversion, as C asks.                 *)
ASSUME SuppliedAssumption ==
  \A f \in InFormat, args \in InArguments : Stands(f, args).read <= Len(args)

(* The ints whose opposite is one.                                         *)
Negatable(args) == \A k \in DOMAIN args : args[k].d # INT_MIN

(* The conversions whose room is not checked.                              *)
Unchecked(f) ==
  \E i \in DOMAIN f : Begins(Drop(f, i - 1), <<"%", "p">>)
                           \/ Begins(Drop(f, i - 1), <<"%", "z", "u">>)

(* printf sends the text its format stands for, whatever chunks it cuts the*)
(* format into, and returns its length; a text longer than an int counts   *)
(* is refused with -1 before more than that is sent, and what was sent is  *)
(* its beginning.                                                          *)
PrintsText ==
  LET text == Stands(given.format, given.args).text
  IN Negatable(given.args) =>
       /\ Begins(text, sent)
       /\ ~Unchecked(given.format) => Len(sent) <= INT_MAX
       /\ ~running /\ Len(text) <= INT_MAX => sent = text /\ returned = Len(text)
       /\ ~running /\ Len(text) > INT_MAX /\ ~Unchecked(given.format) => returned = -1
=============================================================================
