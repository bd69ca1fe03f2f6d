------------------------------ MODULE MCPrintf ------------------------------
(* A small instance of Printf for TLC: bytes for ints, every format of up  *)
(* to three characters over five of those printf looks at, longer ones     *)
(* with two conversions, and one of a string and 64 characters.            *)
EXTENDS Printf

Argument(c, s, d, p, zu) == [c |-> c, s |-> s, d |-> d, p |-> p, zu |-> zu]

Repeated(c, n) == [k \in 1 .. n |-> c]

(* Two strings and a character between them take 127 characters or more.   *)
MCArgument == {Argument("a", <<>>, 0, 0, 0),
               Argument("%", Repeated("a", 60) \o <<"%", "d", "b">>, -127, 160, 10),
               Argument("d", Repeated("b", 64), 10, 255, 255)}

MCFormat ==
  UNION {[1 .. n -> {"a", "%", "d", "z", "u"}] : n \in 0 .. 3} \cup
  {<<"%", x, y, "%", z>> : x, z \in {"c", "d", "s", "p"}, y \in {"a", "%"}} \cup
  {<<"%", "z", "u", "%", x, "a">> : x \in {"c", "z", "%"}} \cup
  {<<"%", "s">> \o Repeated("a", 64)}

MCArguments == {<<x, y, x>> : x, y \in MCArgument}
=============================================================================
