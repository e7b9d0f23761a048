---------------------------- MODULE Preprocessor ----------------------------
(***************************************************************************)
(* What the two compiler probes, CMakeCCompilerId.c and                    *)
(* CMakeCXXCompilerId.cpp, have in common: they ask which macros the       *)
(* compiler predefines, through chains of #if .. #elif in which the first  *)
(* condition that holds decides, and spell numbers as characters.          *)
(***************************************************************************)
EXTENDS Integers, Sequences, SequencesExt

VARIABLE macro   \* the macros the compiler predefines, each with its value

Has(x) == x \in DOMAIN macro
AnyOf(S) == S \cap DOMAIN macro # {}
AllOf(S) == S \subseteq DOMAIN macro

\* In a condition a name that is no macro stands for 0.
Val(x) == IF Has(x) THEN macro[x] ELSE 0

\* A branch of a chain: what it decides, its condition, and the version
\* components MAJOR, MINOR, PATCH and TWEAK that it defines.
Branch(id, test, version) == [id |-> id, test |-> test, version |-> version]
When(id, test) == Branch(id, test, <<>>)
Named(id, S) == When(id, AnyOf(S))
Otherwise(id) == When(id, TRUE)
First(chain) == chain[SelectInSeq(chain, LAMBDA b : b.test)]

\* The macros DEC and HEX: eight characters '0' + digit, so that a hexadecimal
\* digit above nine is a character beyond '9'.
Dec(n) == [i \in 1..8 |-> 48 + ((n \div 10^(8 - i)) % 10)]
Hex(n) == [i \in 1..8 |-> 48 + ((n \div 16^(8 - i)) % 16)]

Decs(s) == [i \in DOMAIN s |-> Dec(s[i])]
Hexs(s) == [i \in DOMAIN s |-> Hex(s[i])]
Parts(s) == [i \in DOMAIN s |-> Dec(Val(s[i]))]

\* A component that is not defined is <<>>, which no number is spelt as.
IfDefined(x) == IF Has(x) THEN Dec(Val(x)) ELSE <<>>

\* x/a, x/b % (a/b) and x % b: the layouts VRP, VVRRPP, VRRPPPP and the like.
Layout(x, a, b) == <<x \div a, (x \div b) % (a \div b), x % b>>
Byte(x, n) == (x \div 256^n) % 256

\* The nested #ifdefs of info_version and info_simulate_version: a component
\* is shown only if all those before it are defined.
Shown(v) ==
  SubSeq(v, 1, SelectInSeq(Append(v, <<>>), LAMBDA d : d = <<>>) - 1)
=============================================================================
