-------------------------------- MODULE Json --------------------------------
(***************************************************************************)
(* JSON documents as nlohmann::json holds them, and what the configuration *)
(* does with one: it looks at members, and converts values to the types   *)
(* of C++.  A conversion or an access that throws yields Throws, one whose *)
(* behaviour is undefined yields Undefined.                                *)
(***************************************************************************)
EXTENDS Naturals, Sequences, FiniteSets, Functions

CONSTANT Modulus  \* of the unsigned types: what a number wraps at

ASSUME ModulusAssumption == \A type \in DOMAIN Modulus : Modulus[type] \in Nat \ {0}

Null       == [kind |-> "null"]
Bool(b)    == [kind |-> "bool", b |-> b]
Number(n)  == [kind |-> "number", n |-> n]
String(s)  == [kind |-> "string", s |-> s]
Array(q)   == [kind |-> "array", items |-> q]
Object(f)  == [kind |-> "object", members |-> f]

Fails(how) == [kind |-> "fails", how |-> how]
Throws     == Fails("throws")
Undefined  == Fails("undefined")

Failed(v) == v.kind = "fails"

Contains(j, key) == j.kind = "object" /\ key \in DOMAIN j.members

\* operator[] of a constant document: a member that is not there is undefined.
Member(j, key) ==
    IF j.kind # "object" THEN Throws
    ELSE IF key \notin DOMAIN j.members THEN Undefined
    ELSE j.members[key]

\* A range-based for: the values of an object, and any other value itself.
Elements(j) ==
    CASE j.kind = "null"   -> <<>>
      [] j.kind = "array"  -> j.items
      [] j.kind = "object" -> CHOOSE q \in [1 .. Cardinality(DOMAIN j.members) -> Range(j.members)] :
                                  Range(q) = Range(j.members)
      [] OTHER             -> <<j>>

\* The conversion to a scalar type.  An integer is cut to the width of the
\* type; only the types the library itself stores numbers in refuse a bool.
Convert(j, type) ==
    CASE type \in {"string", "bool"} /\ j.kind = type -> j
      [] type \in DOMAIN Modulus /\ j.kind = "number" -> Number(j.n % Modulus[type])
      [] type \in DOMAIN Modulus \ {"uint64"} /\ j.kind = "bool" -> Number(IF j.b THEN 1 ELSE 0)
      [] OTHER -> Throws

\* The first of the loaded values that failed, or what is made of them all.
AllOf(loaded, value) ==
    IF \E i \in DOMAIN loaded : Failed(loaded[i])
      THEN loaded[CHOOSE i \in DOMAIN loaded :
                      Failed(loaded[i]) /\ \A k \in 1 .. i - 1 : ~Failed(loaded[k])]
      ELSE value
=============================================================================
