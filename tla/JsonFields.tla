----------------------------- MODULE JsonFields -----------------------------
(***************************************************************************)
(* The class templates json_field_base and json_struct of config/json/,   *)
(* which load a structure from a JSON document by its fields: from a      *)
(* document they must leave alone, or from one they may change (they are   *)
(* moving), when each field leaves the document to the next.  They are    *)
(* given here the structures of Configuration; a list is then an optional *)
(* array.                                                                  *)
(*                                                                         *)
(* The fields of a structure are arguments of one call, which C++ leaves   *)
(* to the compiler to order.  Forwards and backwards either of any two     *)
(* fields comes before the other once.                                    *)
(***************************************************************************)
EXTENDS Configuration

Seqs == INSTANCE SequencesExt

\* operator[] of a document that may be changed: null becomes an object, and a
\* member that is not there is added.
Indexed(j, key) ==
    CASE j.kind = "object" /\ key \in DOMAIN j.members -> j
      [] j.kind = "object" -> Object([k \in DOMAIN j.members \cup {key} |->
                                         IF k = key THEN Null ELSE j.members[k]])
      [] j.kind = "null"   -> Object([k \in {key} |-> Null])
      [] OTHER             -> j

\* The value that something loads, and the document as it leaves it.
Result(value, left) == [value |-> value, left |-> left]

RECURSIVE LoadFields(_, _, _, _)

\* The elements of a list.
LoadElements(v, type, moving, backwards) ==
    LET loaded == [i \in DOMAIN Elements(v) |-> LoadFields(Elements(v)[i], type, moving, backwards).value]
        Left(element) == LoadFields(element, type, moving, backwards).left
    IN  Result(AllOf(loaded, Array(loaded)),
               CASE v.kind = "null"   -> v
                 [] v.kind = "array"  -> Array([i \in DOMAIN v.items |-> Left(v.items[i])])
                 [] v.kind = "object" -> Object([key \in DOMAIN v.members |-> Left(v.members[key])])
                 [] OTHER             -> Left(v))

\* (Wrong on purpose: a field that may change the document looks at its member
\* before it asks whether there is one.)
StoredUnasked(j, field, moving, backwards) ==
    LET d == IF moving THEN Indexed(j, field.key) ELSE j
        v == Member(d, field.key)
        r == IF field.presence = "list" THEN LoadElements(v, field.type, moving, backwards)
             ELSE LoadFields(v, field.type, moving /\ field.presence = "optional", backwards)
    IN  IF field.presence # "required" /\ ~Contains(d, field.key) THEN Result(Nothing, d)
        ELSE IF Failed(v) THEN Result(v, d)
        ELSE Result(r.value, Object([d.members EXCEPT ![field.key] = r.left]))

\* The constructors of json_field_base from a document.  A required field is
\* loaded from an lvalue, which is left alone; a value is copied out of the
\* document in any case.
Stored(j, field, moving, backwards) ==
    LET d == IF moving /\ field.presence = "required" THEN Indexed(j, field.key) ELSE j
        v == Member(d, field.key)
        r == IF field.presence = "list" THEN LoadElements(v, field.type, moving, backwards)
             ELSE LoadFields(v, field.type, moving /\ field.presence = "optional", backwards)
    IN  IF field.presence # "required" /\ ~Contains(d, field.key) THEN Result(Nothing, d)
        ELSE IF Failed(v) THEN Result(v, d)
        ELSE Result(r.value, Object([d.members EXCEPT ![field.key] = r.left]))

RECURSIVE StoreAll(_, _, _, _)

\* The values of the fields in their order, each loaded from what is left.
StoreAll(j, fields, moving, backwards) ==
    IF fields = <<>> THEN Result(<<>>, j)
    ELSE LET first == Stored(j, Head(fields), moving, backwards)
             rest  == StoreAll(first.left, Tail(fields), moving, backwards)
         IN  Result(<<first.value>> \o rest.value, rest.left)

\* json_struct, or a conversion.
LoadFields(j, type, moving, backwards) ==
    IF type \in DOMAIN Structs
      THEN LET fields == IF backwards THEN Seqs!Reverse(Structs[type]) ELSE Structs[type]
               stored == StoreAll(j, fields, moving, backwards)
           IN  Result(Loaded(fields, stored.value), stored.left)
      ELSE Result(Convert(j, type), j)
=============================================================================
