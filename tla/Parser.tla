------------------------------- MODULE Parser -------------------------------
(***************************************************************************)
(* The reflection-based parser of the configuration.  A struct type is a   *)
(* function from the names of its fields to their kinds, a struct a        *)
(* function from the names to the values.  What the file holds is a tree   *)
(* of nodes; the keys of a map are pairs of a name and its spelling, for   *)
(* which only the order of get counts: as in the struct, in lower case, or *)
(* in any other way.  Left out is what the bridge never uses: the strict   *)
(* mode, the conf tag, and fields of float and of map kind.                *)
(***************************************************************************)
EXTENDS Naturals, SequencesExt

\* The nodes of a file.  number is what strconv.Atoi makes of a text.
Bool(b) == [kind |-> "bool", b |-> b]
Number(n) == [kind |-> "int", number |-> n]
Text(s) == [kind |-> "string", text |-> s, numeric |-> FALSE, number |-> 0]
Digits(s, n) == [kind |-> "string", text |-> s, numeric |-> TRUE, number |-> n]
List(s) == [kind |-> "list", items |-> s]
Map(f) == [kind |-> "map", data |-> f]
None == [kind |-> "none"]

\* The kinds of fields.
Kind(k) == [kind |-> k]
StructKind(t) == [kind |-> "struct", type |-> t]
StructsKind(t) == [kind |-> "structs", type |-> t]

Ok(v) == [ok |-> TRUE, v |-> v]
Fail == [ok |-> FALSE]

-----------------------------------------------------------------------------
get(data, name) ==
  LET spelled == SelectSeq(<<"exact", "lower", "other">>, LAMBDA s : <<name, s>> \in DOMAIN data)
  IN IF spelled = <<>> THEN None ELSE data[<<name, spelled[1]>>]

\* Any text but "true" is false.
parseBoolean(node) ==
  CASE node.kind = "bool" -> Ok(node.b)
    [] node.kind = "string" -> Ok(node.text = "true")
    [] OTHER -> Fail

parseInt(node) ==
  IF node.kind = "int" \/ (node.kind = "string" /\ node.numeric) THEN Ok(node.number) ELSE Fail

parseString(node) == IF node.kind = "string" THEN Ok(node.text) ELSE Fail

\* An element of a list of strings.  A number is convertible to a string, too:
\* to the character of that number.
Character == "character"
Convert(node) ==
  CASE node.kind = "string" -> Ok(node.text)
    [] node.kind = "int" -> Ok(Character)
    [] OTHER -> Fail

\* All the results, if none of them is an error.
Collect(results) ==
  IF \A i \in DOMAIN results : results[i].ok THEN Ok([i \in DOMAIN results |-> results[i].v]) ELSE Fail

\* A list, or one element in its place.
Items(node) == IF node.kind = "list" THEN node.items ELSE <<node>>

parsePrimitiveArray(node) == Collect([i \in 1..Len(Items(node)) |-> Convert(Items(node)[i])])

-----------------------------------------------------------------------------
RECURSIVE ZeroValue(_)

\* What reflect.New makes.
ZeroValue(field) ==
  CASE field.kind = "bool" -> FALSE
    [] field.kind = "int" -> 0
    [] field.kind = "string" -> ""
    [] field.kind \in {"strings", "structs"} -> <<>>
    [] field.kind = "struct" -> [f \in DOMAIN field.type |-> ZeroValue(field.type[f])]

RECURSIVE parseStruct(_, _, _)

\* Mutant of parseStructs: what is not a map is passed over.
parseStructsSkips(node, type) ==
  LET maps == SelectSeq(Items(node), LAMBDA n : n.kind = "map")
  IN Collect([i \in 1..Len(maps) |-> parseStruct(maps[i].data, type, ZeroValue(StructKind(type)))])

\* Every element is filled into a new struct.
parseStructs(node, type) ==
  Collect([i \in 1..Len(Items(node)) |->
             IF Items(node)[i].kind = "map"
             THEN parseStruct(Items(node)[i].data, type, ZeroValue(StructKind(type)))
             ELSE Fail])

\* Mutant of parseStructField: a nested struct starts from zero.
parseStructFieldAnew(node, type, value) ==
  IF node.kind = "map" THEN parseStruct(node.data, type, ZeroValue(StructKind(type))) ELSE Fail

\* A nested struct is filled in place, over what it has.
parseStructField(node, type, value) ==
  IF node.kind = "map" THEN parseStruct(node.data, type, value) ELSE Fail

\* A field that the file does not have keeps its value.
parseField(node, field, value) ==
  CASE node.kind = "none" -> Ok(value)
    [] node.kind # "none" /\ field.kind = "bool" -> parseBoolean(node)
    [] node.kind # "none" /\ field.kind = "int" -> parseInt(node)
    [] node.kind # "none" /\ field.kind = "string" -> parseString(node)
    [] node.kind # "none" /\ field.kind = "strings" -> parsePrimitiveArray(node)
    [] node.kind # "none" /\ field.kind = "structs" -> parseStructs(node, field.type)
    [] node.kind # "none" /\ field.kind = "struct" -> parseStructField(node, field.type, value)

\* The loop over the fields; after an error the struct is not used.
parseStruct(data, type, config) ==
  Collect([f \in DOMAIN type |-> parseField(get(data, f), type[f], config[f])])
=============================================================================
