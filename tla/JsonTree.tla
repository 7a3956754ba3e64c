------------------------------- MODULE JsonTree -------------------------------
(***************************************************************************)
(* The tree of JSON values (json/jstree.cpp, json_tree.h), in the hands of *)
(* a user who parses a text, builds values, and sets, removes and copies   *)
(* them.                                                                   *)
(*                                                                         *)
(* A value is <<type, payload>>: an array's payload is the sequence of its *)
(* values, an object's that of its pairs <<key, value>>, in their order.   *)
(* NoValue is a null pointer.  The functions that change a container give  *)
(* an error, the container afterwards, and what they add to the heap: a    *)
(* value is one block, and a key another; true, false and null are none.   *)
(* Allocations do not fail.                                                *)
(***************************************************************************)
EXTENDS JsonText

CONSTANTS Texts,     \* texts to parse, from position 0
          Leaves,    \* values without entries
          Keys,      \* keys, and segments of paths
          MaxPos,    \* bound: positions in an array
          MaxNodes   \* bound: heap blocks, in a tree and in all

VARIABLES
    root,      \* the tree
    held,      \* a value the user has created and not given away
    heap,      \* blocks allocated and not freed
    replaced   \* ArraySet() wrote over an entry, or removed one

vars == <<root, held, heap, replaced>>

NoValue == <<"none", <<>>>>
Null == <<"null", <<>>>>
Array(seq) == <<"array", seq>>
Object(seq) == <<"object", seq>>
Type(v) == v[1]
IsContainer(v) == Type(v) \in {"array", "object"}

Size(v) == Len(v[2])
Entry(v, i) == IF Type(v) = "object" THEN v[2][i][2] ELSE v[2][i]
WithEntry(v, i, new) ==
    IF Type(v) = "object" THEN <<v[1], [v[2] EXCEPT ![i][2] = new]>>
                          ELSE <<v[1], [v[2] EXCEPT ![i] = new]>>

(* The blocks that DeleteValue() frees.                                    *)
RECURSIVE Blocks(_)
Blocks(v) ==
    CASE IsContainer(v) ->
           LET keys == IF Type(v) = "object" THEN Size(v) ELSE 0
           IN  1 + keys + FoldLeft(LAMBDA n, i : n + Blocks(Entry(v, i)), 0,
                                   [i \in 1..Size(v) |-> i])
      [] Type(v) \in {"string", "number"} -> 1
      [] OTHER -> 0

RECURSIVE HasHole(_)
HasHole(v) ==
    \/ v = NoValue
    \/ IsContainer(v) /\ \E i \in 1..Size(v) : HasHole(Entry(v, i))

Ok(v, delta) == [err |-> "ok", val |-> v, delta |-> delta]
Fail(err, v) == [err |-> err, val |-> v, delta |-> 0]

-----------------------------------------------------------------------------
(* containers *)

(* ArraySet() at a position from 0.  Without a value the entry is removed, *)
(* and then the last of those that are left cleared; when none is left it  *)
(* is the word in front of the array, and what follows is undefined and    *)
(* not followed.  A value put over an entry cuts the array off behind it,  *)
(* and frees nothing.                                                      *)
ArraySet(a, pos, v) ==
    LET n == Size(a)
        left == RemoveAt(a[2], pos + 1)
        padded == [i \in 1..pos |-> IF i <= n THEN a[2][i] ELSE Null]
    IN  IF Type(a) # "array" THEN Fail("EINVAL", a)
        ELSE IF v = NoValue
             THEN IF pos >= n THEN Fail("ENOENT", a)
                  ELSE IF n = 1 THEN Fail("undefined", a)
                  ELSE Ok(Array(Append(Front(left), NoValue)), 0 - Blocks(a[2][pos + 1]))
             ELSE Ok(Array(Append(padded, v)), 0)

(* MUTANT: the old value of the key is not freed.                          *)
FreedNone(v) == 0

(* DeleteValue().                                                          *)
Freed(v) == Blocks(v)

KeyAt(o, key) == {i \in 1..Size(o) : o[2][i][1] = key}

(* ObjectSetInternal().  Without a value a key is removed, and one that is *)
(* missing is added with a null pointer.                                   *)
ObjectSetInternal(o, key, v, add) ==
    LET found == IF add THEN {} ELSE KeyAt(o, key)
        i == Min(found)
    IN  IF Type(o) # "object" THEN Fail("EINVAL", o)
        ELSE IF found = {} THEN Ok(Object(Append(o[2], <<key, v>>)), 1)
        ELSE IF v = NoValue
             THEN Ok(Object(RemoveAt(o[2], i)), 0 - Freed(Entry(o, i)) - 1)
             ELSE Ok(WithEntry(o, i, v), 0 - Freed(Entry(o, i)))

(* ReadUintFromPath(): an index has at least one digit.                    *)
PathIndex(seg) == IF seg = <<>> THEN {} ELSE ReadUint(seg)

(* LookupSegment(): the position of the segment's entry, from 1.           *)
TreeSegment(v, seg) ==
    CASE Type(v) = "object" -> IF KeyAt(v, seg) = {} THEN {} ELSE {Min(KeyAt(v, seg))}
      [] Type(v) = "array" -> {i + 1 : i \in {j \in PathIndex(seg) : j < Size(v)}}
      [] OTHER -> {}

(* A segment that is not found, rather than one that cannot be looked up.  *)
NoEntry(v, seg) ==
    \/ Type(v) = "object" /\ KeyAt(v, seg) = {}
    \/ Type(v) = "array" /\ \E i \in PathIndex(seg) : i >= Size(v)

(* PathGet(): the value at a path of a container.                          *)
PathGet(v, path) ==
    IF IsContainer(v)
    THEN FoldLeft(LAMBDA vs, seg :
                      UNION {{Entry(w, i) : i \in TreeSegment(w, seg)} : w \in vs}, {v}, path)
    ELSE {}

(* The tree with another value at a path it has.                           *)
Update(v, path, new) ==
    LET node(k) == CHOOSE w \in PathGet(v, SubSeq(path, 1, k)) : TRUE
        up[k \in 0..Len(path)] ==
            IF k = Len(path) THEN new
            ELSE WithEntry(node(k), CHOOSE i \in TreeSegment(node(k), path[k + 1]) : TRUE,
                           up[k + 1])
    IN  up[0]

(* CreatePathObjects(): containers for all segments but the first, from    *)
(* the last one up, and an entry for the first.                            *)
CreatePathObjects(c, path, v) ==
    LET wrap(seg, w) == IF PathIndex(seg) # {}
                        THEN ArraySet(Array(<<>>), CHOOSE i \in PathIndex(seg) : TRUE, w.val)
                        ELSE ObjectSetInternal(Object(<<>>), seg, w.val, FALSE)
        inner == FoldRight(LAMBDA seg, w : Ok(wrap(seg, w).val, w.delta + wrap(seg, w).delta + 1),
                           Tail(path), Ok(v, 0))
        outer == IF Type(c) = "object"
                 THEN ObjectSetInternal(c, Head(path), inner.val, FALSE)
                 ELSE ArraySet(c, CHOOSE i \in PathIndex(Head(path)) : TRUE, inner.val)
    IN  [outer EXCEPT !.delta = @ + inner.delta]

(* PathSet(): in place of the value that is there, or created.             *)
PathSet(v, path, new) ==
    LET depth == Max({k \in 0..Len(path) : PathGet(v, SubSeq(path, 1, k)) # {}})
        there == SubSeq(path, 1, depth)
        at == CHOOSE w \in PathGet(v, there) : TRUE
        made == CreatePathObjects(at, SubSeq(path, depth + 1, Len(path)), new)
    IN  IF ~IsContainer(v) THEN Fail("EINVAL", v)
        ELSE IF depth = Len(path) THEN Ok(Update(v, path, new), 0 - Freed(at))
        ELSE IF NoEntry(at, path[depth + 1]) THEN Ok(Update(v, there, made.val), made.delta)
        ELSE Fail("EINVAL", v)

(* CloneValue(), through ObjectSet(): of a key's pairs the last value      *)
(* stays, at the place of the first.                                       *)
RECURSIVE CloneValue(_)
CloneValue(v) ==
    CASE Type(v) = "array" -> Array([i \in 1..Size(v) |-> CloneValue(Entry(v, i))])
      [] Type(v) = "object" ->
           FoldLeft(LAMBDA o, p : ObjectSetInternal(o, p[1], CloneValue(p[2]), FALSE).val,
                    Object(<<>>), v[2])
      [] OTHER -> v

-----------------------------------------------------------------------------
(* texts *)

(* What is read of a container's entries: an entry that cannot be read     *)
(* fails the whole.                                                        *)
AllOf(sets) ==
    IF \E i \in DOMAIN sets : sets[i] = {} THEN {}
    ELSE {[i \in DOMAIN sets |-> CHOOSE v \in sets[i] : TRUE]}

ReadEntries(entries, Read(_)) == AllOf([k \in DOMAIN entries |-> Read(entries[k])])

(* ReadValue(): a container has the entries up to the first malformed one. *)
ReadValue(s, id) ==
    LET read[i \in 0..Len(s)] ==
            CASE GetType(s, i) = "object" ->
                   IF EnumInit(s, i, "{") = Error THEN {}
                   ELSE {Object(ps) : ps \in ReadEntries(Members(s, i), LAMBDA m :
                            {<<key, v>> : key \in GetKey(s, m[1]), v \in read[m[2]]})}
              [] GetType(s, i) = "array" ->
                   IF EnumInit(s, i, "[") = Error THEN {}
                   ELSE {Array(vs) : vs \in ReadEntries(Elements(s, i), LAMBDA e : read[e])}
              [] GetType(s, i) = "string" -> {<<"string", t>> : t \in GetString(s, i)}
              [] GetType(s, i) = "number" -> {<<"number", t>> : t \in GetJSON(s, i)}
              [] GetType(s, i) = "bool" ->
                   IF i + 1 < Len(s) /\ At(s, i + 1) \in Word THEN {}
                   ELSE {<<"bool", <<At(s, i)>>>>}
              [] GetType(s, i) = "null" -> {Null}
              [] OTHER -> {}
    IN  read[id]

ParseJSON(s) == ReadValue(s, 0)

(* SerializeValue(), after what the generator has put out.                 *)
RECURSIVE SerializeValue(_, _)
SerializeValue(out, v) ==
    CASE Type(v) = "array" ->
           Append(FoldLeft(SerializeValue, Begin(out, "["), v[2]), "]")
      [] Type(v) = "object" ->
           Append(FoldLeft(LAMBDA o, p : SerializeValue(PutKey(o, p[1]), p[2]),
                           Begin(out, "{"), v[2]), "}")
      [] Type(v) = "string" -> PutString(out, v[2])
      [] Type(v) \in {"number", "bool"} -> PutWord(out, v[2])
      [] OTHER -> PutWord(out, <<"null">>)

Serialize(v) == SerializeValue(<<>>, v)

-----------------------------------------------------------------------------
(* the user *)

(* Where the tree has containers: up to two segments down.                 *)
Paths == {<<>>} \union {<<k>> : k \in Keys} \union {<<k, l>> : k, l \in Keys}
Containers == {p \in Paths : \E v \in PathGet(root, p) : IsContainer(v)}
ValueAt(p) == CHOOSE v \in PathGet(root, p) : TRUE

TypeOK ==
    /\ Type(root) \in {"array", "object", "string", "number", "bool", "null", "none"}
    /\ heap \in Nat /\ replaced \in BOOLEAN

Init == root = NoValue /\ held = NoValue /\ heap = 0 /\ replaced = FALSE

(* A tree with a null pointer in it is only good for DeleteValue().        *)
Usable == ~HasHole(root)

(* The bound on what is allocated, with what was lost.                     *)
Room == heap < MaxNodes

Parse(s) ==
    /\ root = NoValue /\ Room
    /\ \E v \in ParseJSON(s) : root' = v /\ heap' = heap + Blocks(v)
    /\ UNCHANGED <<held, replaced>>

Create(v) ==
    /\ held = NoValue /\ Room
    /\ held' = v /\ heap' = heap + Blocks(v)
    /\ UNCHANGED <<root, replaced>>

Clone ==
    /\ held = NoValue /\ Usable /\ Room /\ 2 * Blocks(root) <= MaxNodes
    /\ held' = CloneValue(root) /\ heap' = heap + Blocks(CloneValue(root))
    /\ UNCHANGED <<root, replaced>>

DeleteRoot ==
    /\ root # NoValue
    /\ root' = NoValue /\ heap' = heap - Freed(root)
    /\ UNCHANGED <<held, replaced>>

(* The container at p is changed; a value it took is the user's no more.   *)
Apply(p, result, v) ==
    /\ result.err = "ok"
    /\ root' = Update(root, p, result.val)
    /\ Blocks(root') <= MaxNodes
    /\ heap' = heap + result.delta
    /\ held' = IF v = NoValue THEN held ELSE NoValue

Values == {NoValue, held}

SetArray(p, pos, v) ==
    /\ Usable /\ Apply(p, ArraySet(ValueAt(p), pos, v), v)
    /\ replaced' = (replaced \/ pos < Size(ValueAt(p)))

SetObject(p, key, v, add) ==
    /\ Usable /\ Apply(p, ObjectSetInternal(ValueAt(p), key, v, add), v)
    /\ UNCHANGED replaced

SetPath(path) ==
    /\ held # NoValue /\ Usable
    /\ Apply(<<>>, PathSet(root, path, held), held)
    /\ UNCHANGED replaced

Next ==
    \/ \E s \in Texts : Parse(s)
    \/ \E v \in Leaves : Create(v)
    \/ Clone \/ DeleteRoot
    \/ \E p \in Containers, pos \in 0..MaxPos, v \in Values : SetArray(p, pos, v)
    \/ \E p \in Containers, key \in Keys, v \in Values, add \in BOOLEAN : SetObject(p, key, v, add)
    \/ \E path \in Paths \ {<<>>} : SetPath(path)

Spec == Init /\ [][Next]_vars

-----------------------------------------------------------------------------
(* What is written is read back: the parser and the generator agree on     *)
(* separators, nesting, escapes and the order of duplicate keys.           *)
RoundTrip == (root # NoValue /\ Usable) => ParseJSON(Serialize(root)) = {root}

(* A lookup in the text and one in the tree find the same value, unless a  *)
(* segment is empty (index 0 in the text, an error in the tree) or a key   *)
(* ends in a character that is escaped (never found in the text).          *)
LookupsAgree ==
    LET text == Serialize(root)
        plain(seg) == seg # <<>> /\ \A c \in DOMAIN Escapes : Last(seg) # Escapes[c]
    IN  (root # NoValue /\ Usable) =>
            \A path \in Paths \ {<<>>} : (\A k \in DOMAIN path : plain(path[k])) =>
                PathGet(root, path) = UNION {ReadValue(text, i) : i \in Lookup(text, 0, path)}

(* Every block is in the tree or the user's, and freed once: values change *)
(* hands with every call that takes them.  ArraySet() on an entry that is  *)
(* there is the exception: it frees nothing and loses what it cuts off.    *)
HeapAccounted ==
    ~replaced => heap = Blocks(root) + Blocks(held)

(* The fact about numbers, looked at before the user's first call.         *)
AtFirst == root = NoValue /\ held = NoValue /\ ~replaced

(* The promise about overflow, which the code does not keep.               *)
OverflowReported == AtFirst => OverflowRefused

=============================================================================
