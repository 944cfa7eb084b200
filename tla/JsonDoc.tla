------------------------------- MODULE JsonDoc -------------------------------
(***************************************************************************)
(* A document seen as JSON, and json_doc, the copy of that JSON which the  *)
(* document keeps beside it for json_const_ref.  The json_ functions edit  *)
(* both, the other functions the document only; receiving changes makes    *)
(* the copy anew.                                                          *)
(*                                                                         *)
(* JSON values are records with a tag; numbers are those of Width bits, of *)
(* which a document keeps the signed ones.  objects[id] is the visible     *)
(* content of an object, the root being 1: an item is a scalar or refers   *)
(* to an object.  Objects that were deleted or overwritten stay.           *)
(***************************************************************************)
EXTENDS Integers, FiniteSets, SequencesExt

CONSTANTS
    Path,       \* JSON paths: sequences of tokens, "" being the empty one
    Keys,       \* keys of maps
    Number,     \* the tokens std::stol takes for a number: a function to these numbers
    Canonical,  \* those of them that are written as the JSON library expects an index
    Values,     \* JSON values
    Width,      \* 64 in the code
    MaxObjects, \* bound: objects that were ever made
    MaxItems    \* bound: items of an object

VARIABLES
    objects,  \* what the operations of the document show
    json_doc,
    apart     \* a call that json_doc does not follow was made since it was last made anew

vars == <<objects, json_doc, apart>>

ROOT == 1

Null         == [tag |-> "null"]
JsonNumber(n) == [tag |-> "number", number |-> n]
Map(items)   == [tag |-> "map", map |-> items]
List(items)  == [tag |-> "list", list |-> items]
Ref(id)      == [tag |-> "ref", ref |-> id]
Key(token)   == [tag |-> "key", key |-> token]
Index(i)     == [tag |-> "index", index |-> i]

EmptyMap == Map(<<>>)
With(map, key, item)  == [k \in DOMAIN map \cup {key} |-> IF k = key THEN item ELSE map[k]]
Without(map, key)     == [k \in DOMAIN map \ {key} |-> map[k]]
-----------------------------------------------------------------------------
(* From the document to JSON *)

\* map_to_json, list_to_json, scalar_to_json
RECURSIVE ItemToJson(_, _)
ItemToJson(objs, item) ==
    LET object == objs[item.ref]
    IN  CASE item.tag # "ref"     -> item
          [] object.tag = "map"  -> Map([k \in DOMAIN object.map |-> ItemToJson(objs, object.map[k])])
          [] object.tag = "list" -> List([i \in DOMAIN object.list |-> ItemToJson(objs, object.list[i])])

ToJson(objs) == ItemToJson(objs, Ref(ROOT))
-----------------------------------------------------------------------------
(* From JSON to the document.  The result of a call: the objects it leaves, and whether it    *)
(* returned; what it did before it threw stays.                                             *)

\* The item at a place, if there is one.
Get(objs, id, prop) ==
    CASE prop.tag = "key"   -> {objs[id].map[k] : k \in {prop.key} \cap DOMAIN objs[id].map}
      [] prop.tag = "index" -> {objs[id].list[i + 1] : i \in {prop.index} \cap 0..(Len(objs[id].list) - 1)}

\* json_to_scalar: every number that is no floating point number becomes an Int.
Signed(n)      == IF n >= 2^(Width - 1) THEN n - 2^Width ELSE n
Scalar(value)  == IF value.tag = "number" THEN JsonNumber(Signed(value.number)) ELSE value

\* put, insert, put_object and insert_object throw for an empty key, and for a place past
\* the end of a list.
Accepts(objs, id, prop, insert) ==
    CASE prop.tag = "key"   -> prop.key # ""
      [] prop.tag = "index" -> prop.index < Len(objs[id].list) + (IF insert THEN 1 ELSE 0)

Place(objs, id, prop, insert, item) ==
    [objs EXCEPT ![id] =
        CASE prop.tag = "key" -> Map(With(@.map, prop.key, item))
          [] prop.tag = "index" /\ insert  -> List(InsertAt(@.list, prop.index + 1, item))
          [] prop.tag = "index" /\ ~insert -> List(ReplaceAt(@.list, prop.index + 1, item))]

\* json_to_object: the order in which the items of a value go into the new object, a map's in
\* the order of a hash table, a list's from its last to its first, each at the front.
BadItemOrders(value) == IF value.tag = "map" THEN SetToSeqs(DOMAIN value.map)
                        ELSE {[i \in DOMAIN value.list |-> i]}
ItemOrders(value) == IF value.tag = "map" THEN SetToSeqs(DOMAIN value.map)
                     ELSE {Reverse([i \in DOMAIN value.list |-> i])}

\* json_adding, json_replacing and json_to_transaction
RECURSIVE Write(_, _, _, _, _)
Write(objs, id, prop, insert, value) ==
    LET new      == Len(objs) + 1
        Item(k)  == IF value.tag = "map" THEN value.map[k] ELSE value.list[k]
        Prop(k)  == IF value.tag = "map" THEN Key(k) ELSE Index(0)
        Step(outcomes, k) == UNION {
            IF o.ok THEN Write(o.objects, new, Prop(k), value.tag = "list", Item(k)) ELSE {o} : o \in outcomes}
        Empty    == IF value.tag = "map" THEN EmptyMap ELSE List(<<>>)
        made     == Append(Place(objs, id, prop, insert, Ref(new)), Empty)
    IN  IF ~Accepts(objs, id, prop, insert) THEN {[objects |-> objs, ok |-> FALSE]}
        ELSE IF value.tag \notin {"map", "list"}
        THEN {[objects |-> Place(objs, id, prop, insert, Scalar(value)), ok |-> TRUE]}
        ELSE UNION {FoldLeft(Step, {[objects |-> made, ok |-> TRUE]}, order) : order \in ItemOrders(value)}

JsonAdding(id, prop, value)    == Write(objects, id, prop, prop.tag = "index", value)
JsonReplacing(id, prop, value) == Write(objects, id, prop, FALSE, value)

Delete(objs, id, prop) ==
    IF ~Accepts(objs, id, prop, FALSE) THEN [objects |-> objs, ok |-> FALSE]
    ELSE [objects |-> [objs EXCEPT ![id] = IF prop.tag = "key" THEN Map(Without(@.map, prop.key))
                                           ELSE List(RemoveAt(@.list, prop.index + 1))],
          ok      |-> TRUE]

\* json_to_automerge: what a new document shows after a JSON value went into it; nothing if
\* that is no map.
FromJson(value) ==
    LET Step(outcomes, k) == UNION {
            IF o.ok THEN Write(o.objects, ROOT, Key(k), FALSE, value.map[k]) ELSE {o} : o \in outcomes}
        new == {[objects |-> <<EmptyMap>>, ok |-> TRUE]}
    IN  IF value.tag # "map" THEN new
        ELSE UNION {FoldLeft(Step, new, order) : order \in ItemOrders(value)}
-----------------------------------------------------------------------------
(* json_pointer_parse *)

\* The place a token names in an object, if it can name one.
PropOf(object, token) ==
    CASE object.tag = "map"  -> {Key(token)}
      [] object.tag = "list" -> {Index(Number[t]) : t \in {token} \cap DOMAIN Number}

Invalid == [tag |-> "invalid"]

RECURSIVE Parse(_, _)
Parse(objs, path) ==
    LET parent      == Parse(objs, Front(path))
        item        == CHOOSE i \in parent.items : TRUE
        prop        == CHOOSE p \in PropOf(objs[item.ref], Last(path)) : TRUE
        At(id)      == [tag |-> IF Get(objs, id, prop) = {} THEN "new" ELSE "existed",
                        id |-> id, prop |-> prop, items |-> Get(objs, id, prop)]
    IN  IF path = <<>> THEN [tag |-> "existed", id |-> ROOT, prop |-> Key(""), items |-> {Ref(ROOT)}]
        ELSE IF \/ parent.tag # "existed"
                \/ item.tag # "ref"
                \/ PropOf(objs[item.ref], Last(path)) = {}
        THEN Invalid ELSE At(item.ref)
-----------------------------------------------------------------------------
(* The JSON library: a value changed at a path.  The result: what it became, and whether the  *)
(* call returned; none if the call is not defined.                                           *)

\* The value itself is changed: assigned, given an item of a list, or rid of an item.
ChangedHere(json, change) ==
    CASE change.tag = "assign" -> {[json |-> change.value, ok |-> TRUE]}
      [] change.tag = "insert" ->
            IF json.tag # "list" THEN {[json |-> json, ok |-> FALSE]}
            ELSE {[json |-> List(InsertAt(json.list, i + 1, change.value)), ok |-> TRUE]
                    : i \in {change.index} \cap 0..Len(json.list)}
      [] change.tag = "erase index" ->
            IF json.tag # "list" \/ change.index >= Len(json.list) THEN {[json |-> json, ok |-> FALSE]}
            ELSE {[json |-> List(RemoveAt(json.list, change.index + 1)), ok |-> TRUE]}
      [] change.tag = "erase key" ->
            IF json.tag # "map" THEN {[json |-> json, ok |-> FALSE]}
            ELSE {[json |-> Map(Without(json.map, change.key)), ok |-> TRUE]}

\* A null on the way becomes what the next token asks for.
Converted(json, token) ==
    IF json.tag # "null" THEN json ELSE IF token \in DOMAIN Number THEN List(<<>>) ELSE EmptyMap

\* operator[], which makes what is missing on the way, or, if checked, at, which throws.
RECURSIVE ChangedAt(_, _, _, _)
ChangedAt(json, path, checked, change) ==
    LET token == Head(path)
        here  == IF checked THEN json ELSE Converted(json, token)
        i     == Number[token] + 1
        padded == here.list \o [k \in 1..(i - Len(here.list)) |-> Null]
        Missing == CASE here.tag = "map"  -> token \notin DOMAIN here.map
                     [] here.tag = "list" -> i > Len(here.list)
        InMap(child)  == {[json |-> Map(With(here.map, token, below.json)), ok |-> below.ok]
                            : below \in ChangedAt(child, Tail(path), checked, change)}
        InList(items) == {[json |-> List(ReplaceAt(items, i, below.json)), ok |-> below.ok]
                            : below \in ChangedAt(items[i], Tail(path), checked, change)}
    IN  IF path = <<>> THEN ChangedHere(json, change)
        ELSE IF \/ here.tag \notin {"map", "list"}
                \/ here.tag = "list" /\ token \notin Canonical
                \/ checked /\ Missing
        THEN {[json |-> here, ok |-> FALSE]}
        ELSE CASE here.tag = "map"  -> InMap(IF Missing THEN Null ELSE here.map[token])
               [] here.tag = "list" -> InList(IF Missing THEN padded ELSE here.list)
-----------------------------------------------------------------------------
(* The json_ functions: outcomes of a call *)

Refusal == {[objects |-> objects, json |-> json_doc, ok |-> FALSE]}

\* The copy is edited after the document, unless that threw.
Mirrored(outcomes, path, checked, change) ==
    UNION {IF ~o.ok THEN {[objects |-> o.objects, json |-> json_doc, ok |-> FALSE]}
           ELSE {[objects |-> o.objects, json |-> copy.json, ok |-> copy.ok]
                    : copy \in ChangedAt(json_doc, path, checked, change)} : o \in outcomes}

\* How the copy follows an addition: in a list an item goes between others.
BadAddition(item, path, value) == [path |-> path, change |-> [tag |-> "assign", value |-> value]]
Addition(item, path, value) ==
    IF item.prop.tag = "index"
    THEN [path |-> Front(path), change |-> [tag |-> "insert", index |-> Number[Last(path)], value |-> value]]
    ELSE [path |-> path, change |-> [tag |-> "assign", value |-> value]]

JsonAdd(path, value) ==
    LET item == Parse(objects, path)
        copy == Addition(item, path, value)
    IN  IF item.tag = "invalid" \/ (item.tag = "existed" /\ item.prop.tag = "key") THEN Refusal
        ELSE Mirrored(JsonAdding(item.id, item.prop, value), copy.path, FALSE, copy.change)

JsonReplace(path, value) ==
    LET item == Parse(objects, path)
    IN  IF item.tag # "existed" THEN Refusal
        ELSE Mirrored(JsonReplacing(item.id, item.prop, value), path, FALSE, [tag |-> "assign", value |-> value])

BadErasure(prop, token) == [tag |-> "erase key", key |-> token]
Erasure(prop, token) == IF prop.tag = "index" THEN [tag |-> "erase index", index |-> Number[token]]
                        ELSE [tag |-> "erase key", key |-> token]

JsonDelete(path) ==
    LET item == Parse(objects, path)
    IN  IF item.tag # "existed" THEN Refusal
        ELSE Mirrored({Delete(objects, item.id, item.prop)}, Front(path), TRUE, Erasure(item.prop, Last(path)))
-----------------------------------------------------------------------------
(* Actions *)

\* Calls that json_doc cannot follow: a number that is no s64; an index with leading zeros,
\* which the JSON library refuses; a number as the first key of a document whose copy is not
\* even a map yet.
RECURSIVE NumbersIn(_)
NumbersIn(value) ==
    CASE value.tag = "number" -> {value.number}
      [] value.tag = "map"    -> UNION {NumbersIn(value.map[k]) : k \in DOMAIN value.map}
      [] value.tag = "list"   -> UNION {NumbersIn(value.list[i]) : i \in DOMAIN value.list}
      [] OTHER -> {}

Fits(value)    == \A n \in NumbersIn(value) : n = Signed(n)
Usual(path)    == /\ ToSet(path) \cap DOMAIN Number \subseteq Canonical
                  /\ json_doc = Null /\ path # <<>> => Head(path) \notin DOMAIN Number

InBounds(objs) ==
    /\ Len(objs) <= MaxObjects
    /\ \A id \in DOMAIN objs :
        IF objs[id].tag = "list" THEN Len(objs[id].list) <= MaxItems
        ELSE Cardinality(DOMAIN objs[id].map) <= MaxItems

\* What a call leaves behind, with a call that json_doc does not follow.
Leave(outcome, follows) ==
    /\ InBounds(outcome.objects)
    /\ objects' = outcome.objects
    /\ json_doc' = outcome.json
    /\ apart' = (apart \/ ~follows \/ (~outcome.ok /\ outcome.objects # objects))

AddItem == \E path \in Path, value \in Values :
        \E outcome \in JsonAdd(path, value) : Leave(outcome, Usual(path) /\ Fits(value))

ReplaceItem == \E path \in Path, value \in Values :
            \E outcome \in JsonReplace(path, value) : Leave(outcome, Usual(path) /\ Fits(value))

DeleteItem == \E path \in Path : \E outcome \in JsonDelete(path) : Leave(outcome, Usual(path))

\* put, put_object, insert, insert_object, increment and delete_, at any place of any object; also as
\* edits of others.
Edits == UNION {
    LET Props == IF objects[id].tag = "map" THEN {Key(k) : k \in Keys}
                 ELSE {Index(i) : i \in 0..Len(objects[id].list)}
    IN  UNION {JsonAdding(id, prop, value) \cup JsonReplacing(id, prop, value) : prop \in Props, value \in Values}
            \cup {Delete(objects, id, prop) : prop \in Props}
    : id \in DOMAIN objects}

Edit == \E outcome \in Edits :
    /\ InBounds(outcome.objects)
    /\ objects' = outcome.objects
    /\ apart' = (apart \/ objects' # objects)
    /\ UNCHANGED json_doc

\* apply_changes_with: somebody's edit, or none, and a new copy.
ApplyChanges == \E outcome \in Edits \cup {[objects |-> objects, ok |-> TRUE]} :
    /\ outcome.ok
    /\ InBounds(outcome.objects)
    /\ objects' = outcome.objects
    /\ json_doc' = ToJson(objects')
    /\ apart' = FALSE

\* A document that nothing was done to, which has no copy.
Init ==
    /\ objects = <<EmptyMap>>
    /\ json_doc = Null
    /\ apart = FALSE

Next == AddItem \/ ReplaceItem \/ DeleteItem \/ Edit \/ ApplyChanges

Spec == Init /\ [][Next]_vars
-----------------------------------------------------------------------------
(* Properties *)

\* json_doc is what to_json would make of the document, as long as it can follow: after any
\* calls of the json_ functions, through lists and maps and whatever they put at a path, and
\* of apply_changes.  Only a new document has none.
MirrorExact ==
    ~apart => json_doc = ToJson(objects) \/ (json_doc = Null /\ objects = <<EmptyMap>>)

\* A json_ function that throws has left the document as it was, although it edits the
\* document first and checks json_doc afterwards.  A value with an empty key in it, or
\* a path that the JSON library does not take, is the exception: part of the value is in the
\* document then, and not in json_doc.
RECURSIVE HasEmptyKey(_)
HasEmptyKey(value) ==
    CASE value.tag = "map"  -> \E k \in DOMAIN value.map : k = "" \/ HasEmptyKey(value.map[k])
      [] value.tag = "list" -> \E i \in DOMAIN value.list : HasEmptyKey(value.list[i])
      [] OTHER -> FALSE

FailedCallLeavesDocument == ~apart => \A path \in Path :
    LET AllOrNothing(outcomes) == \A o \in outcomes : ~o.ok => o.objects = objects
    IN  Usual(path) =>
            /\ AllOrNothing(JsonDelete(path))
            /\ \A value \in Values : ~HasEmptyKey(value) =>
                    AllOrNothing(JsonAdd(path, value)) /\ AllOrNothing(JsonReplace(path, value))

\* A document made from the JSON of another shows the same.
ReimportShowsTheSame == \A new \in FromJson(ToJson(objects)) : new.ok /\ ToJson(new.objects) = ToJson(objects)
=============================================================================
