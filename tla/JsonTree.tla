------------------------------ MODULE JsonTree ------------------------------
(***************************************************************************)
(* The values of lib/parson.c as they lie in memory, and the calls that    *)
(* change them: setters, removal, copies and the release of whole trees.   *)
(* An object keeps its names and values in two arrays that grow together,  *)
(* an array its items in one; a value knows the value it is in.            *)
(*                                                                         *)
(* A name with dots is the path of the names between them.  Strings and    *)
(* numbers stand for all scalars, and what they hold is left out.  Memory  *)
(* that has been released is used again; which of the free addresses       *)
(* malloc returns makes no difference.                                     *)
(***************************************************************************)
EXTENDS Integers, SequencesExt, FiniteSetsExt, Functions

CONSTANTS Value,               \* the addresses of values
          Name,                \* the names of members
          NULL,
          STARTING_CAPACITY    \* 16 in the code

ASSUME JsonTreeAssumption ==
  /\ IsFiniteSet(Value)
  /\ NULL \notin Value
  /\ STARTING_CAPACITY \in Nat \ {0}
  /\ Name \cap Int = {}   \* names are strings, places in arrays are numbers

VARIABLE heap   \* [Value -> JSON_Value]

Scalar == {"string", "number"}

Type == {"object", "array"} \cup Scalar

\* struct json_value_t with the json_object_t or json_array_t it points to.
\* Type "free" is memory that is not a value.
JSON_Value ==
  [type : Type \cup {"free"}, parent : Value \cup {NULL},
   names : Seq(Name), values : Seq(Value), capacity : Nat]

NewValue(type) ==
  [type |-> type, parent |-> NULL, names |-> << >>, values |-> << >>,
   capacity |-> 0]

Live(h) == {v \in Value : h[v].type # "free"}

FreeAddresses(h) == Value \ Live(h)

malloc(h) == CHOOSE v \in FreeAddresses(h) : TRUE

Init == heap = [v \in Value |-> NewValue("free")]

\* What a call leaves and returns.
Success(h) == [heap |-> h, ret |-> "JSONSuccess"]
Failure(h) == [heap |-> h, ret |-> "JSONFailure"]

\* Mutant of Grown: the arrays grow when there are more values than fit.
GrownLate(count, capacity) ==
  IF count <= capacity THEN capacity
    ELSE Max({capacity * 2, STARTING_CAPACITY})

\* MAX(capacity * 2, STARTING_CAPACITY) when the arrays are full.
Grown(count, capacity) ==
  IF count < capacity THEN capacity
    ELSE Max({capacity * 2, STARTING_CAPACITY})

-----------------------------------------------------------------------------
(* Values.                                                                 *)

json_value_init(h, type) == [h EXCEPT ![malloc(h)] = NewValue(type)]

\* v and all that json_value_free reaches from it.
Tree(h, v) ==
  LET tree[n \in 0 .. Cardinality(Value)] ==
        IF n = 0 THEN {v}
          ELSE LET S == tree[n - 1] IN S \cup UNION {ToSet(h[u].values) : u \in S}
  IN  tree[Cardinality(Value)]

json_value_free(h, v) ==
  [w \in Value |-> IF w \in Tree(h, v) THEN NewValue("free") ELSE h[w]]

\* The index of the member of that name, or 0.
Index(h, object, name) ==
  LET found == {i \in DOMAIN h[object].names : h[object].names[i] = name} IN
  IF found = {} THEN 0 ELSE Min(found)

json_object_get_value(h, object, name) ==
  LET i == Index(h, object, name) IN
  IF i = 0 THEN NULL ELSE h[object].values[i]

json_object_get_object(h, object, name) ==
  LET value == json_object_get_value(h, object, name) IN
  IF value # NULL /\ h[value].type = "object" THEN value ELSE NULL

\* The object that all names of a path but the last lead to, or NULL.
Innermost(h, object, path) ==
  LET Inner(o, name) ==
        IF o = NULL THEN NULL ELSE json_object_get_object(h, o, name)
  IN  FoldLeft(Inner, object, Front(path))

\* What a name with dots leads to, or NULL.
json_object_dotget_value(h, object, path) ==
  LET o == Innermost(h, object, path) IN
  IF o = NULL THEN NULL ELSE json_object_get_value(h, o, Last(path))

-----------------------------------------------------------------------------
(* Objects.                                                                *)

json_object_add(h, object, name, value) ==
  IF json_object_get_value(h, object, name) # NULL THEN Failure(h)
  ELSE Success([h EXCEPT
         ![object].names = Append(@, name),
         ![object].values = Append(@, value),
         ![object].capacity = Grown(Len(h[object].values), h[object].capacity),
         ![value].parent = object])

\* The arrays of container hold value at i, where another value was released.
Replaced(h, container, i, value) ==
  [json_value_free(h, h[container].values[i]) EXCEPT
     ![container].values[i] = value, ![value].parent = container]

\* Mutant of json_object_set_value: a value that another one holds is taken.
json_object_set_owned(h, object, name, value) ==
  LET i == Index(h, object, name) IN
  IF i # 0 THEN Success(Replaced(h, object, i, value))
  ELSE json_object_add(h, object, name, value)

json_object_set_value(h, object, name, value) ==
  LET i == Index(h, object, name) IN
  IF h[value].parent # NULL THEN Failure(h)
  ELSE IF i # 0 THEN Success(Replaced(h, object, i, value))
  ELSE json_object_add(h, object, name, value)

\* One level of json_object_dotset_value: into the object of that name, which
\* is created if there is none, and added if the name is not taken.
Enter(walk, name) ==
  LET found == json_object_get_object(walk.heap, walk.object, name)
      new == malloc(walk.heap)
      added == json_object_add(json_value_init(walk.heap, "object"),
                               walk.object, name, new)
  IN  IF walk.ret = "JSONFailure" THEN walk
      ELSE IF found # NULL THEN [walk EXCEPT !.object = found]
      ELSE IF added.ret = "JSONFailure" THEN [walk EXCEPT !.ret = added.ret]
      ELSE [heap |-> added.heap, object |-> new, ret |-> added.ret]

\* Mutant of json_object_dotset_value: the value is set where the path begins.
json_object_dotset_first(h, object, path, value) ==
  json_object_set_value(h, object, Last(path), value)

\* The hierarchy stays when the value cannot be set at its end.
json_object_dotset_value(h, object, path, value) ==
  LET walk == FoldLeft(Enter, [heap |-> h, object |-> object,
                               ret |-> "JSONSuccess"], Front(path))
  IN  IF walk.ret = "JSONFailure" THEN Failure(walk.heap)
      ELSE json_object_set_value(walk.heap, walk.object, Last(path), value)

\* json_object_dotset_string and _number, and json_object_set_string and
\* _number for one name: a value that was made for the call is released if it
\* cannot be set.
json_object_dotset_scalar(h, object, path, type) ==
  LET value == malloc(h)
      set == json_object_dotset_value(json_value_init(h, type), object, path,
                                      value)
  IN  IF set.ret = "JSONFailure"
        THEN Failure(json_value_free(set.heap, value)) ELSE set

\* Mutant of json_object_remove: the last name moves up without its value.
json_object_remove_name(h, object, name) ==
  LET i == Index(h, object, name)
      last == Len(h[object].names)
  IN  IF i = 0 THEN Failure(h)
      ELSE Success([json_value_free(h, h[object].values[i]) EXCEPT
             ![object].names = Front([h[object].names EXCEPT
                                        ![i] = h[object].names[last]]),
             ![object].values = RemoveAt(@, i)])

\* The last member takes the place of the one that is removed.
json_object_remove(h, object, name) ==
  LET i == Index(h, object, name)
      last == Len(h[object].names)
      Moved(s) == Front([s EXCEPT ![i] = s[last]])
  IN  IF i = 0 THEN Failure(h)
      ELSE Success([json_value_free(h, h[object].values[i]) EXCEPT
             ![object].names = Moved(@), ![object].values = Moved(@)])

json_object_dotremove(h, object, path) ==
  LET o == Innermost(h, object, path) IN
  IF o = NULL THEN Failure(h) ELSE json_object_remove(h, o, Last(path))

-----------------------------------------------------------------------------
(* Arrays.  Items are counted from 1 here.                                 *)

json_array_append_value(h, array, value) ==
  IF h[value].parent # NULL THEN Failure(h)
  ELSE Success([h EXCEPT
         ![array].values = Append(@, value),
         ![array].capacity = Grown(Len(h[array].values), h[array].capacity),
         ![value].parent = array])

json_array_replace_value(h, array, i, value) ==
  IF h[value].parent # NULL \/ i \notin DOMAIN h[array].values THEN Failure(h)
  ELSE Success(Replaced(h, array, i, value))

json_array_remove(h, array, i) ==
  IF i \notin DOMAIN h[array].values THEN Failure(h)
  ELSE Success([json_value_free(h, h[array].values[i]) EXCEPT
         ![array].values = RemoveAt(@, i)])

\* json_object_clear and json_array_clear: the arrays keep their capacity.
Cleared(h, container) ==
  [v \in Value |->
     IF v = container
       THEN [h[v] EXCEPT !.names = << >>, !.values = << >>]
     ELSE IF v \in Tree(h, container) THEN NewValue("free")
     ELSE h[v]]

\* The capacity that n additions to an empty container lead to.
CapacityFor(n) ==
  LET capacity[k \in 0 .. n] ==
        IF k = 0 THEN 0 ELSE Grown(k - 1, capacity[k - 1])
  IN  capacity[n]

json_value_deep_copy(h, v) ==
  LET to == CHOOSE f \in Injection(Tree(h, v), FreeAddresses(h)) : TRUE
      copy(w) == [h[w] EXCEPT
                    !.parent = IF w = v THEN NULL ELSE to[@],
                    !.values = [i \in DOMAIN @ |-> to[@[i]]],
                    !.capacity = CapacityFor(Len(h[w].values))]
  IN  [u \in Value |->
         IF u \in Range(to) THEN copy(AntiFunction(to)[u]) ELSE h[u]]

-----------------------------------------------------------------------------
(* The calls that a program may make: with values that are live, and never *)
(* to put a value into itself, which nothing in parson prevents.           *)

Objects == {v \in Live(heap) : heap[v].type = "object"}

Arrays == {v \in Live(heap) : heap[v].type = "array"}

Dotted == {<<name>> : name \in Name} \cup (Name \X Name)

Room(n) == Cardinality(FreeAddresses(heap)) >= n

Legal(container, value) ==
  heap[value].parent = NULL => container \notin Tree(heap, value)

Call(result) == heap' = result.heap

Make ==
  /\ Room(1)
  /\ \E type \in Type : heap' = json_value_init(heap, type)

Release ==
  \E v \in Live(heap) :
    heap[v].parent = NULL /\ heap' = json_value_free(heap, v)

SetValue ==
  \E o \in Objects, path \in Dotted, v \in Live(heap) :
    /\ Legal(o, v) /\ Room(Len(path) - 1)
    /\ Call(json_object_dotset_value(heap, o, path, v))

SetScalar ==
  \E o \in Objects, path \in Dotted, type \in Scalar :
    /\ Room(Len(path))
    /\ Call(json_object_dotset_scalar(heap, o, path, type))

RemoveMember ==
  \E o \in Objects, path \in Dotted :
    Call(json_object_dotremove(heap, o, path))

AppendValue ==
  \E a \in Arrays, v \in Live(heap) :
    Legal(a, v) /\ Call(json_array_append_value(heap, a, v))

\* json_array_append_string and _number.
AppendScalar ==
  /\ Room(1)
  /\ \E a \in Arrays, type \in Scalar :
       Call(json_array_append_value(json_value_init(heap, type), a,
                                    malloc(heap)))

ReplaceValue ==
  \E a \in Arrays, v \in Live(heap) : \E i \in 1 .. Len(heap[a].values) + 1 :
    Legal(a, v) /\ Call(json_array_replace_value(heap, a, i, v))

\* json_array_replace_string and _number, which release the value they made
\* if there is no such item.
ReplaceScalar ==
  /\ Room(1)
  /\ \E a \in Arrays, type \in Scalar : \E i \in 1 .. Len(heap[a].values) + 1 :
       LET value == malloc(heap)
           set == json_array_replace_value(json_value_init(heap, type), a, i,
                                           value)
       IN  heap' = IF set.ret = "JSONFailure"
                     THEN json_value_free(set.heap, value) ELSE set.heap

RemoveItem ==
  \E a \in Arrays : \E i \in 1 .. Len(heap[a].values) + 1 :
    Call(json_array_remove(heap, a, i))

Clear == \E c \in Objects \cup Arrays : heap' = Cleared(heap, c)

DeepCopy ==
  \E v \in Live(heap) :
    /\ Room(Cardinality(Tree(heap, v)))
    /\ heap' = json_value_deep_copy(heap, v)

Next ==
  \/ Make \/ Release
  \/ SetValue \/ SetScalar \/ RemoveMember
  \/ AppendValue \/ AppendScalar \/ ReplaceValue \/ ReplaceScalar \/ RemoveItem
  \/ Clear \/ DeepCopy

Spec == Init /\ [][Next]_heap

-----------------------------------------------------------------------------
(* Values are of a type, only objects have names, one for each value, and   *)
(* no array is written past its capacity (parson.c:347-394, 440-469).       *)
TypeOK ==
  /\ heap \in [Value -> JSON_Value]
  /\ \A v \in Value :
       /\ Len(heap[v].values) <= heap[v].capacity
       /\ heap[v].type = "object" => Len(heap[v].names) = Len(heap[v].values)
       /\ heap[v].type # "object" => heap[v].names = << >>
       /\ heap[v].type \in Scalar \cup {"free"} => heap[v].values = << >>

Places(v) ==
  UNION {{p} \X {i \in DOMAIN heap[p].values : heap[p].values[i] = v} :
         p \in Value}

(* Every value is in exactly the container that it knows as its parent, at  *)
(* one place, or in none: nothing that has been released is still reached,  *)
(* nothing will be released twice, and no name is there twice               *)
(* (parson.c:366, 447, 1561, 1684, 1692).                                   *)
Ownership ==
  \A v \in Value :
    /\ IF heap[v].type = "free" \/ heap[v].parent = NULL THEN Places(v) = {}
       ELSE \E i \in DOMAIN heap[heap[v].parent].values :
              Places(v) = {<<heap[v].parent, i>>}
    /\ IsInjective(heap[v].names)

(* What has been set is what is read at that place, and a call that fails   *)
(* loses nothing: whatever led somewhere still does (parson.c:1102, 1718).  *)
SetIsGot ==
  \A o \in Objects, path \in Dotted, v \in Live(heap) :
    LET set == json_object_dotset_value(heap, o, path, v) IN
    (Legal(o, v) /\ Room(Len(path) - 1)) =>
      IF set.ret = "JSONSuccess"
        THEN json_object_dotget_value(set.heap, o, path) = v
        ELSE \A p \in Objects, other \in Dotted :
               json_object_dotget_value(heap, p, other) # NULL =>
                 json_object_dotget_value(set.heap, p, other)
                   = json_object_dotget_value(heap, p, other)

PlaceOf(h, v) ==
  LET p == h[v].parent IN
  CHOOSE k \in DOMAIN h[p].values : h[p].values[k] = v

\* The name or number of v in its container.
KeyOf(h, v) ==
  LET p == h[v].parent IN
  IF h[p].type = "object" THEN h[p].names[PlaceOf(h, v)] ELSE PlaceOf(h, v)

PathTo(h) ==
  LET path[v \in Value] ==
        IF h[v].parent = NULL THEN << >>
          ELSE Append(path[h[v].parent], KeyOf(h, v))
  IN  path

Document(h, r) ==
  LET path == PathTo(h)
      parts == Tree(h, r)
  IN  [p \in {path[v] : v \in parts} |->
         h[CHOOSE v \in parts : path[v] = p].type]

Roots(h) == {v \in Live(h) : h[v].parent = NULL}

AllDocuments(h) == [r \in Roots(h) |-> Document(h, r)]

D == INSTANCE Documents WITH
       Handle <- Value,
       Path <- Dotted \cup {<<i>> : i \in 1 .. Cardinality(Value)},
       doc <- AllDocuments(heap)

(* The values in memory implement documents: a call changes the parts it    *)
(* names, in the documents it is given, and nothing else; what was set,     *)
(* copied or removed is what a reader of parson.h expects (parson.c:334-479,*)
(* 1236-1418, 1544-1846).                                                   *)
ImplementsDocuments == D!Spec
=============================================================================
