----------------------------- MODULE Documents -----------------------------
(***************************************************************************)
(* What the object and array interface of lib/parson.h promises: each      *)
(* handle stands for a document, a tree of named and numbered parts, and a *)
(* call changes the documents it is given and no other.  There are no      *)
(* pointers, no parallel arrays and no order among the members of an       *)
(* object.                                                                 *)
(*                                                                         *)
(* A document is a function from the paths of its parts to their types; a  *)
(* path is a sequence of names (in objects) and numbers (in arrays).       *)
(***************************************************************************)
EXTENDS Integers, SequencesExt

CONSTANTS Handle,    \* what may stand for a document
          Name,      \* the names of members
          Path,      \* the paths that a call may name
          Type,      \* the types a part may have
          Scalar     \* those without parts

VARIABLE doc   \* [a set of handles -> [a set of paths -> Type]]

Root == << >>

Beyond(p, q) == SubSeq(q, Len(p) + 1, Len(q))

Inside(d, p) == {q \in DOMAIN d : IsPrefix(p, q)}

Part(d, p) == [q \in {Beyond(p, r) : r \in Inside(d, p)} |-> d[p \o q]]

Without(d, p) == [q \in DOMAIN d \ Inside(d, p) |-> d[q]]

Leaf(type) == [q \in {Root} |-> type]

Above(p) == {q \in {SubSeq(p, 1, n) : n \in 0 .. Len(p)} : q # p}

\* The hierarchy that leads to p, created if necessary.
Hierarchy(d, p) ==
  [q \in DOMAIN d \cup Above(p) |-> IF q \in DOMAIN d THEN d[q] ELSE "object"]

\* d with e in place of what stands at p.
Grafted(d, p, e) ==
  LET kept == Without(Hierarchy(d, p), p) IN
  [q \in DOMAIN kept \cup {p \o r : r \in DOMAIN e} |->
     IF q \in DOMAIN kept THEN kept[q] ELSE e[Beyond(p, q)]]

\* p is a place in d, or one that can be made by objects on the way; the parts
\* of an array are numbered from 1, so only the next one can be new.
Fits(d, p) ==
  /\ p # Root
  /\ \A q \in Above(p) \cap DOMAIN d :
       d[q] = IF p[Len(q) + 1] \in Name THEN "object" ELSE "array"
  /\ \/ Last(p) \in Name
     \/ /\ Front(p) \in DOMAIN d
        /\ Last(p) > 1 => Append(Front(p), Last(p) - 1) \in DOMAIN d

\* The array at p without its i-th item: the later ones move up.
Closed(d, p, i) ==
  LET moved(q) ==
        IF IsStrictPrefix(p, q) /\ q[Len(p) + 1] >= i
          THEN [q EXCEPT ![Len(p) + 1] = @ + 1] ELSE q
      rest == Without(d, Append(p, i))
      back(q) ==
        IF IsStrictPrefix(p, q) /\ q[Len(p) + 1] > i
          THEN [q EXCEPT ![Len(p) + 1] = @ - 1] ELSE q
  IN  [q \in {back(r) : r \in DOMAIN rest} |-> d[moved(q)]]

-----------------------------------------------------------------------------
(* A call leads from the documents d to the documents e.                   *)

\* All but h stay as they are.
Only(h, d, e) == \A g \in (DOMAIN d \cap DOMAIN e) \ {h} : e[g] = d[g]

\* It makes a document, which may be a copy of a part of another,
New(d, e, h) ==
  /\ DOMAIN e = DOMAIN d \cup {h} /\ Only(h, d, e)
  /\ \/ \E type \in Type : e[h] = Leaf(type)
     \/ \E g \in DOMAIN d : \E p \in DOMAIN d[g] : e[h] = Part(d[g], p)

\* or ends one,
Free(d, e, h) == DOMAIN e = DOMAIN d \ {h} /\ Only(h, d, e)

\* or makes the document s a part of h,
Put(d, e, h, s) ==
  /\ s # h /\ DOMAIN e = DOMAIN d \ {s} /\ Only(h, d, e)
  /\ \E p \in DOMAIN d[h], q \in Path :
       Fits(d[h], p \o q) /\ e[h] = Grafted(d[h], p \o q, d[s])

\* or changes one: a scalar is put at p, or nothing but what leads there, or
\* a member, an item or all parts are taken from it.
ChangedAt(c, p) ==
  IF Fits(c, p)
    THEN {Hierarchy(c, p)} \cup {Grafted(c, p, Leaf(type)) : type \in Scalar}
    ELSE {}

RemovedAt(c, p) ==
  IF p \notin DOMAIN c \ {Root} THEN {}
  ELSE IF Last(p) \in Name THEN {Without(c, p)}
  ELSE {Closed(c, Front(p), Last(p))}

ClearedAt(c, p) ==
  [q \in DOMAIN c \ {r \in Inside(c, p) : r # p} |-> c[q]]

Change(d, e, h) ==
  /\ DOMAIN e = DOMAIN d /\ Only(h, d, e)
  /\ \E p \in DOMAIN d[h] :
       \/ e[h] = ClearedAt(d[h], p)
       \/ e[h] \in RemovedAt(d[h], p)
       \/ \E q \in Path : e[h] \in ChangedAt(d[h], p \o q)

Init == doc = [h \in {} |-> Leaf("object")]

Call(d, e) ==
  \/ \E h \in Handle \ DOMAIN d : New(d, e, h)
  \/ \E h \in DOMAIN d : Free(d, e, h) \/ Change(d, e, h)
  \/ \E h, s \in DOMAIN d : Put(d, e, h, s)

\* TLC evaluates each side of a step once.
Next == \E d \in {doc}, e \in {doc'} : Call(d, e)

Spec == Init /\ [][Next]_doc
=============================================================================
