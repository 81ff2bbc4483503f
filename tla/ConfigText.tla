----------------------------- MODULE ConfigText -----------------------------
(***************************************************************************)
(* What a text says, by its grammar and not by a scan: the reference that  *)
(* the parser of Parson and the configuration of ClientMain are compared   *)
(* with.                                                                   *)
(***************************************************************************)
EXTENDS Parson, FiniteSets

Inside(s) == SubSeq(s, 2, Len(s) - 1)

Before(s, k) == SubSeq(s, 1, k - 1)

After(s, k) == SubSeq(s, k + 1, Len(s))

Bracketed(s, open, close) ==
  Len(s) >= 2 /\ s[1].type = open /\ s[Len(s)].type = close

RECURSIVE IsValue(_), IsItems(_), IsMembers(_)

IsValue(s) ==
  \/ Len(s) = 1 /\ s[1].type \in ScalarTypes
  \/ Bracketed(s, "[", "]") /\ (Len(s) = 2 \/ IsItems(Inside(s)))
  \/ Bracketed(s, "{", "}") /\ (Len(s) = 2 \/ IsMembers(Inside(s)))

IsItems(s) ==
  \/ IsValue(s)
  \/ \E k \in DOMAIN s :
       s[k].type = "," /\ IsValue(Before(s, k)) /\ IsItems(After(s, k))

IsMember(s) ==
  /\ Len(s) >= 3
  /\ s[1].type = "string" /\ s[2].type = ":" /\ IsValue(After(s, 2))

IsMembers(s) ==
  \/ IsMember(s)
  \/ \E k \in DOMAIN s :
       s[k].type = "," /\ IsMember(Before(s, k)) /\ IsMembers(After(s, k))

-----------------------------------------------------------------------------
Opens(s, k) == s[k].type \in {"{", "["}
Closes(s, k) == s[k].type \in {"}", "]"}

\* How many brackets the token at k is in.
Depth(s, k) ==
  Cardinality({j \in 1 .. k - 1 : Opens(s, j)})
    - Cardinality({j \in 1 .. k - 1 : Closes(s, j)})

\* k and l are in the same brackets: none is left or entered between them.
SameBrackets(s, k, l) ==
  /\ Depth(s, k) = Depth(s, l)
  /\ \A j \in k .. l : Closes(s, j) => Depth(s, j) > Depth(s, k)

Keys(s) == {k \in 1 .. Len(s) - 1 :
              s[k].type = "string" /\ s[k + 1].type = ":"}

\* The texts that parson accepts: values without a name twice in one object,
\* whose parts are in at most MAX_NESTING brackets.
WellFormed(s) ==
  /\ IsValue(s)
  /\ \A k \in DOMAIN s : Closes(s, k) \/ Depth(s, k) <= MAX_NESTING
  /\ \A k, l \in Keys(s) :
       (k < l /\ SameBrackets(s, k, l)) => s[k] # s[l]

\* What stands at the beginning of a text.
FirstValues(text) ==
  {s \in {SubSeq(text, 1, k) : k \in DOMAIN text} : WellFormed(s)}

\* What parson takes for the number 0, and it is not a value.
BeginsWithMinus(text) == text # << >> /\ text[1] = Minus

\* The members of an object that is not inside another value.
TopKeys(s, name) ==
  {k \in Keys(s) : s[k].string = name /\ Depth(s, k) = 1 /\ s[1].type = "{"}

Says(s, name, type) ==
  \E k \in TopKeys(s, name) : s[k + 2].type = type

\* What the object s says of name.
Said(s, name) == s[(CHOOSE k \in TopKeys(s, name) : TRUE) + 2]
=============================================================================
